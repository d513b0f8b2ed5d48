------------------------------- MODULE Domctl -------------------------------
(***************************************************************************)
(* The domain-control hypercall, do_domctl (common/domctl.c), issued by   *)
(* dom0's vCPUs at once.                                                   *)
(*                                                                         *)
(* A call looks the target domain up, then takes dom0's                    *)
(* hypercall_deadlock_mutex and the global domctl_lock, both by trylock;   *)
(* if either is held it returns a continuation and the vCPU re-executes    *)
(* the hypercall.  Under the lock it runs one command: createdomain (a     *)
(* free domain id from the static rover), destroydomain (domain_kill),     *)
(* pausedomain, unpausedomain and resumedomain, max_vcpus (the vCPU        *)
(* array, under domain_pause and vcpu_alloc_lock, which the code only      *)
(* ever trylocks, continuing the hypercall when it must yield), the vCPU   *)
(* context commands (under domain_pause or vcpu_pause), setdebugging, and  *)
(* the commands that only read or set data (getvcpuinfo, getdomaininfo,    *)
(* max_mem).                                                               *)
(*                                                                         *)
(* domain_pause raises pause_count and waits until no vCPU of the domain   *)
(* is running (vcpu_sleep_sync).  A vCPU of a guest runs when it exists,   *)
(* its domain is alive and pause_count is 0; the scheduler takes a vCPU    *)
(* off whenever it likes.  A dom0 vCPU inside a hypercall is running and   *)
(* cannot be taken off.  domain_pause, vcpu_pause, domain_kill,            *)
(* domain_create, domain_resume, vcpu_reset, alloc_vcpu and                *)
(* arch_set_info_guest are outside this tree and are modelled from Xen's   *)
(* definitions of them.                                                    *)
(***************************************************************************)
EXTENDS Integers, FiniteSets

CONSTANTS
  Callers,     \* dom0's vCPUs issuing domctls
  NDOM,        \* DOMID_FIRST_RESERVED: domain ids are 0 .. NDOM-1
  MaxV,        \* MAX_VIRT_CPUS
  Ops,         \* the domctls dom0 issues: [cmd, dom, max, vcpu, flag]
  MaxOps,      \* bound on the domctls issued
  None

DomIds == 0 .. NDOM - 1
DOMID_FIRST_RESERVED == NDOM
MAX_VIRT_CPUS == MaxV
VcpuIds == 0 .. MaxV - 1

EINVAL == 22
ESRCH == 3
EACCES == 13
ENOMEM == 12
EBUSY == 16
EAGAIN == 11
EFAULT == 14
ENODATA == 61
\* hypercall_create_continuation returns the hypercall's number, __HYPERVISOR_domctl.
CONT == 36

VARIABLES
  dom,         \* per id: [st, ctrl, pause, max, vcpus]
  running,     \* per id: the vCPUs of the domain on a CPU
  rover,       \* the static rover of XEN_DOMCTL_createdomain
  mutex,       \* holder of dom0's hypercall_deadlock_mutex, or None
  lock,        \* holder of domctl_lock, or None
  valloc,      \* holder of vcpu_alloc_lock: None, a caller or "other"
  call,        \* per caller: [pc, op, i, ret, info]
  issued       \* domctls issued so far

vars == <<dom, running, rover, mutex, lock, valloc, call, issued>>

\* st: "free" (no struct domain), "alive", "dying", "dead"; ctrl is
\* is_paused_by_controller; vpause is each vCPU's pause_count and init the
\* vCPUs with is_initialised; dbg is debugger_attached.
NoDomain == [st |-> "free", ctrl |-> FALSE, pause |-> 0, max |-> 0, vcpus |-> {},
             vpause |-> [v \in VcpuIds |-> 0], init |-> {}, dbg |-> FALSE]

Init ==
  /\ dom = [d \in DomIds |-> IF d = 0
                             THEN [st |-> "alive", ctrl |-> FALSE, pause |-> 0,
                                   max |-> Cardinality(Callers), vcpus |-> {},
                                   vpause |-> [v \in VcpuIds |-> 0], init |-> {}, dbg |-> FALSE]
                             ELSE NoDomain]
  /\ running = [d \in DomIds |-> {}]
  /\ rover = 0
  /\ mutex = None
  /\ lock = None
  /\ valloc = None
  /\ call = [c \in Callers |-> [pc |-> "guest", op |-> None, i |-> 0, ret |-> 0, info |-> None]]
  /\ issued = 0

-----------------------------------------------------------------------------
(* Helpers. *)

Op(c) == call[c].op
D(c) == Op(c).dom
V(c) == Op(c).vcpu

\* Set the caller's next step.
Goto(c, pc) == call' = [call EXCEPT ![c].pc = pc]

\* Set the next step and ret.
Goto2(c, pc, ret) == call' = [call EXCEPT ![c].pc = pc, ![c].ret = ret]

\* Leave do_domctl with ret (the continuation included).
Return(c, ret) == call' = [call EXCEPT ![c].pc = "guest", ![c].ret = ret]

\* Take the rest of the body with ret: domctl_lock_release() follows.
Break(c, ret) == call' = [call EXCEPT ![c].pc = "release", ![c].ret = ret]

\* A vCPU of d may be put on a CPU.
Runnable(d) == dom[d].st = "alive" /\ dom[d].pause = 0
RunnableV(d, v) == Runnable(d) /\ dom[d].vpause[v] = 0

\* is_free_domid: below DOMID_FIRST_RESERVED and no struct domain.
is_free_domid(d) == d < DOMID_FIRST_RESERVED /\ dom[d].st = "free"

\* The rover's search, for ( dom = rover + 1; dom != rover; dom++ ) with
\* dom reset to 0 at DOMID_FIRST_RESERVED inside the body: x is dom at the
\* loop test.  It gives a free id, rover itself (the -ENOMEM exit), or
\* Hang when the loop cannot end: the body runs at most NDOM + 1 times
\* before dom repeats.
Hang == -1
RECURSIVE RoverLoop(_, _)
RoverLoop(x, fuel) ==
  IF x = rover THEN rover
  ELSE IF fuel = 0 THEN Hang
  ELSE LET y == IF x = DOMID_FIRST_RESERVED THEN 0 ELSE x
       IN  IF is_free_domid(y) THEN y ELSE RoverLoop(y + 1, fuel - 1)

RoverSearch == RoverLoop(rover + 1, NDOM + 2)

\* domain_pause(d): atomic_inc(&d->pause_count), then vcpu_sleep_sync on
\* every vCPU.  This is its first half; Synced is the second.
PauseInc(d) == dom' = [dom EXCEPT ![d].pause = @ + 1]
Synced(d) == running[d] = {}
\* dom0's own vCPUs are the callers: they run while in the hypervisor.
SyncedDom(d) == IF d = 0 THEN \A c \in Callers : call[c].pc = "guest"
                         ELSE Synced(d)

\* domain_unpause(d): atomic_dec_and_test(&d->pause_count) wakes the vCPUs.
PauseDec(d) == dom' = [dom EXCEPT ![d].pause = @ - 1]

\* The commands that look no domain up before taking the lock.
NoLookup == {"createdomain", "getdomaininfo"}

-----------------------------------------------------------------------------
(* dom0's vCPU issues a domctl; a continuation re-executes it. *)

Issue(c, o) ==
  /\ call[c].pc = "guest" /\ call[c].ret # CONT /\ issued < MaxOps
  /\ call' = [call EXCEPT ![c] = [pc |-> "start", op |-> o, i |-> 0, ret |-> 0, info |-> None]]
  /\ issued' = issued + 1
  /\ UNCHANGED <<dom, running, rover, mutex, lock, valloc>>

\* hypercall_create_continuation rewinds the guest's pc to the HVC.
Reexecute(c) ==
  /\ call[c].pc = "guest" /\ call[c].ret = CONT
  /\ call' = [call EXCEPT ![c].pc = "start", ![c].ret = 0]
  /\ UNCHANGED <<dom, running, rover, mutex, lock, valloc, issued>>

\* do_domctl up to the switch: the interface version, the domain lookup
\* (createdomain and getdomaininfo take none), domctl_lock_acquire's two
\* trylocks.
Start(c) ==
  /\ call[c].pc = "start"
  /\ UNCHANGED <<dom, running, rover, valloc, issued>>
  /\ \/ /\ Op(c).cmd = "badversion"
        /\ Return(c, -EACCES) /\ UNCHANGED <<mutex, lock>>
     \/ /\ Op(c).cmd \notin {"badversion"} \cup NoLookup
        /\ dom[D(c)].st = "free"
        /\ Return(c, -ESRCH) /\ UNCHANGED <<mutex, lock>>
     \/ /\ Op(c).cmd # "badversion"
        /\ Op(c).cmd \in NoLookup \/ dom[D(c)].st # "free"
        /\ IF mutex = None /\ lock = None
           THEN /\ mutex' = c /\ lock' = c
                /\ Goto(c, Op(c).cmd)
           ELSE /\ Return(c, CONT) /\ UNCHANGED <<mutex, lock>>

\* domctl_lock_release(), then return.
Release(c) ==
  /\ call[c].pc = "release"
  /\ lock' = None /\ mutex' = None
  /\ call' = [call EXCEPT ![c].pc = "guest"]
  /\ UNCHANGED <<dom, running, rover, valloc, issued>>

-----------------------------------------------------------------------------
(* The commands, under domctl_lock. *)

\* XEN_DOMCTL_createdomain: an explicit id 1 .. DOMID_FIRST_RESERVED-1 must
\* be free; otherwise the rover's search.  domain_create may fail with
\* -ENOMEM; a new domain is paused by the controller (pause_count 1).
NewDomain == [NoDomain EXCEPT !.st = "alive", !.ctrl = TRUE, !.pause = 1]
createdomain(c) ==
  /\ call[c].pc = "createdomain"
  /\ UNCHANGED <<running, mutex, lock, valloc, issued>>
  /\ IF D(c) > 0 /\ D(c) < DOMID_FIRST_RESERVED
     THEN IF ~is_free_domid(D(c))
          THEN Break(c, -EINVAL) /\ UNCHANGED <<dom, rover>>
          ELSE \/ dom' = [dom EXCEPT ![D(c)] = NewDomain] /\ Break(c, 0)
                  /\ UNCHANGED rover
               \/ Break(c, -ENOMEM) /\ UNCHANGED <<dom, rover>>
     ELSE LET x == RoverSearch IN
          CASE x = Hang -> Goto(c, "hang") /\ UNCHANGED <<dom, rover>>
            [] x = rover  -> Break(c, -ENOMEM) /\ UNCHANGED <<dom, rover>>
            [] OTHER      -> /\ rover' = x
                             /\ \/ dom' = [dom EXCEPT ![x] = NewDomain] /\ Break(c, 0)
                                \/ Break(c, -ENOMEM) /\ UNCHANGED dom

pausedomain_self(c) ==
  /\ call[c].pc = "pausedomain"
  /\ UNCHANGED <<running, rover, mutex, lock, valloc, issued>>
  /\ CASE dom[D(c)].ctrl -> Break(c, 0) /\ UNCHANGED dom
       [] OTHER -> /\ dom' = [dom EXCEPT ![D(c)].ctrl = TRUE, ![D(c)].pause = @ + 1]
                   /\ call' = [call EXCEPT ![c].pc = "pause_sync", ![c].ret = 0]

\* XEN_DOMCTL_pausedomain: not dom0 itself; domain_pause_by_systemcontroller
\* pauses only if is_paused_by_controller was clear.
pausedomain(c) ==
  /\ call[c].pc = "pausedomain"
  /\ UNCHANGED <<running, rover, mutex, lock, valloc, issued>>
  /\ CASE D(c) = 0 -> Break(c, -EINVAL) /\ UNCHANGED dom
       [] dom[D(c)].ctrl -> Break(c, 0) /\ UNCHANGED dom
       [] OTHER -> /\ dom' = [dom EXCEPT ![D(c)].ctrl = TRUE, ![D(c)].pause = @ + 1]
                   /\ call' = [call EXCEPT ![c].pc = "pause_sync", ![c].ret = 0]

PauseSyncNoWait(c) ==
  /\ call[c].pc \in {"pause_sync", "mv_sync", "kill_sync"}
  /\ Goto(c, CASE call[c].pc = "pause_sync" -> "release"
               [] call[c].pc = "mv_sync" -> "mv_trylock"
               [] OTHER -> "kill_relinquish")
  /\ UNCHANGED <<dom, running, rover, mutex, lock, valloc, issued>>

\* vcpu_sleep_sync on each vCPU of the paused domain, then go on.
PauseSync(c) ==
  /\ call[c].pc \in {"pause_sync", "mv_sync", "kill_sync"}
  /\ SyncedDom(D(c))
  /\ Goto(c, CASE call[c].pc = "pause_sync" -> "release"
               [] call[c].pc = "mv_sync" -> "mv_trylock"
               [] OTHER -> "kill_relinquish")
  /\ UNCHANGED <<dom, running, rover, mutex, lock, valloc, issued>>

\* XEN_DOMCTL_unpausedomain: domain_unpause_by_systemcontroller.
unpausedomain(c) ==
  /\ call[c].pc = "unpausedomain"
  /\ dom' = IF dom[D(c)].ctrl
            THEN [dom EXCEPT ![D(c)].ctrl = FALSE, ![D(c)].pause = @ - 1]
            ELSE dom
  /\ Break(c, 0)
  /\ UNCHANGED <<running, rover, mutex, lock, valloc, issued>>

\* XEN_DOMCTL_destroydomain: domain_kill.  Not the caller's own domain;
\* an alive domain is paused and marked dying; relinquishing its resources
\* may be preempted (-EAGAIN, the toolstack calls again), and when it ends
\* the domain is dead and its last reference goes.
destroydomain(c) ==
  /\ call[c].pc = "destroydomain"
  /\ UNCHANGED <<running, rover, mutex, lock, valloc, issued>>
  /\ CASE D(c) = 0 -> Break(c, -EINVAL) /\ UNCHANGED dom
       [] dom[D(c)].st = "alive" ->
            /\ dom' = [dom EXCEPT ![D(c)].st = "dying", ![D(c)].pause = @ + 1]
            /\ Goto(c, "kill_sync")
       [] dom[D(c)].st = "dying" -> Goto(c, "kill_relinquish") /\ UNCHANGED dom
       [] OTHER -> Break(c, 0) /\ UNCHANGED dom

KillRelinquish(c) ==
  /\ call[c].pc = "kill_relinquish"
  /\ \/ Break(c, -EAGAIN) /\ UNCHANGED dom
     \/ dom' = [dom EXCEPT ![D(c)].st = "dead"] /\ Break(c, 0)
  /\ UNCHANGED <<running, rover, mutex, lock, valloc, issued>>

max_vcpus_unbounded(c) ==
  /\ call[c].pc = "max_vcpus"
  /\ UNCHANGED <<running, rover, mutex, lock, valloc, issued>>
  /\ IF D(c) = 0
     THEN Break(c, -EINVAL) /\ UNCHANGED dom
     ELSE PauseInc(D(c)) /\ Goto(c, "mv_sync")

\* XEN_DOMCTL_max_vcpus, up to domain_pause: not dom0 itself, max within
\* MAX_VIRT_CPUS (ARM has no xenoprof and no HVM domains).
max_vcpus(c) ==
  /\ call[c].pc = "max_vcpus"
  /\ UNCHANGED <<running, rover, mutex, lock, valloc, issued>>
  /\ IF D(c) = 0 \/ Op(c).max > MAX_VIRT_CPUS
     THEN Break(c, -EINVAL) /\ UNCHANGED dom
     ELSE PauseInc(D(c)) /\ Goto(c, "mv_sync")

\* while ( !spin_trylock(&vcpu_alloc_lock) ): when the lock is held and
\* hypercall_preempt_check() says yield, a continuation, leaving through
\* maxvcpu_out_novcpulock; otherwise the loop spins.
MvTrylock(c) ==
  /\ call[c].pc = "mv_trylock"
  /\ IF valloc = None
     THEN valloc' = c /\ Goto(c, "mv_check")
     ELSE call' = [call EXCEPT ![c].pc = "mv_unpause", ![c].ret = CONT]
          /\ UNCHANGED valloc
  /\ UNCHANGED <<dom, running, rover, mutex, lock, issued>>

MvCheckBreak(c) ==
  /\ call[c].pc = "mv_check"
  /\ UNCHANGED <<running, rover, mutex, lock, valloc, issued>>
  /\ LET d == D(c)
         max == Op(c).max IN
     CASE max < dom[d].max /\ max \in dom[d].vcpus ->
            Break(c, -EINVAL) /\ UNCHANGED dom
       [] dom[d].max > 0 /\ max > dom[d].max ->
            Break(c, -EBUSY) /\ UNCHANGED dom
       [] max > dom[d].max /\ (dom[d].vcpus # {} \/ dom[d].max # 0) ->
            Goto(c, "bug") /\ UNCHANGED dom
       [] max > dom[d].max ->
            \/ Break(c, -ENOMEM) /\ UNCHANGED dom
            \/ dom' = [dom EXCEPT ![d].max = max] /\ Goto2(c, "mv_alloc", -ENOMEM)
       [] OTHER -> Goto2(c, "mv_alloc", -ENOMEM) /\ UNCHANGED dom

MvCheckNoEBUSY(c) ==
  /\ call[c].pc = "mv_check"
  /\ UNCHANGED <<running, rover, mutex, lock, valloc, issued>>
  /\ LET d == D(c)
         max == Op(c).max IN
     CASE max < dom[d].max /\ max \in dom[d].vcpus ->
            Goto2(c, "mv_out", -EINVAL) /\ UNCHANGED dom
       [] max > dom[d].max /\ (dom[d].vcpus # {} \/ dom[d].max # 0) ->
            Goto(c, "bug") /\ UNCHANGED dom
       [] max > dom[d].max ->
            \/ Goto2(c, "mv_out", -ENOMEM) /\ UNCHANGED dom
            \/ dom' = [dom EXCEPT ![d].max = max] /\ Goto2(c, "mv_alloc", -ENOMEM)
       [] OTHER -> Goto2(c, "mv_alloc", -ENOMEM) /\ UNCHANGED dom

\* The checks: no reducing below an existing vCPU (-EINVAL), no growing a
\* non-zero count (-EBUSY); growing from zero installs the array (its
\* allocation may fail, -ENOMEM) and then max_vcpus.
MvCheck(c) ==
  /\ call[c].pc = "mv_check"
  /\ UNCHANGED <<running, rover, mutex, lock, valloc, issued>>
  /\ LET d == D(c)
         max == Op(c).max IN
     CASE max < dom[d].max /\ max \in dom[d].vcpus ->
            Goto2(c, "mv_out", -EINVAL) /\ UNCHANGED dom
       [] dom[d].max > 0 /\ max > dom[d].max ->
            Goto2(c, "mv_out", -EBUSY) /\ UNCHANGED dom
       [] max > dom[d].max /\ (dom[d].vcpus # {} \/ dom[d].max # 0) ->
            Goto(c, "bug") /\ UNCHANGED dom
       [] max > dom[d].max ->
            \/ Goto2(c, "mv_out", -ENOMEM) /\ UNCHANGED dom
            \/ dom' = [dom EXCEPT ![d].max = max] /\ Goto2(c, "mv_alloc", -ENOMEM)
       [] OTHER -> Goto2(c, "mv_alloc", -ENOMEM) /\ UNCHANGED dom

\* One round of for ( i = 0; i < max; i++ ): an existing vCPU is kept,
\* a missing one is allocated by alloc_vcpu, which may fail.
MvAlloc(c) ==
  /\ call[c].pc = "mv_alloc"
  /\ UNCHANGED <<running, rover, mutex, lock, valloc, issued>>
  /\ LET d == D(c)
         i == call[c].i IN
     CASE i = Op(c).max -> Goto2(c, "mv_out", 0) /\ UNCHANGED dom
       [] i \in dom[d].vcpus -> call' = [call EXCEPT ![c].i = i + 1] /\ UNCHANGED dom
       [] OTHER -> \/ dom' = [dom EXCEPT ![d].vcpus = @ \cup {i}]
                      /\ call' = [call EXCEPT ![c].i = i + 1]
                   \/ Goto(c, "mv_out") /\ UNCHANGED dom

\* maxvcpu_out: spin_unlock(&vcpu_alloc_lock).
MvOut(c) ==
  /\ call[c].pc = "mv_out"
  /\ valloc' = None
  /\ Goto(c, "mv_unpause")
  /\ UNCHANGED <<dom, running, rover, mutex, lock, issued>>

\* maxvcpu_out_novcpulock: domain_unpause(d).
MvUnpause(c) ==
  /\ call[c].pc = "mv_unpause"
  /\ PauseDec(D(c))
  /\ Goto(c, "release")
  /\ UNCHANGED <<running, rover, mutex, lock, valloc, issued>>


\* vcpu_pause(v): atomic_inc(&v->pause_count), then vcpu_sleep_sync(v);
\* vcpu_unpause(v) decrements it.
VPauseInc(d, v) == dom' = [dom EXCEPT ![d].vpause[v] = @ + 1]

\* The vCPU exists: below max_vcpus and d->vcpu[vcpu] non-NULL.
HasVcpu(d, v) == v < dom[d].max /\ v \in dom[d].vcpus

\* XEN_DOMCTL_setvcpucontext: not dom0 itself (no domain_pause), an
\* existing vCPU.  A null context handle is vcpu_reset, under vcpu_pause;
\* otherwise the context is allocated (-ENOMEM) and copied in (-EFAULT),
\* and arch_set_info_guest runs under domain_pause.
setvcpucontext(c) ==
  /\ call[c].pc = "setvcpucontext"
  /\ UNCHANGED <<running, rover, mutex, lock, valloc, issued>>
  /\ IF D(c) = 0 \/ ~HasVcpu(D(c), V(c))
     THEN Break(c, -EINVAL) /\ UNCHANGED dom
     ELSE IF Op(c).flag
     THEN VPauseInc(D(c), V(c)) /\ Goto(c, "svc_reset_sync")
     ELSE \/ Break(c, -ENOMEM) /\ UNCHANGED dom
          \/ Break(c, -EFAULT) /\ UNCHANGED dom
          \/ PauseInc(D(c)) /\ Goto(c, "svc_sync")

\* vcpu_reset, once the vCPU is off its CPU: arch_vcpu_reset succeeds on
\* ARM, is_initialised is cleared; vcpu_unpause.
SvcReset(c) ==
  /\ call[c].pc = "svc_reset_sync"
  /\ V(c) \notin running[D(c)]
  /\ dom' = [dom EXCEPT ![D(c)].init = @ \ {V(c)}, ![D(c)].vpause[V(c)] = @ - 1]
  /\ Break(c, 0)
  /\ UNCHANGED <<running, rover, mutex, lock, valloc, issued>>

\* arch_set_info_guest, once the domain is off the CPUs: an invalid
\* context is refused (-EINVAL), a valid one sets is_initialised;
\* domain_unpause.
SvcSet(c) ==
  /\ call[c].pc = "svc_sync"
  /\ Synced(D(c))
  /\ \/ dom' = [dom EXCEPT ![D(c)].init = @ \cup {V(c)}, ![D(c)].pause = @ - 1]
        /\ Break(c, 0)
     \/ PauseDec(D(c)) /\ Break(c, -EINVAL)
  /\ UNCHANGED <<running, rover, mutex, lock, valloc, issued>>

\* XEN_DOMCTL_getvcpucontext: an existing, initialised vCPU; the context
\* buffer may not be allocated; the vCPU (never current: dom0's own
\* vCPUs are not targets here) is paused while it is read.
getvcpucontext(c) ==
  /\ call[c].pc = "getvcpucontext"
  /\ UNCHANGED <<running, rover, mutex, lock, valloc, issued>>
  /\ CASE V(c) >= dom[D(c)].max -> Break(c, -EINVAL) /\ UNCHANGED dom
       [] V(c) \notin dom[D(c)].vcpus -> Break(c, -ESRCH) /\ UNCHANGED dom
       [] V(c) \notin dom[D(c)].init -> Break(c, -ENODATA) /\ UNCHANGED dom
       [] OTHER -> \/ Break(c, -ENOMEM) /\ UNCHANGED dom
                   \/ VPauseInc(D(c), V(c)) /\ Goto(c, "gvc_sync")

\* arch_get_info_guest once the vCPU is off its CPU, vcpu_unpause, then
\* copy_to_guest (-EFAULT).
GvcGet(c) ==
  /\ call[c].pc = "gvc_sync"
  /\ V(c) \notin running[D(c)]
  /\ dom' = [dom EXCEPT ![D(c)].vpause[V(c)] = @ - 1]
  /\ \E r \in {0, -EFAULT} : Break(c, r)
  /\ UNCHANGED <<running, rover, mutex, lock, valloc, issued>>

\* XEN_DOMCTL_getvcpuinfo: reads an existing vCPU's state.
getvcpuinfo(c) ==
  /\ call[c].pc = "getvcpuinfo"
  /\ Break(c, CASE V(c) >= dom[D(c)].max -> -EINVAL
                [] V(c) \notin dom[D(c)].vcpus -> -ESRCH
                [] OTHER -> 0)
  /\ UNCHANGED <<dom, running, rover, mutex, lock, valloc, issued>>

\* XEN_DOMCTL_setdebugging: not dom0 itself; debugger_attached is set
\* under domain_pause.
setdebugging(c) ==
  /\ call[c].pc = "setdebugging"
  /\ UNCHANGED <<running, rover, mutex, lock, valloc, issued>>
  /\ IF D(c) = 0
     THEN Break(c, -EINVAL) /\ UNCHANGED dom
     ELSE PauseInc(D(c)) /\ Goto(c, "sd_sync")

SdSet(c) ==
  /\ call[c].pc = "sd_sync"
  /\ Synced(D(c))
  /\ dom' = [dom EXCEPT ![D(c)].dbg = Op(c).flag, ![D(c)].pause = @ - 1]
  /\ Break(c, 0)
  /\ UNCHANGED <<running, rover, mutex, lock, valloc, issued>>

\* XEN_DOMCTL_resumedomain: domain_resume, which clears the shutdown state
\* between domain_pause and domain_unpause; there is no check against
\* the caller's own domain.
resumedomain(c) ==
  /\ call[c].pc = "resumedomain"
  /\ PauseInc(D(c)) /\ Goto(c, "resume_sync")
  /\ UNCHANGED <<running, rover, mutex, lock, valloc, issued>>

ResumeUnpause(c) ==
  /\ call[c].pc = "resume_sync"
  /\ SyncedDom(D(c))
  /\ PauseDec(D(c)) /\ Break(c, 0)
  /\ UNCHANGED <<running, rover, mutex, lock, valloc, issued>>

\* getdomaininfo(d): the flags of the domain.  A vCPU is online when
\* _VPF_down is clear, which arch_set_info_guest does and vcpu_reset undoes;
\* the domain is blocked only if its online vCPUs are all blocked (the
\* model has no blocked vCPUs), running if one of them is running; dying
\* is reported only once the domain is dead.
DomInfo(d) ==
  LET online == dom[d].vcpus \cap dom[d].init IN
  [blocked  |-> FALSE,
   running  |-> online # {} /\ running[d] \cap online # {},
   dying    |-> dom[d].st = "dead",
   paused   |-> dom[d].ctrl,
   debugged |-> dom[d].dbg]

\* XEN_DOMCTL_getdomaininfo: the first domain on the list with an id at
\* least op->domain, or -ESRCH; its information is copied back.
getdomaininfo(c) ==
  /\ call[c].pc = "getdomaininfo"
  /\ LET found == {d \in DomIds : d >= D(c) /\ dom[d].st # "free"} IN
     IF found = {}
     THEN Break(c, -ESRCH)
     ELSE LET d == CHOOSE x \in found : \A y \in found : x <= y IN
          call' = [call EXCEPT ![c].pc = "release", ![c].ret = 0,
                               ![c].info = DomInfo(d)]
  /\ UNCHANGED <<dom, running, rover, mutex, lock, valloc, issued>>

\* XEN_DOMCTL_max_mem and setdomainhandle: set a field of the domain
\* (max_pages, handle) that nothing here reads.
max_mem(c) ==
  /\ call[c].pc = "max_mem"
  /\ Break(c, 0)
  /\ UNCHANGED <<dom, running, rover, mutex, lock, valloc, issued>>

-----------------------------------------------------------------------------
(* The rest of the system. *)

\* The scheduler puts a runnable vCPU of a guest on a CPU, or takes one off.
Schedule(d, v) ==
  /\ v \in dom[d].vcpus /\ RunnableV(d, v) /\ v \notin running[d]
  /\ running' = [running EXCEPT ![d] = @ \cup {v}]
  /\ UNCHANGED <<dom, rover, mutex, lock, valloc, call, issued>>

Deschedule(d, v) ==
  /\ v \in running[d]
  /\ running' = [running EXCEPT ![d] = @ \ {v}]
  /\ UNCHANGED <<dom, rover, mutex, lock, valloc, call, issued>>

\* The last reference to a dead domain goes and its struct domain is freed
\* by call_rcu, once no do_domctl holds it from rcu_lock_domain_by_id.
Holds(c, d) ==
  call[c].pc \notin {"guest", "start"} /\ Op(c).cmd \notin NoLookup /\ D(c) = d
Reap(d) ==
  /\ dom[d].st = "dead" /\ \A c \in Callers : ~Holds(c, d)
  /\ dom' = [dom EXCEPT ![d] = NoDomain]
  /\ UNCHANGED <<running, rover, mutex, lock, valloc, call, issued>>

\* Other code (a CPU microcode update) holds vcpu_alloc_lock for a while.
OtherAlloc ==
  /\ \/ valloc = None /\ valloc' = "other"
     \/ valloc = "other" /\ valloc' = None
  /\ UNCHANGED <<dom, running, rover, mutex, lock, call, issued>>

Hypervisor(c) ==
  \/ Reexecute(c) \/ Start(c) \/ Release(c) \/ PauseSync(c)
  \/ createdomain(c) \/ pausedomain(c) \/ unpausedomain(c)
  \/ destroydomain(c) \/ KillRelinquish(c)
  \/ max_vcpus(c) \/ MvTrylock(c) \/ MvCheck(c) \/ MvAlloc(c) \/ MvOut(c)
  \/ MvUnpause(c) \/ setvcpucontext(c) \/ SvcReset(c) \/ SvcSet(c)
  \/ getvcpucontext(c) \/ GvcGet(c) \/ getvcpuinfo(c) \/ setdebugging(c)
  \/ SdSet(c) \/ resumedomain(c) \/ ResumeUnpause(c) \/ getdomaininfo(c)
  \/ max_mem(c)

Guests == DomIds \ {0}

Next ==
  \/ \E c \in Callers, o \in Ops : Issue(c, o)
  \/ \E c \in Callers : Hypervisor(c)
  \/ \E d \in Guests, v \in VcpuIds : Schedule(d, v) \/ Deschedule(d, v)
  \/ \E d \in Guests : Reap(d)
  \/ OtherAlloc

\* Xen's code runs to its next step; a paused vCPU is taken off its CPU
\* (vcpu_sleep_nosync); other holders release vcpu_alloc_lock.
Spec ==
  /\ Init /\ [][Next]_vars
  /\ \A c \in Callers : WF_vars(Hypervisor(c))
  /\ \A d \in Guests, v \in VcpuIds : WF_vars(~RunnableV(d, v) /\ Deschedule(d, v))
  /\ WF_vars(valloc = "other" /\ OtherAlloc)

-----------------------------------------------------------------------------
(* The conversions between Xen's bitmaps and a guest's xenctl_bitmap that *)
(* the affinity commands use.  A bitmap is the set of its set bits; byte  *)
(* i of a buffer holds bits 8i .. 8i+7.  A copy to or from the guest that *)
(* faults returns -EFAULT and is not modelled.                            *)

BytesOf(n) == (n + 7) \div 8
LowBits(n) == 0 .. n - 1
MinOf(a, b) == IF a < b THEN a ELSE b

\* bitmap_long_to_byte and bitmap_byte_to_long (common/bitmap.c): a copy
\* of the first (nbits + 7) / 8 bytes.
bitmap_long_to_byte(bm, nbits) == bm \cap LowBits(8 * BytesOf(nbits))
bitmap_byte_to_long(bytemap, nbits) == bytemap \cap LowBits(8 * BytesOf(nbits))

\* bitmap_to_xenctl_bitmap: the guest buffer old after the call.  The first
\* copy_bytes bytes come from Xen's bitmap and the rest of guest_bytes are
\* zeroed one by one.
bitmap_to_xenctl_bitmap(old, bm, nbits, nr_bits) ==
  LET guest_bytes == BytesOf(nr_bits)
      copy_bytes  == MinOf(guest_bytes, BytesOf(nbits))
  IN  (old \ LowBits(8 * guest_bytes))
        \cup (bitmap_long_to_byte(bm, nbits) \cap LowBits(8 * copy_bytes))

\* bitmap & ~(0xff << (nr_bits & 7)) on the guest's last byte.
LastByteMasked(b, nr_bits, guest_bytes) ==
  b \ ((8 * (guest_bytes - 1) + (nr_bits % 8)) .. (8 * guest_bytes - 1))

\* A conversion that copies the guest's bytes without masking the last.
XenctlNoLastByteMask(g, nr_bits, nbits) ==
  bitmap_byte_to_long(g \cap LowBits(8 * MinOf(BytesOf(nr_bits), BytesOf(nbits))), nbits)

\* xenctl_bitmap_to_bitmap: Xen's bitmap from the guest's buffer g.  The
\* bytemap starts zeroed, takes copy_bytes bytes, and its last byte is
\* masked when it is the guest's last, partly used byte.
xenctl_bitmap_to_bitmap(g, nr_bits, nbits) ==
  LET guest_bytes == BytesOf(nr_bits)
      copy_bytes  == MinOf(guest_bytes, BytesOf(nbits))
      copied      == g \cap LowBits(8 * copy_bytes)
      bytemap     == IF copy_bytes # 0 /\ nr_bits % 8 # 0 /\ guest_bytes = copy_bytes
                     THEN LastByteMasked(copied, nr_bits, guest_bytes)
                     ELSE copied
  IN  bitmap_byte_to_long(bytemap, nbits)

-----------------------------------------------------------------------------
(* Properties. *)

Steps == {"guest", "start", "release", "hang", "bug", "createdomain",
          "pausedomain", "pause_sync", "unpausedomain", "destroydomain",
          "kill_sync", "kill_relinquish", "max_vcpus", "mv_sync",
          "mv_trylock", "mv_check", "mv_alloc", "mv_out", "mv_unpause",
          "setvcpucontext", "svc_reset_sync", "svc_sync", "getvcpucontext",
          "gvc_sync", "getvcpuinfo", "setdebugging", "sd_sync", "resumedomain",
          "resume_sync", "getdomaininfo", "max_mem"}

\* The variables keep their types.
TypeOK ==
  /\ dom \in [DomIds -> [st : {"free", "alive", "dying", "dead"}, ctrl : BOOLEAN,
                         pause : 0 .. Cardinality(Callers) + 2,
                         max : 0 .. MaxV, vcpus : SUBSET VcpuIds,
                         vpause : [VcpuIds -> 0 .. Cardinality(Callers)],
                         init : SUBSET VcpuIds, dbg : BOOLEAN]]
  /\ running \in [DomIds -> SUBSET VcpuIds]
  /\ rover \in DomIds
  /\ mutex \in Callers \cup {None} /\ lock \in Callers \cup {None}
  /\ valloc \in Callers \cup {None, "other"}
  /\ call \in [Callers -> [pc : Steps, op : Ops \cup {None}, i : 0 .. MaxV + 1,
                           ret : {0, CONT, -EINVAL, -ESRCH, -EACCES, -ENOMEM,
                                  -EBUSY, -EAGAIN, -EFAULT, -ENODATA},
                           info : {None} \cup [blocked : BOOLEAN, running : BOOLEAN,
                                      dying : BOOLEAN, paused : BOOLEAN,
                                      debugged : BOOLEAN]]]

\* The steps of max_vcpus and domain_kill that change the domain under
\* domain_pause: its vCPUs were all taken off the CPUs.
UnderPause == {"mv_trylock", "mv_check", "mv_alloc", "mv_out", "kill_relinquish"}

\* domain_pause's vcpu_sleep_sync: while max_vcpus or domain_kill works on
\* a domain after pausing it, none of the domain's vCPUs is running.
PausedDomainNotRunning ==
  \A c \in Callers : call[c].pc \in UnderPause => running[D(c)] = {}

\* The pauses a domain holds: the controller's, domain_kill's (never
\* undone: a dying domain stays paused) and those of max_vcpus calls
\* between domain_pause and domain_unpause, and of setvcpucontext,
\* setdebugging and resumedomain calls waiting for the domain to stop.
MvPaused == {"mv_sync", "mv_trylock", "mv_check", "mv_alloc", "mv_out", "mv_unpause",
             "svc_sync", "sd_sync", "resume_sync"}
HeldPauses(d) ==
  (IF dom[d].ctrl THEN 1 ELSE 0)
  + (IF dom[d].st \in {"dying", "dead"} THEN 1 ELSE 0)
  + Cardinality({c \in Callers : call[c].pc \in MvPaused /\ D(c) = d})

\* domain_pause and domain_unpause pair up on every path of do_domctl,
\* the error and continuation exits of max_vcpus included: pause_count is
\* the number of pauses held, and vcpu_alloc_lock is held by a caller only
\* inside the body of max_vcpus.  Likewise each vCPU's pause_count is the
\* number of vcpu_reset and getvcpucontext calls holding vcpu_pause on it.
VPaused == {"svc_reset_sync", "gvc_sync"}
HeldVPauses(d, v) ==
  Cardinality({c \in Callers : call[c].pc \in VPaused /\ D(c) = d /\ V(c) = v})
PauseCountBalanced ==
  /\ \A d \in Guests : dom[d].pause = HeldPauses(d)
  /\ \A d \in Guests, v \in VcpuIds : dom[d].vpause[v] = HeldVPauses(d, v)
  /\ valloc \in Callers => call[valloc].pc \in {"mv_check", "mv_alloc", "mv_out"}

\* max_vcpus keeps the vCPU array consistent: every vCPU a domain has is
\* below its max_vcpus, and the BUG_ONs before installing the array never
\* fire.
VcpuArrayConsistent ==
  /\ \A d \in DomIds : dom[d].vcpus \subseteq 0 .. dom[d].max - 1
  /\ \A c \in Callers : call[c].pc # "bug"

\* Every domctl dom0's vCPU enters returns to it (a continuation counts):
\* no command waits on itself or on a lock for good.
DomctlReturns == \A c \in Callers : call[c].pc # "guest" ~> call[c].pc = "guest"

\* XEN_DOMCTL_createdomain with no explicit id answers every call: the
\* rover's search neither spins for good nor reports -ENOMEM (with the
\* rover left where it was) while some domain id is still free.
RoverFindsFreeId ==
  [][\A c \in Callers :
       (call[c].pc = "createdomain" /\ ~(D(c) > 0 /\ D(c) < DOMID_FIRST_RESERVED))
         => /\ call'[c].pc # "hang"
            /\ (call'[c].ret = -ENOMEM /\ rover' = rover)
                 => \A d \in DomIds : ~is_free_domid(d)]_vars
\* The bitmap conversions of the affinity commands, over every length of
\* Xen's bitmap and of the guest's nr_bits up to two and a half bytes and
\* bits at both sides of each byte boundary.  Xen -> guest: the guest
\* reads exactly Xen's bits below its nr_bits, whatever its buffer held.
\* Guest -> Xen: Xen's first nbits bits are exactly the guest's bits
\* below nr_bits, whatever garbage lies beyond nr_bits in the guest's
\* last byte.  This is what the zeroing loop and the last-byte mask of
\* domctl.c are for.
BitmapWidths == 0 .. 20
ProbeBits == {2, 5, 7, 8, 13, 17}
XenctlBitmapRoundTrip ==
  \A nbits \in BitmapWidths \ {0}, nr_bits \in BitmapWidths :
    /\ \A bm \in SUBSET (ProbeBits \cap LowBits(nbits)), old \in SUBSET ProbeBits :
         bitmap_to_xenctl_bitmap(old, bm, nbits, nr_bits) \cap LowBits(nr_bits)
           = bm \cap LowBits(nr_bits)
    /\ \A g \in SUBSET ProbeBits :
         xenctl_bitmap_to_bitmap(g, nr_bits, nbits) \cap LowBits(nbits)
           = g \cap LowBits(MinOf(nr_bits, nbits))
\* bitmap_to_xenctl_bitmap and xenctl_bitmap_to_bitmap lose or invent no
\* bit at any pair of widths (XenctlBitmapRoundTrip above, evaluated once),
\* and each domain's vCPU set of the current state, as a map of
\* MAX_VIRT_CPUS bits, comes back from the guest unchanged.
XenctlBitmapExact ==
  /\ XenctlBitmapRoundTrip
  /\ \A d \in DOMAIN dom :
       LET out == bitmap_to_xenctl_bitmap({}, dom[d].vcpus, MAX_VIRT_CPUS, MAX_VIRT_CPUS)
       IN  xenctl_bitmap_to_bitmap(out, MAX_VIRT_CPUS, MAX_VIRT_CPUS) = dom[d].vcpus
=============================================================================
