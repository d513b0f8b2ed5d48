----------------------------- MODULE MC_Domctl -----------------------------
(* The domctls dom0 issues in the checked configurations. *)
EXTENDS Domctl

CONSTANTS v0, v1

Mk(k, d, m, v, n) == [cmd |-> k, dom |-> d, max |-> m, vcpu |-> v, flag |-> n]

\* One of each outcome of every command, on domain 1 where it needs a
\* guest, for the run that checks all commands together.
AllOps ==
  {Mk("badversion", 0, 0, 0, FALSE),
   Mk("createdomain", 0, 0, 0, FALSE), Mk("createdomain", 1, 0, 0, FALSE),
   Mk("pausedomain", 0, 0, 0, FALSE), Mk("pausedomain", 1, 0, 0, FALSE),
   Mk("unpausedomain", 1, 0, 0, FALSE), Mk("destroydomain", 0, 0, 0, FALSE),
   Mk("destroydomain", 1, 0, 0, FALSE), Mk("max_vcpus", 0, 1, 0, FALSE)}
  \cup {Mk("max_vcpus", 1, m, 0, FALSE) : m \in 1 .. MaxV + 1}
  \cup {Mk("setvcpucontext", 0, 0, 0, FALSE)}
  \cup {Mk("setvcpucontext", 1, 0, 0, n) : n \in BOOLEAN}
  \cup {Mk(k, 1, 0, 0, FALSE) : k \in {"getvcpucontext", "getvcpuinfo"}}
  \cup {Mk("setdebugging", d, 0, 0, TRUE) : d \in {0, 1}}
  \cup {Mk("getdomaininfo", 1, 0, 0, FALSE)}
  \cup {Mk(k, 1, 0, 0, FALSE) : k \in {"resumedomain", "max_mem"}}

\* Explicit creation of every id.
ExplicitOps == {Mk("createdomain", d, 0, 0, FALSE) : d \in DomIds}

\* Automatic allocation and destruction: the rover's own id freed again.
RoverOps == {Mk("createdomain", 0, 0, 0, FALSE)}
            \cup {Mk("destroydomain", d, 0, 0, FALSE) : d \in DomIds \ {0}}

\* dom0 resuming itself.
ResumeOps == {Mk("resumedomain", 0, 0, 0, FALSE)}
=============================================================================
