------------------------------- MODULE P2MMap -------------------------------
(***************************************************************************)
(* What the stage-2 engine promises its callers (spec.md 4.4), without the *)
(* radix tree: a map from guest frame to a mapping (machine frame,         *)
(* permissions, memory type) or Unmapped.  A range operation holds the     *)
(* per-guest lock, changes the map one page at a time in ascending order   *)
(* and may stop early with an error, keeping what it has done:             *)
(*   ALLOCATE maps a fresh RAM frame no page maps yet;                     *)
(*   INSERT maps base + k at the k-th page;                                *)
(*   REMOVE unmaps;                                                        *)
(*   PROTECT rewrites the permissions of a mapped page, and stops with     *)
(*   -EINVAL at the first unmapped one;                                    *)
(*   -ENOMEM may end an ALLOCATE, INSERT or REMOVE at any page.            *)
(* The map is empty when the table is created and after it is torn down.   *)
(***************************************************************************)
EXTENDS Integers

CONSTANTS CPUs, HeapFrames, MmioBases, Prots, NGfn, MaxRange, MaxCreate,
          NoOp, NoCPU, Unmapped

GFNs == 0 .. NGfn - 1

VARIABLES
  map,      \* guest frame -> mapping or Unmapped
  aop,      \* per CPU: the range operation in progress, or NoOp
  lock,     \* the CPU holding the per-guest lock, or NoCPU
  status,   \* "dead", "new" (no table yet), "ready", "dying"
  created   \* number of creations

avars == <<map, aop, lock, status, created>>

ENOMEM == 12
EINVAL == 22
MATTR_DEV == 1
MATTR_MEM == 15

Mapping(mfn, mattr) ==
  [mfn |-> mfn, read |-> TRUE, write |-> TRUE, xn |-> FALSE, mattr |-> mattr]

Empty == [g \in GFNs |-> Unmapped]

InUse == {map[g].mfn : g \in {h \in GFNs : map[h] # Unmapped}}

Ranges == {<<s, e>> \in GFNs \X (1 .. NGfn) : s < e /\ e - s <= MaxRange}

Init ==
  /\ map = Empty
  /\ aop = [c \in CPUs |-> NoOp]
  /\ lock = NoCPU
  /\ status = "dead"
  /\ created = 0

Create ==
  /\ status = "dead" /\ created < MaxCreate
  /\ status' = "new" /\ created' = created + 1 /\ map' = Empty
  /\ UNCHANGED <<aop, lock>>

AllocTable ==
  /\ status = "new" /\ lock = NoCPU
  /\ status' = "ready"
  /\ UNCHANGED <<map, aop, lock, created>>

Begin(c, kind, r, maddr, mattr, prot) ==
  /\ status = "ready" /\ lock = NoCPU /\ aop[c] = NoOp
  /\ lock' = c
  /\ aop' = [aop EXCEPT ![c] = [kind |-> kind, addr |-> r[1], end |-> r[2],
                                maddr |-> maddr, mattr |-> mattr, prot |-> prot,
                                pc |-> "run", rc |-> 0]]
  /\ UNCHANGED <<map, status, created>>

Next1(o, maddr) ==
  [o EXCEPT !.addr = o.addr + 1, !.maddr = maddr,
            !.pc = IF o.addr + 1 < o.end THEN "run" ELSE "out"]

Put(c) ==
  LET o == aop[c] IN
  /\ o # NoOp /\ o.pc = "run"
  /\ \/ /\ o.kind = "ALLOCATE"
        /\ \E f \in HeapFrames \ InUse : map' = [map EXCEPT ![o.addr] = Mapping(f, o.mattr)]
        /\ aop' = [aop EXCEPT ![c] = Next1(o, o.maddr)]
     \/ /\ o.kind = "INSERT"
        /\ map' = [map EXCEPT ![o.addr] = Mapping(o.maddr, o.mattr)]
        /\ aop' = [aop EXCEPT ![c] = Next1(o, o.maddr + 1)]
     \/ /\ o.kind = "REMOVE"
        /\ map' = [map EXCEPT ![o.addr] = Unmapped]
        /\ aop' = [aop EXCEPT ![c] = Next1(o, o.maddr + 1)]
     \/ /\ o.kind = "PROTECT"
        /\ map[o.addr] # Unmapped
        /\ map' = [map EXCEPT ![o.addr].read = "R" \in o.prot,
                              ![o.addr].write = "W" \in o.prot,
                              ![o.addr].xn = "X" \notin o.prot]
        /\ aop' = [aop EXCEPT ![c] = Next1(o, o.maddr)]
  /\ UNCHANGED <<lock, status, created>>

Stop(c) ==
  LET o == aop[c] IN
  /\ o # NoOp /\ o.pc = "run"
  /\ \/ o.kind # "PROTECT" /\ aop' = [aop EXCEPT ![c].rc = -ENOMEM, ![c].pc = "out"]
     \/ o.kind = "PROTECT" /\ map[o.addr] = Unmapped
                           /\ aop' = [aop EXCEPT ![c].rc = -EINVAL, ![c].pc = "out"]
  /\ UNCHANGED <<map, lock, status, created>>

Finish(c) ==
  /\ aop[c] # NoOp /\ aop[c].pc = "out"
  /\ lock' = NoCPU
  /\ aop' = [aop EXCEPT ![c] = NoOp]
  /\ UNCHANGED <<map, status, created>>

Relinquish ==
  /\ status \in {"new", "ready"} /\ lock = NoCPU
  /\ \A c \in CPUs : aop[c] = NoOp
  /\ status' = "dying"
  /\ UNCHANGED <<map, aop, lock, created>>

Teardown ==
  /\ status = "dying" /\ lock = NoCPU
  /\ status' = "dead" /\ map' = Empty
  /\ UNCHANGED <<aop, lock, created>>

Next ==
  \/ Create \/ AllocTable \/ Relinquish \/ Teardown
  \/ \E c \in CPUs :
       \/ \E r \in Ranges : Begin(c, "ALLOCATE", r, 0, MATTR_MEM, {})
       \/ \E r \in Ranges, m \in MmioBases : Begin(c, "INSERT", r, m, MATTR_DEV, {})
       \/ \E g \in GFNs, order \in {0, 1} :
            g + 2^order <= NGfn /\ Begin(c, "REMOVE", <<g, g + 2^order>>, 0, MATTR_MEM, {})
       \/ \E r \in Ranges, p \in Prots : Begin(c, "PROTECT", r, 0, MATTR_MEM, p)
       \/ Put(c) \/ Stop(c) \/ Finish(c)

Spec == Init /\ [][Next]_avars
=============================================================================
