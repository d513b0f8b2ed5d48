\* One CPU, the domain destroyed and created again with the same VMID:
\* frames of the first incarnation are reused by the second while the
\* CPU's TLB still holds the first incarnation's translations.
CONSTANTS
  CPUs = {c1}
  OpCPUs = {c1}
  HeapFrames = {h1, h2, h3, h4, h5}
  MmioBases = {100}
  Prots = {{"R"}, {"R", "W", "X"}}
  NGfn = 3
  Fan = 2
  MaxRange = 2
  MaxCreate = 2
  NoFrame = NoFrame
  NoOp = NoOp
  NoCPU = NoCPU
SPECIFICATION Spec
INVARIANT P2MIntegrity
SYMMETRY HeapSymmetry
CHECK_DEADLOCK FALSE
