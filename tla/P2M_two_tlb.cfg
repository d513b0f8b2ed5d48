\* Two CPUs: an entry changed by one CPU, whose flush is local, while the
\* other CPU's vCPU still caches the old translation.
CONSTANTS
  CPUs = {c1, c2}
  OpCPUs = {c1}
  HeapFrames = {h1, h2, h3, h4}
  MmioBases = {100}
  Prots = {{"R"}, {"R", "W", "X"}}
  NGfn = 2
  Fan = 2
  MaxRange = 2
  MaxCreate = 1
  NoFrame = NoFrame
  NoOp = NoOp
  NoCPU = NoCPU
SPECIFICATION Spec
CHECK_DEADLOCK FALSE
INVARIANT TLBCoherent
SYMMETRY HeapSymmetry
