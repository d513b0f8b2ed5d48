\* One CPU: p2m_protect_ram over a range whose later page is unmapped.
CONSTANTS
  CPUs = {c1}
  OpCPUs = {c1}
  HeapFrames = {h1, h2, h3, h4, h5}
  MmioBases = {100}
  Prots = {{"R"}, {"R", "W", "X"}}
  NGfn = 3
  Fan = 2
  MaxRange = 2
  MaxCreate = 1
  NoFrame = NoFrame
  NoOp = NoOp
  NoCPU = NoCPU
SPECIFICATION Spec
CHECK_DEADLOCK FALSE
INVARIANT ProtectAllOrNothing
SYMMETRY HeapSymmetry
