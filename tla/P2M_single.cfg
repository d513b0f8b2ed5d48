\* One CPU: range operations, lazy tables, -ENOMEM at the second level and
\* at the leaf, teardown, TLB flushes.  Four heap frames hold the root, the
\* second-level table, a third-level table and one RAM page, so the next
\* allocation fails.  No symmetry, so the liveness property is checked
\* soundly.
CONSTANTS
  CPUs = {c1}
  OpCPUs = {c1}
  HeapFrames = {h1, h2, h3, h4}
  MmioBases = {100}
  Prots = {{"R"}, {"R", "W", "X"}}
  NGfn = 3
  Fan = 2
  MaxRange = 2
  MaxCreate = 1
  NoFrame = NoFrame
  NoOp = NoOp
  NoCPU = NoCPU
SPECIFICATION Spec
INVARIANT TypeOK
INVARIANT P2MIntegrity
INVARIANT TLBCoherent
PROPERTY Refinement
PROPERTY OpTerminates
CHECK_DEADLOCK FALSE
