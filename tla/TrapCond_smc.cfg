\* Thumb guest issuing an SMC inside an IT block.
CONSTANTS
  Modes = {"thumb"}
  Conds = {14}
  NZCVs = {0}
  Bounds <- SmcBounds
  NoTrap = NoTrap
  ITBlocks <- SomeITBlocks
SPECIFICATION Spec
INVARIANT TrapResumesArchitecturally
CHECK_DEADLOCK FALSE
