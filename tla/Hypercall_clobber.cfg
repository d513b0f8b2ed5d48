\* Debug build, a guest hypercall of two and three arguments: the
\* registers left after the call.
CONSTANTS
  Debug = TRUE
  R0s = {0, 1, 2, 3}
  Args = {1}
  RetVals = {0, 5}
  ContArgs = {7}
  ContFns = {"memory_op", "grant_table_op"}
  MaxCalls = 3
  NoTrap = NoTrap
  NoCont = NoCont
  ISSs <- SomeISSs
  Nrs <- SomeNrs
SPECIFICATION Spec
INVARIANT SpecClobbersBeyondConsumed
CHECK_DEADLOCK FALSE
