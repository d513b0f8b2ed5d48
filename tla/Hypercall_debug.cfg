\* Debug build: every branch of the HVC path, continuations of
\* memory_op and grant_table_op, calls of one to three arguments.
CONSTANTS
  Debug = TRUE
  R0s = {0, 1, 2, 3}
  Args = {1}
  RetVals = {0, 5}
  ContArgs = {7}
  ContFns = {"memory_op", "grant_table_op"}
  MaxCalls = 4
  NoTrap = NoTrap
  NoCont = NoCont
  ISSs <- SomeISSs
  Nrs <- SomeNrs
SPECIFICATION Spec
INVARIANT TypeOK
INVARIANT HypercallReturnABI
CHECK_DEADLOCK FALSE
