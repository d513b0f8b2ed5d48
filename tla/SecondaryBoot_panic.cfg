\* Two dom0 vCPUs write the boot register at once.
CONSTANTS
  NCPU = 3
  Writers = {0, 1}
  a1 = a1
  a2 = a2
  Addrs <- BootAddrs
  MaxWrites = 3
  PassRegs = {"REG0_RESUME_ADDR", "CPU1_STATE"}
  None = None
SPECIFICATION Spec
INVARIANT NoBringUpPanic
\* dom0 stops writing after MaxWrites writes.
CHECK_DEADLOCK FALSE
