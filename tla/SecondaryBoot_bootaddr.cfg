\* One dom0 vCPU writes the boot register again while its last secondary is starting.
CONSTANTS
  NCPU = 3
  Writers = {0}
  a1 = a1
  a2 = a2
  Addrs <- BootAddrs
  MaxWrites = 3
  PassRegs = {"REG0_RESUME_ADDR", "CPU1_STATE"}
  None = None
SPECIFICATION Spec
INVARIANT SecondaryStartsAtItsBootAddr
\* dom0 stops writing after MaxWrites writes.
CHECK_DEADLOCK FALSE
