\* Two dom0 vCPUs power cores and write the boot register; a panic halts the host.
CONSTANTS
  NCPU = 3
  Writers = {0, 1}
  a1 = a1
  a2 = a2
  Addrs <- BootAddrs
  MaxWrites = 3
  PassRegs = {"REG0_RESUME_ADDR", "CPU1_STATE"}
  None = None
SPECIFICATION Spec
INVARIANT TypeOK CounterMatchesOnline
\* dom0 stops writing after MaxWrites writes, and a panic stops the host.
CHECK_DEADLOCK FALSE
