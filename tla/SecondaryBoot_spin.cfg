\* Two dom0 vCPUs power cores and write the boot register; core 2 is
\* present but need not be powered on.  The other SYSRAM registers are left
\* out: they play no part in the bring-up.
CONSTANTS
  NCPU = 3
  Writers = {0, 1}
  a1 = a1
  a2 = a2
  Addrs <- BootAddrs
  MaxWrites = 2
  PassRegs = {}
  None = None
SPECIFICATION Spec
PROPERTY CpuUpReturns
\* dom0 stops writing after MaxWrites writes, and a panic stops the host.
CHECK_DEADLOCK FALSE
