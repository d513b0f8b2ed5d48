\* Two dom0 vCPUs issue domctls on domain ids 0 .. 2.
CONSTANTS
  v0 = v0
  v1 = v1
  Callers = {v0, v1}
  NDOM = 3
  MaxV = 2
  Ops <- AllOps
  MaxOps = 4
  None = None
SPECIFICATION Spec
INVARIANT TypeOK PausedDomainNotRunning PauseCountBalanced VcpuArrayConsistent XenctlBitmapExact
PROPERTY DomctlReturns
\* dom0 stops issuing domctls after MaxOps of them.
CHECK_DEADLOCK FALSE
