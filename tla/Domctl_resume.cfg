\* dom0 resumes itself: domain_resume's domain_pause waits for every vCPU
\* of dom0 to stop, the caller's own included.
CONSTANTS
  v0 = v0
  v1 = v1
  Callers = {v0, v1}
  NDOM = 2
  MaxV = 2
  Ops <- ResumeOps
  MaxOps = 1
  None = None
SPECIFICATION Spec
PROPERTY DomctlReturns
CHECK_DEADLOCK FALSE
