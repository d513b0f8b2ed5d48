\* dom0 creates domains 1 and 2 by explicit id, then asks for any free id.
CONSTANTS
  v0 = v0
  v1 = v1
  Callers = {v0}
  NDOM = 3
  MaxV = 2
  Ops <- ExplicitOps
  MaxOps = 3
  None = None
SPECIFICATION Spec
PROPERTY RoverFindsFreeId
\* dom0 stops issuing domctls after MaxOps of them.
CHECK_DEADLOCK FALSE
