\* dom0 allocates domains 1 and 2 from the rover, destroys 2 (the rover's
\* id) and asks for another: the search ends on the rover before testing it.
CONSTANTS
  v0 = v0
  v1 = v1
  Callers = {v0}
  NDOM = 3
  MaxV = 2
  Ops <- RoverOps
  MaxOps = 5
  None = None
SPECIFICATION Spec
PROPERTY RoverFindsFreeId
\* dom0 stops issuing domctls after MaxOps of them.
CHECK_DEADLOCK FALSE
