\* dom0 creates and destroys guests one at a time; one TLB entry.
CONSTANTS
  DOMID_FIRST_RESERVED <- XenDomidFirstReserved
  MaxGuests = 1
  TlbSize = 1
  ExplicitIds = {}
SPECIFICATION Spec
INVARIANT TlbIsolation
