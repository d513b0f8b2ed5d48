\* Three domain ids: dom0 creates guests by explicit id or from the rover,
\* destroys them, and switches to them.  MaxGuests exceeds the two guest
\* ids, so dom0 may ask for a domain with every id taken.
CONSTANTS
  DOMID_FIRST_RESERVED = 3
  MaxGuests = 3
  TlbSize = 1
  ExplicitIds = {1, 2}
SPECIFICATION Spec
PROPERTY RoverFindsFreeId
\* A CPU spinning in the rover loop stops the model.
CHECK_DEADLOCK FALSE
