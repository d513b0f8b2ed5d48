\* One CPU: two host lines whose handlers raise softirqs, one line with no
\* handler and one routed to dom0; up to four device interrupts, so that
\* interrupts nest in the handler loop and in the tail.
CONSTANTS
  Lines <- IrqLines
  GuestLines = {"dom0dev"}
  NoAction = {"spurious"}
  Softirqs = {"TIMER", "SCHEDULE"}
  MaxIrqs = 4
SPECIFICATION Spec
PROPERTY EntersGuestWithNoSoftirq
PROPERTY HostLineEnded
PROPERTY ReturnsToGuest
