\* COM1 interrupt-driven and COM2 polled, no transmit FIFO, two sleeps
\* after which either port may come back undecoded, two retries.
CONSTANTS
  Ports <- UartPorts
  IrqPorts = {"com1"}
  FifoSize = 1
  RxFifo = 1
  RESUME_RETRIES = 2
  TriesFloor <- UartFloor
  MaxPuts = 3
  MaxSleeps = 2
SPECIFICATION Spec
INVARIANT TypeOK
PROPERTY TxDrained
PROPERTY SharedRetryBudget
