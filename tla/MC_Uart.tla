--------------------------------- MODULE MC_Uart ---------------------------------
(* Model values for Uart: COM1 with an interrupt line, COM2 polled.      *)
EXTENDS Uart

UartPorts == {"com1", "com2"}

\* The shared counter is followed two steps below zero.
UartFloor == -2
=============================================================================
