--------------------------------- MODULE MC_Irq ---------------------------------
(* Model values for Irq: a timer and a UART owned by Xen, a line with no *)
(* handler, and a device line routed to dom0.                            *)
EXTENDS Irq

IrqLines == {"timer", "uart", "spurious", "dom0dev"}
=============================================================================
