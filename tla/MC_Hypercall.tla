---------------------------- MODULE MC_Hypercall ----------------------------
(* Model-checking instance of Hypercall: the guest's register values.     *)
EXTENDS Hypercall

\* Hypercall numbers: a hole (0), slots of one, two and three arguments
\* (domctl, memory_op, grant_table_op), the first number past the table,
\* and 0xDEADBEEF, which r12 holds after a clobbered call.
SomeNrs == {0, 12, 20, 36, 37, DEADBEEF}

\* HVC immediates: PSCI (0), the hypercall tag, a wrong tag, a debug
\* putc (0xfffe) and an unhandled debug code (0xff10).
SomeISSs == {0, XEN_HYPERCALL_TAG, 1, 65534, 65296}
=============================================================================
