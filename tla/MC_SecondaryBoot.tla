------------------------- MODULE MC_SecondaryBoot -------------------------
(* Model values for SecondaryBoot: two boot addresses dom0 may write. *)
EXTENDS SecondaryBoot

CONSTANTS a1, a2

BootAddrs == {a1, a2}
=============================================================================
