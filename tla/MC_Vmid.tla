------------------------------- MODULE MC_Vmid -------------------------------
(* Vmid with the build's DOMID_FIRST_RESERVED, 0x7FF0.                     *)
EXTENDS Vmid

XenDomidFirstReserved == 32752
=============================================================================
