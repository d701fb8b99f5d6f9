------------------------------ MODULE MCBanList ------------------------------
(***************************************************************************)
(* Two peers of one host.                                                  *)
(***************************************************************************)
EXTENDS BanList

CONSTANTS p1, p2, h

MCHostOf == [i \in {p1, p2} |-> h]
=============================================================================
