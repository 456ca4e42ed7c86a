------------------------------ MODULE MCLanLeg ------------------------------
(* LanLeg for TLC. *)
EXTENDS LanLeg
=============================================================================
