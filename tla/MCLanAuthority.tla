--------------------------- MODULE MCLanAuthority ---------------------------
(* Instances of LanAuthority for TLC: the host and one other member. *)
EXTENDS LanAuthority

CONSTANTS host, ann

MCHost == {host}
MCBoth == {host, ann}
=============================================================================
