---------------------------- MODULE MCRoomOwner -----------------------------
(* RoomOwner for TLC. *)
EXTENDS RoomOwner
=============================================================================
