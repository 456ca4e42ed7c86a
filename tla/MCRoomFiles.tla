---------------------------- MODULE MCRoomFiles -----------------------------
(* RoomFiles for TLC: three members, one of whom inherits the room. *)
EXTENDS RoomFiles

CONSTANTS o, a, b, none
=============================================================================
