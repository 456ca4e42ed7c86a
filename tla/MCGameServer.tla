---------------------------- MODULE MCGameServer ----------------------------
(* Instances of GameServer for TLC: the configurations choose what may fail. *)
EXTENDS GameServer
=============================================================================
