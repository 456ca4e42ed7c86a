--------------------------- MODULE MCTorrentHost ---------------------------
(* An instance of TorrentHost for TLC.  Three processes: one that a restart gave *)
(* up on, one it kills and one it spawns.  No symmetry: liveness is checked. *)
EXTENDS TorrentHost

CONSTANTS h1, h2, h3, c1, c2

MCHosts == {h1, h2, h3}
MCCallers == {c1, c2}
=============================================================================
