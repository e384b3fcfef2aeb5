----------------------------- MODULE MCDiscover ------------------------------
(* Small instances of Discover for TLC: MCDiscover.cfg and MCDiscoverFull.cfg. *)
EXTENDS Discover
=============================================================================
