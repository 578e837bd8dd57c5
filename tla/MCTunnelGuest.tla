--------------------------- MODULE MCTunnelGuest ---------------------------
(* TunnelGuest for TLC; the constants are plain numbers given in the cfg. *)
EXTENDS TunnelGuest
=============================================================================
