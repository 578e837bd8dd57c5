----------------------------- MODULE MCTlsPump -----------------------------
(* TlsPump for TLC: the constants are given in the configurations. *)
EXTENDS TlsPump
=============================================================================
