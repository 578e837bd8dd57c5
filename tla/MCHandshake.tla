---------------------------- MODULE MCHandshake ----------------------------
(* Handshake for TLC: an Ed25519 and an RSA key of ours, a stranger's  *)
(* Ed25519 key, and three signers: one of an RSA key that prefers a scheme   *)
(* the stranger's hello may not offer, one of an Ed25519 key that reports    *)
(* it, and one that reports a key and no scheme at all.                      *)
EXTENDS Handshake

MCSigners ==
  {[key |-> "r1", schemes |-> <<"pss512", "pss256">>, told |-> "r1"],
   [key |-> "e1", schemes |-> <<"ed25519">>, told |-> "e1"],
   [key |-> "e1", schemes |-> <<>>, told |-> "e1"]}
=============================================================================
