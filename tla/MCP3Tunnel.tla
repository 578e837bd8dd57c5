----------------------------- MODULE MCP3Tunnel -----------------------------
(* P3Tunnel for TLC: one handle, for a name with an IPv4 and an IPv6 address. *)
EXTENDS P3Tunnel

CONSTANTS h1, v4, v6, n1

MCHandles == {h1}
MCReal    == {v4, v6}
MCV6      == {v6}
MCNames   == {n1}
MCAnswers == {<<v4, v6>>, <<>>}
=============================================================================
