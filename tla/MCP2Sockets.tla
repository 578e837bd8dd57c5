---------------------------- MODULE MCP2Sockets ----------------------------
(* P2Connect and the lookups under it for TLC: two names, one of which      *)
(* rustls refuses, and the answers worth telling apart.                     *)
EXTENDS P2Connect

CONSTANTS h1, h2, v4, v6, good, bad

MCHandles == {h1, h2}
MCReal    == {v4, v6}
MCV6      == {v6}
MCNames   == {good, bad}
MCBad     == {bad}
MCAnswers == {<<>>, <<v4>>, <<v4, v6>>}
=============================================================================
