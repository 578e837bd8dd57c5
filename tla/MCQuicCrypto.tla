---------------------------- MODULE MCQuicCrypto ----------------------------
(* A small instance of QuicCrypto: two paths; packet numbers around one whose *)
(* bits reach up to the path's place in the nonce; initial, handshake and      *)
(* data headers, of lengths one, two and four.                               *)
EXTENDS QuicCrypto

CONSTANTS s1, s2, t1, t2, d1, d2

MCIv == {0, 64}
MCSamples == {s1, s2}
MCLeads == {<<{0}, {1, 7}, {}>>}
MCPaths == {{}, {0}}
MCPacketNumbers == {{32, 63}, {0, 32, 63}, {9, 32, 63}}
MCExpected == {32, 63}
MCFirstBytes == {{6}, {0, 4, 6}, {0, 1, 6}, {0, 2, 6, 7}, {1, 5, 6, 7}}
MCTokenNonces == {t1, t2}
MCData == {d1, d2}
MCMaskOf ==
    [suite \in {"AES_128_GCM", "CHACHA20_POLY1305"} |->
      [sample \in MCSamples |->
        IF (suite = "AES_128_GCM") = (sample = s1)
        THEN <<{0, 1, 4, 5}, {0, 3}, {1}, {2, 7}, {0}>>
        ELSE <<{1, 3, 6}, {7}, {0, 1}, {}, {5}>>]]
=============================================================================
