---------------------------- MODULE MCMCP2515SPI ----------------------------
(***************************************************************************)
(* Two messages for the receiver (r1, r2), one too long for it (l), one    *)
(* for nobody (o) and one with ID 0 (z); applications send s1 to s4, more  *)
(* than the controller has transmit buffers, and s0, which has no data.    *)
(***************************************************************************)
EXTENDS MCP2515SPI

MCId == [m \in Message |-> CASE m = "z" -> 0 [] m = "o" -> rxLeverID [] OTHER -> ReceiveID]
MCLength == [m \in Message |-> CASE m = "l" -> 9 [] m = "o" -> 0 [] OTHER -> 8]
MCTraffic == {[bus |-> <<"r1", "r2">>, send |-> <<"s1">>],
              [bus |-> <<"r1">>, send |-> <<"s1", "s2">>],
              [bus |-> <<>>, send |-> <<"s1", "s2", "s3", "s4">>],
              [bus |-> <<>>, send |-> <<"s2", "s1", "s3", "s0", "s4">>],
              [bus |-> <<"o", "z", "r1">>, send |-> <<>>],
              [bus |-> <<"l", "r1">>, send |-> <<>>]}
============================================================================
