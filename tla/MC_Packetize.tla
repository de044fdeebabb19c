---------------------------- MODULE MC_Packetize ----------------------------
(***************************************************************************)
(* Packetize for TLC: an MTU of 64 bytes, handshake bodies that are empty, *)
(* fit in one fragment, or need two (80 = 64 + 16), and a 2-byte alert.    *)
(***************************************************************************)
EXTENDS Packetize

MCBodyLens == {0, 20, 80}
MCOtherLens == {2}

=============================================================================
