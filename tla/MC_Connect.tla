----------------------------- MODULE MC_Connect -----------------------------
(***************************************************************************)
(* Instances of Connect for TLC, over the peer scripts and forged          *)
(* datagrams of MC_ConnRead.                                               *)
(***************************************************************************)
EXTENDS Connect, MC_ConnRead

=============================================================================
