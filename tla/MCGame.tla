------------------------------- MODULE MCGame -------------------------------
(* GameClient for TLC: nothing but its constants, which the configurations give. *)
EXTENDS GameClient
=============================================================================
