------------------------------ MODULE MCStartup ------------------------------
(* Startup for TLC: nothing but its constants, which the configuration gives. *)
EXTENDS Startup
=============================================================================
