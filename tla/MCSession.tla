------------------------------ MODULE MCSession ------------------------------
(* Session for TLC: nothing but its constants, which the configurations give. *)
EXTENDS Session
=============================================================================
