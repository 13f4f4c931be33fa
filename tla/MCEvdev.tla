------------------------------ MODULE MCEvdev ------------------------------
(***************************************************************************)
(* EvdevFrame for TLC.                                                     *)
(***************************************************************************)
EXTENDS EvdevFrame

\* One value that reaches the record's limit alone, one that needs three.
MotionValues == {-2, 1}

=============================================================================
