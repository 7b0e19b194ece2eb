---------------------------- MODULE MCHostScript ----------------------------
(* The script of a stage with a few steps, for TLC. *)
EXTENDS HostScript

=============================================================================
