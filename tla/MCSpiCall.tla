------------------------------ MODULE MCSpiCall ------------------------------
(* An instance of SpiCall for TLC: its constants are in the configuration. *)
EXTENDS SpiCall

=============================================================================
