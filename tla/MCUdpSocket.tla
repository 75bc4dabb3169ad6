----------------------------- MODULE MCUdpSocket -----------------------------
(* An instance of UdpSocket for TLC: its constants are in the configuration. *)
EXTENDS UdpSocket

=============================================================================
