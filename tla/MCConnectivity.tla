--------------------------- MODULE MCConnectivity ---------------------------
(* Instances of Connectivity for TLC. *)
EXTENDS Connectivity, TLC

\* No handler prefers one socket of the radio to another.
SocketSymmetry == Permutations(Sockets)

=============================================================================
