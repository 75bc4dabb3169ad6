---------------------------- MODULE MCMsClock ----------------------------
(* Instances of MsClock for TLC, with words of a few bits. *)
EXTENDS MsClock
=============================================================================
