------------------------------- MODULE MCPanel -------------------------------
(* An instance of Panel for TLC. *)
EXTENDS Panel

\* Everything Sensors.c says it may be built with.
AllBuilds == Gains \X Times

\* Dark, dim, around the 1000 lux where the compensation begins, the last
\* light that 16 bits hold, and the sun.
SomeLights == {0, 7 * Lux, 333 * Lux + 3333, 1000 * Lux, 1001 * Lux, 19199 * Lux, 30000 * Lux}

=============================================================================
