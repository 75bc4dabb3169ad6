-------------------------------- MODULE MCPost --------------------------------
(* An instance of Post for TLC: its constants are in the configuration. *)
EXTENDS Post

=============================================================================
