---------------------------- MODULE MCScreenQueue ----------------------------
(* Instances of ScreenQueue for TLC: the repeat_cycles passed to
   print_message_repeat. *)
EXTENDS ScreenQueue

Forever   == {-1}       \* as the application has it
Expiring  == {1, 2}
Sometimes == {-1, 2}

=============================================================================
