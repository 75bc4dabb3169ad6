---------------------------- MODULE RemoteSession ----------------------------
(***************************************************************************)
(* What the remote part of the firmware promises, seen from outside.  The  *)
(* device holds at most one conversation at a time over its radio: it asks *)
(* a time server for the time, or it posts a reading to the back end.      *)
(* Readings carry a time stamp, so none is posted before the clock was     *)
(* set, and no conversation lasts for ever.                                *)
(***************************************************************************)
VARIABLES
  talk,      \* the conversation in progress: "none", "time" or "reading"
  clockSet   \* the real-time clock was set by an earlier conversation

vars == <<talk, clockSet>>

TypeOK == talk \in {"none", "time", "reading"} /\ clockSet \in BOOLEAN

Init == talk = "none" /\ clockSet = FALSE

AskTime == talk = "none" /\ talk' = "time" /\ UNCHANGED clockSet

\* The answer came, and sets the clock, or it did not.
EndTime == talk = "time" /\ talk' = "none" /\ clockSet' \in {TRUE, clockSet}

PostReading == talk = "none" /\ clockSet /\ talk' = "reading" /\ UNCHANGED clockSet

EndReading == talk = "reading" /\ talk' = "none" /\ UNCHANGED clockSet

Next == AskTime \/ EndTime \/ PostReading \/ EndReading

SafeSpec == Init /\ [][Next]_vars

Spec == SafeSpec /\ WF_vars(EndTime) /\ WF_vars(EndReading)

=============================================================================
