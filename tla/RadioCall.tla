------------------------------ MODULE RadioCall ------------------------------
(***************************************************************************)
(* What the drivers above it may expect of a call to the radio: it ends,   *)
(* and what it returns is the radio's answer to this very call, or else    *)
(* the caller's default.  A radio that reacts too late may have the answer *)
(* to an earlier call of the same command taken for the answer to this.    *)
(***************************************************************************)
EXTENDS Naturals

CONSTANTS Commands, Default

VARIABLES
  lateRadio,   \* the radio may react too late
  pending,     \* a call is being made
  call,        \* the last call: its number and its command
  result       \* what it returned: a call that was answered, or Default

vars == <<lateRadio, pending, call, result>>

Init ==
  /\ lateRadio \in BOOLEAN
  /\ pending = FALSE
  /\ call \in {0} \X Commands
  /\ result = Default

\* The answers that the call <<n, c>> may bring back.
Answers(n, c) == {<<n, c>>} \cup (IF lateRadio THEN (1 .. n) \X {c} ELSE {})

Call ==
  /\ ~pending
  /\ pending' = TRUE
  /\ call' \in {call[1] + 1} \X Commands
  /\ UNCHANGED <<lateRadio, result>>

Return ==
  /\ pending
  /\ pending' = FALSE
  /\ result' \in {Default} \cup Answers(call[1], call[2])
  /\ UNCHANGED <<lateRadio, call>>

Next == Call \/ Return

SafeSpec == Init /\ [][Next]_vars
Spec == SafeSpec /\ WF_vars(Return)

=============================================================================
