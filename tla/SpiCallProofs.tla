---------------------------- MODULE SpiCallProofs ----------------------------
(***************************************************************************)
(* Machine-checked proofs about module SpiCall, for every set of commands, *)
(* any number of calls and any number of restarts of the radio.            *)
(***************************************************************************)
EXTENDS SpiCall, TLAPS

-----------------------------------------------------------------------------
(* Type correctness. *)

\* The part of TypeOK that the radio changes by itself.
RadioTypeOK ==
  /\ ready \in BOOLEAN /\ edge \in BOOLEAN
  /\ radio \in {"off", "boot", "listen", "busy", "reply", "done"}
  /\ held \in Calls \cup {NoCall}
  /\ restarts \in 0 .. MaxRestarts

DriverTypeOK ==
  /\ faults \subseteq Faults
  /\ pc \in {"idle", "ready1", "select1", "send", "ready2", "select2", "read"}
  /\ call \in Calls
  /\ result \in Calls \cup {Default}
  /\ wifi_initialized \in BOOLEAN

LEMMA TypeSplit == ASSUME TypeOK PROVE RadioTypeOK /\ DriverTypeOK
BY DEF TypeOK, RadioTypeOK, DriverTypeOK

LEMMA TypeJoin == ASSUME RadioTypeOK', DriverTypeOK' PROVE TypeOK'
BY DEF TypeOK, RadioTypeOK, DriverTypeOK

LEMMA TypeInit == Init => TypeOK
<1>1. 0 \in 0 .. MaxRestarts
  BY CallAssumption
<1>2. {0} \X Commands \subseteq Calls
  BY DEF Calls
<1>. QED
  BY <1>1, <1>2 DEF Init, TypeOK

LEMMA TypeStep ==
  ASSUME TypeOK, [Next]_vars
  PROVE  TypeOK'
<1>. RadioTypeOK /\ DriverTypeOK
  BY TypeSplit
<1>. DEFINE KeepsDriver == UNCHANGED <<faults, driverVars>> /\ RadioTypeOK'
<1>1. ASSUME NEW c \in Commands, Begin(c) PROVE TypeOK'
  <2>1. RadioTypeOK'
    BY <1>1 DEF Begin, ResetRadio, radioVars, RadioTypeOK
  <2>2. DriverTypeOK'
    BY <1>1 DEF Begin, Goto, Calls, DriverTypeOK
  <2>. QED
    BY <2>1, <2>2, TypeJoin
<1>2. ASSUME NEW from, NEW to \in {"select1", "select2"}, WaitReady(from, to) PROVE TypeOK'
  <2>1. RadioTypeOK' /\ DriverTypeOK'
    BY <1>2 DEF WaitReady, Goto, RadioTypeOK, DriverTypeOK
  <2>. QED
    BY <2>1, TypeJoin
<1>3. ASSUME NEW from, NEW to \in {"send", "read"}, WaitSelected(from, to) PROVE TypeOK'
  <2>1. RadioTypeOK' /\ DriverTypeOK'
    BY <1>3 DEF WaitSelected, Goto, radioVars, RadioTypeOK, DriverTypeOK
  <2>. QED
    BY <2>1, TypeJoin
<1>4. ASSUME Send PROVE TypeOK'
  <2>1. radio' \in {radio, "busy", "done"} /\ held' \in {held, call}
    BY <1>4 DEF Send
  <2>2. RadioTypeOK' /\ DriverTypeOK'
    BY <1>4, <2>1 DEF Send, Goto, RadioTypeOK, DriverTypeOK
  <2>. QED
    BY <2>2, TypeJoin
<1>5. ASSUME Read PROVE TypeOK'
  <2>1. radio' \in {radio, "busy", "done"} /\ held' \in {held, NoCall}
    BY <1>5 DEF Read
  <2>2. result' = Default \/ (result' = held /\ held # NoCall)
    BY <1>5 DEF Read, Accepted
  <2>3. RadioTypeOK' /\ DriverTypeOK'
    BY <1>5, <2>1, <2>2 DEF Read, Goto, RadioTypeOK, DriverTypeOK
  <2>. QED
    BY <2>3, TypeJoin
<1>6. ASSUME End PROVE TypeOK'
  <2>1. RadioTypeOK' /\ DriverTypeOK'
    BY <1>6 DEF End, RadioTypeOK, DriverTypeOK
  <2>. QED
    BY <2>1, TypeJoin
<1>7. ASSUME Radio \/ Restart \/ UNCHANGED vars PROVE TypeOK'
  <2>1. CASE Radio
    BY <1>7, <2>1, TypeJoin DEF Radio, Reply, Listen, Selected, Transfer, RadioTypeOK,
       DriverTypeOK, driverVars
  <2>2. CASE Restart
    <3>1. restarts' \in 0 .. MaxRestarts
      BY <2>2, CallAssumption DEF Restart, RadioTypeOK
    <3>. QED
      BY <2>2, <3>1, TypeJoin DEF Restart, RadioTypeOK, DriverTypeOK, driverVars
  <2>3. CASE UNCHANGED vars
    BY <2>3, TypeJoin DEF vars, radioVars, driverVars, RadioTypeOK, DriverTypeOK
  <2>. QED
    BY <1>7, <2>1, <2>2, <2>3
<1>. QED
  BY <1>1, <1>2, <1>3, <1>4, <1>5, <1>6, <1>7 DEF Next, Driver, CallSteps

\* All variables keep their types: what a call returns is a call or the default.
THEOREM TypeCorrect == Spec => []TypeOK
<1>1. TypeOK /\ [Next]_vars => TypeOK'
  BY TypeStep
<1>. QED
  BY TypeInit, <1>1, PTL DEF Spec

-----------------------------------------------------------------------------
(* Staying in step. *)

\* The radio works on a command, or has just answered it.
Works == radio = "busy" /\ held # NoCall
Holds == radio \in {"busy", "reply"} /\ held # NoCall

\* What the radio holds is a call that was made.
HeldWasCalled ==
  /\ pc # "idle" => call[1] >= 1
  /\ held # NoCall => held[1] \in 1 .. call[1]

\* As long as the radio sees in time that it was selected, it never takes a
\* transfer while it works on a command, once the driver has gone on; so that
\* from the moment a command is sent, any command it still holds is that one.
StaysInStep ==
  /\ pc \in {"idle", "ready1", "read"} /\ Works => ~ready
  /\ pc \in {"select1", "send"} => ~Works
  /\ pc = "select2" /\ Works => edge \/ ~ready
  /\ pc \in {"ready2", "select2", "read"} /\ Holds => held = call

LEMMA HeldStep ==
  ASSUME TypeOK, HeldWasCalled, [Next]_vars
  PROVE  HeldWasCalled'
<1>. call \in Calls /\ held \in Calls \cup {NoCall}
  BY DEF TypeOK
<1>1. ASSUME NEW c \in Commands, Begin(c) PROVE HeldWasCalled'
  <2>1. call'[1] = call[1] + 1 /\ held' \in {held, NoCall}
    BY <1>1 DEF Begin, ResetRadio, radioVars
  <2>. QED
    BY <2>1 DEF HeldWasCalled, Calls
<1>2. ASSUME Send PROVE HeldWasCalled'
  <2>1. call' = call /\ held' \in {held, call} /\ pc # "idle"
    BY <1>2 DEF Send, Goto
  <2>. QED
    BY <2>1 DEF HeldWasCalled, Calls
<1>3. ASSUME UNCHANGED call, held' \in {held, NoCall}, pc # "idle" \/ pc' = "idle"
      PROVE  HeldWasCalled'
  BY <1>3 DEF HeldWasCalled
<1>4. ASSUME \/ \E from, to : from # "idle" /\ (WaitReady(from, to) \/ WaitSelected(from, to))
             \/ Read \/ End
      PROVE  HeldWasCalled'
  BY <1>3, <1>4 DEF WaitReady, WaitSelected, Goto, Read, End, radioVars
<1>5. ASSUME Radio \/ Restart \/ UNCHANGED vars PROVE HeldWasCalled'
  BY <1>3, <1>5 DEF Radio, Reply, Listen, Selected, Transfer, Restart, vars, driverVars,
     radioVars
<1>. QED
  BY <1>1, <1>2, <1>4, <1>5 DEF Next, Driver, CallSteps

LEMMA StaysStep ==
  ASSUME TypeOK, "late" \notin faults, StaysInStep, [Next]_vars
  PROVE  StaysInStep'
<1>. /\ held \in Calls \cup {NoCall} /\ ready \in BOOLEAN /\ edge \in BOOLEAN
     /\ radio \in {"off", "boot", "listen", "busy", "reply", "done"}
  BY DEF TypeOK
<1>. USE DEF StaysInStep, Works, Holds
<1>1. ASSUME NEW c \in Commands, Begin(c) PROVE StaysInStep'
  BY <1>1 DEF Begin, Goto, ResetRadio, radioVars
<1>2. ASSUME WaitReady("ready1", "select1") PROVE StaysInStep'
  BY <1>2 DEF WaitReady, Goto, Ready
<1>3. ASSUME WaitReady("ready2", "select2") PROVE StaysInStep'
  BY <1>3 DEF WaitReady, Goto, Ready
<1>4. ASSUME WaitSelected("select1", "send") PROVE StaysInStep'
  BY <1>4 DEF WaitSelected, Goto, radioVars
<1>5. ASSUME WaitSelected("select2", "read") PROVE StaysInStep'
  BY <1>5 DEF WaitSelected, Goto, radioVars
<1>6. ASSUME Send PROVE StaysInStep'
  <2>1. CASE radio = "listen"
    BY <1>6, <2>1 DEF Send, Goto
  <2>2. CASE radio = "reply"
    BY <1>6, <2>2 DEF Send, Goto
  <2>3. CASE radio \notin {"listen", "reply"}
    BY <1>6, <2>3 DEF Send, Goto
  <2>. QED
    BY <2>1, <2>2, <2>3
<1>7. ASSUME Read PROVE StaysInStep'
  <2>1. CASE radio = "listen"
    BY <1>7, <2>1 DEF Read, Goto
  <2>2. CASE radio = "reply"
    BY <1>7, <2>2 DEF Read, Goto
  <2>3. CASE radio \notin {"listen", "reply"}
    BY <1>7, <2>3 DEF Read, Goto
  <2>. QED
    BY <2>1, <2>2, <2>3
<1>8. ASSUME End \/ Restart PROVE StaysInStep'
  BY <1>8 DEF End, Restart, driverVars
<1>9. ASSUME Radio PROVE StaysInStep'
  <2>1. CASE Selected
    BY <2>1 DEF Selected, driverVars
  <2>2. CASE Reply
    BY <2>2 DEF Reply, Transfer, driverVars
  <2>3. CASE Listen
    BY <2>3 DEF Listen, Transfer, driverVars
  <2>. QED
    BY <1>9, <2>1, <2>2, <2>3 DEF Radio
<1>10. ASSUME UNCHANGED vars PROVE StaysInStep'
  BY <1>10 DEF vars, driverVars, radioVars
<1>. QED
  BY <1>1, <1>2, <1>3, <1>4, <1>5, <1>6, <1>7, <1>8, <1>9, <1>10
     DEF Next, Driver, CallSteps

LEMMA FaultsKept ==
  ASSUME [Next]_vars
  PROVE  faults' = faults
BY DEF Next, Driver, CallSteps, Begin, WaitReady, WaitSelected, Send, Read, End,
   Radio, Reply, Listen, Selected, Transfer, Restart, vars

\* What the refinement rests on.
StepInv == HeldWasCalled /\ ("late" \notin faults => StaysInStep)

LEMMA StepInvariant == Spec => []StepInv
<1>1. Init => StepInv
  BY DEF Init, StepInv, HeldWasCalled, StaysInStep, Works, Holds
<1>2. TypeOK /\ StepInv /\ [Next]_vars => StepInv'
  BY HeldStep, StaysStep, FaultsKept DEF StepInv
<1>. QED
  BY <1>1, <1>2, TypeCorrect, PTL DEF Spec

-----------------------------------------------------------------------------
(* The refinement. *)

LEMMA RefinedInit == Init => Abstract!Init
BY DEF Init, Abstract!Init

LEMMA RefinedStep ==
  ASSUME TypeOK, StepInv, [Next]_vars
  PROVE  [Abstract!Next]_(Abstract!vars)
<1>. call \in Calls
  BY DEF TypeOK
<1>1. ASSUME NEW c \in Commands, Begin(c) PROVE Abstract!Call
  BY <1>1 DEF Begin, Goto, Abstract!Call
<1>2. ASSUME Read PROVE Abstract!Return
  <2>1. call[1] >= 1 /\ call[1] \in Nat
    BY <1>2 DEF StepInv, HeldWasCalled, Read, Goto, Calls
  <2>2. ASSUME Accepted PROVE held \in Abstract!Answers(call[1], call[2])
    <3>1. held # NoCall /\ held \in Calls /\ held[2] = call[2] /\ held[1] \in 1 .. call[1]
      BY <2>2 DEF Accepted, TypeOK, StepInv, HeldWasCalled
    <3>2. held = <<held[1], held[2]>> /\ call = <<call[1], call[2]>>
      BY <3>1 DEF Calls
    <3>3. CASE "late" \in faults
      <4>1. held \in (1 .. call[1]) \X {call[2]}
        BY <3>1, <3>2
      <4>. QED
        BY <3>3, <4>1 DEF Abstract!Answers
    <3>4. CASE "late" \notin faults
      <4>1. held = call
        BY <1>2, <2>2, <3>1, <3>4 DEF Accepted, Read, Goto, StepInv, StaysInStep, Holds
      <4>. QED
        BY <3>2, <4>1 DEF Abstract!Answers
    <3>. QED
      BY <3>3, <3>4
  <2>3. result' \in {Default} \cup Abstract!Answers(call[1], call[2])
    BY <1>2, <2>2 DEF Read
  <2>. QED
    BY <1>2, <2>3 DEF Read, Goto, Abstract!Return
<1>3. ASSUME \/ WaitReady("ready1", "select1") \/ WaitSelected("select1", "send") \/ Send
             \/ WaitReady("ready2", "select2") \/ WaitSelected("select2", "read")
             \/ End \/ Radio \/ Restart \/ UNCHANGED vars
      PROVE  UNCHANGED Abstract!vars
  BY <1>3 DEF WaitReady, WaitSelected, Send, End, Goto, Radio, Reply, Listen, Selected,
     Transfer, Restart, vars, driverVars, Abstract!vars
<1>. QED
  BY <1>1, <1>2, <1>3 DEF Next, Driver, CallSteps, Abstract!Next

\* A call returns the radio's answer to it, or the default, however often the
\* radio restarts and whatever the bus does to a reply.  Only a radio that is
\* late to see its select line may have the driver take an old answer.
THEOREM ImplementsCall == Spec => ImplementsRadioCall
<1>1. TypeOK /\ StepInv /\ [Next]_vars => [Abstract!Next]_(Abstract!vars)
  BY RefinedStep
<1>. QED
  BY RefinedInit, <1>1, TypeCorrect, StepInvariant, PTL
     DEF Spec, ImplementsRadioCall, Abstract!SafeSpec

-----------------------------------------------------------------------------
(* Every call answered. *)

\* Where the radio stands at each step of the driver when nothing goes wrong.
Lockstep ==
  /\ pc \in {"idle", "ready1"} =>
       /\ \/ radio \in {"off", "boot", "done"} /\ ~ready
          \/ radio = "listen" /\ ready
       /\ ~edge
  /\ pc = "select1" => radio = "listen" /\ (ready <=> edge)
  /\ pc = "send" => radio = "listen" /\ ~ready /\ ~edge
  /\ pc = "ready2" =>
       /\ \/ radio = "busy" /\ ~ready
          \/ radio = "reply" /\ ready
       /\ ~edge
  /\ pc = "select2" => radio = "reply" /\ (ready <=> edge)
  /\ pc = "read" => radio = "reply" /\ ~ready /\ ~edge
  /\ pc \in {"ready2", "select2", "read"} => held = call
  /\ pc = "idle" /\ call[1] > 0 => result = call

LEMMA LockstepStep ==
  ASSUME TypeOK, faults = {}, Lockstep, [Next]_vars
  PROVE  Lockstep'
<1>. call \in Calls /\ ready \in BOOLEAN /\ edge \in BOOLEAN
  BY DEF TypeOK
<1>. call # NoCall
  BY CallAssumption DEF Calls
<1>. USE DEF Lockstep
<1>1. ASSUME NEW c \in Commands, Begin(c) PROVE Lockstep'
  BY <1>1 DEF Begin, Goto, ResetRadio, radioVars
<1>2. ASSUME WaitReady("ready1", "select1") PROVE Lockstep'
  BY <1>2 DEF WaitReady, Goto, Ready
<1>3. ASSUME WaitReady("ready2", "select2") PROVE Lockstep'
  BY <1>3 DEF WaitReady, Goto, Ready
<1>4. ASSUME WaitSelected("select1", "send") PROVE Lockstep'
  BY <1>4 DEF WaitSelected, Goto, radioVars
<1>5. ASSUME WaitSelected("select2", "read") PROVE Lockstep'
  BY <1>5 DEF WaitSelected, Goto, radioVars
<1>6. ASSUME Send PROVE Lockstep'
  BY <1>6 DEF Send, Goto
<1>7. ASSUME Read PROVE Lockstep'
  BY <1>7 DEF Read, Goto, Accepted
<1>8. ASSUME End PROVE Lockstep'
  BY <1>8 DEF End
<1>9. ASSUME Radio PROVE Lockstep'
  <2>1. CASE Selected
    BY <2>1 DEF Selected, driverVars
  <2>2. CASE Reply
    BY <2>2 DEF Reply, Transfer, driverVars
  <2>3. CASE Listen
    BY <2>3 DEF Listen, Transfer, driverVars
  <2>. QED
    BY <1>9, <2>1, <2>2, <2>3 DEF Radio
<1>10. ASSUME Restart PROVE FALSE
  BY <1>10 DEF Restart
<1>11. ASSUME UNCHANGED vars PROVE Lockstep'
  BY <1>11 DEF vars, driverVars, radioVars
<1>. QED
  BY <1>1, <1>2, <1>3, <1>4, <1>5, <1>6, <1>7, <1>8, <1>9, <1>10, <1>11
     DEF Next, Driver, CallSteps

\* With nothing disturbed every call is answered, the first one after a reset
\* of the radio as well.
THEOREM AllAnswered == Spec => []Answered
<1>. DEFINE Inv == faults = {} => Lockstep
<1>1. Init => Inv
  BY DEF Init, Lockstep
<1>2. TypeOK /\ Inv /\ [Next]_vars => Inv'
  BY LockstepStep, FaultsKept
<1>3. Inv => Answered
  BY DEF Answered, Lockstep
<1>. QED
  BY <1>1, <1>2, <1>3, TypeCorrect, PTL DEF Spec

=============================================================================
