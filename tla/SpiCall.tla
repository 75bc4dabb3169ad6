------------------------------- MODULE SpiCall -------------------------------
(***************************************************************************)
(* A call to the radio over the SPI bus: spi_drv.c, and the shape that all *)
(* functions of server_drv.c and wifi_drv.c share.  The driver waits for   *)
(* the radio to be ready, selects it, sends the command, releases it,      *)
(* waits again, selects it again and reads the reply.  The radio is a      *)
(* processor of its own; all that the driver sees of it is the READY line, *)
(* which means "I can take a transfer" and does not say which one.  What   *)
(* is hard is that the two must stay in step: a transfer is a command to   *)
(* the radio and a reply to the driver only if both think so.              *)
(***************************************************************************)
EXTENDS Naturals

CONSTANTS
  Commands,      \* the commands, cmd
  Default,       \* what the caller had put into its variables
  NoCall,        \* a transfer that is no command
  MaxCalls,      \* bound: calls made
  MaxRestarts    \* bound: restarts of the radio by itself

ASSUME CallAssumption ==
  /\ Default \notin Nat \X Commands
  /\ NoCall \notin Nat \X Commands
  /\ MaxCalls \in Nat /\ MaxRestarts \in Nat

(* What may go wrong: the radio sees its select line too late, a reply is
   disturbed on the bus, and the radio restarts by itself. *)
Faults == {"late", "noise", "crash"}

VARIABLES
  faults,             \* those that may happen in this behaviour
  pc,                 \* how far the call got
  call,               \* its number and its command
  result,             \* what the last call returned
  wifi_initialized,
  ready,              \* WIFIREADY is LOW: the radio takes a transfer
  edge,               \* the radio has yet to see that it was selected
  radio,              \* what the radio does
  held,               \* the command it works on, or whose reply it holds
  restarts

driverVars == <<pc, call, result, wifi_initialized>>
radioVars  == <<ready, edge, radio, held, restarts>>
vars       == <<faults, driverVars, radioVars>>

Calls == Nat \X Commands

TypeOK ==
  /\ faults \subseteq Faults
  /\ pc \in {"idle", "ready1", "select1", "send", "ready2", "select2", "read"}
  /\ call \in Calls
  /\ result \in Calls \cup {Default}
  /\ wifi_initialized \in BOOLEAN /\ ready \in BOOLEAN /\ edge \in BOOLEAN
  /\ radio \in {"off", "boot", "listen", "busy", "reply", "done"}
  /\ held \in Calls \cup {NoCall}
  /\ restarts \in 0 .. MaxRestarts

Init ==
  /\ faults \in SUBSET Faults
  /\ pc = "idle" /\ call \in {0} \X Commands /\ result = Default
  /\ wifi_initialized = FALSE
  /\ ready = FALSE /\ edge = FALSE /\ radio = "off" /\ held = NoCall
  /\ restarts = 0

-----------------------------------------------------------------------------
(* The driver. *)

Goto(from, to) == pc = from /\ pc' = to

\* Faulty variant: the radio is not taken through a reset.
ResetRadio_Skipped == UNCHANGED radioVars

\* wifi_spi_begin: the reset line restarts the radio.
ResetRadio ==
  /\ radio' = "boot" /\ ready' = FALSE /\ edge' = FALSE /\ held' = NoCall
  /\ UNCHANGED restarts

\* A function of server_drv.c or wifi_drv.c begins, WAIT_FOR_SLAVE_SELECT.
Begin(c) ==
  /\ Goto("idle", "ready1") /\ call[1] < MaxCalls
  /\ call' = <<call[1] + 1, c>>
  /\ wifi_initialized' = TRUE
  /\ IF wifi_initialized THEN UNCHANGED radioVars ELSE ResetRadio
  /\ UNCHANGED <<faults, result>>

\* Faulty variant: goes on as if the radio were always ready.
Ready_Assumed == TRUE

\* waitForSlaveReady ends; there is no other way out of it.
Ready == ready

\* waitForSlaveReady, then wifi_spi_spiSlaveSelect lowers the select line.
WaitReady(from, to) ==
  /\ Goto(from, to)
  /\ Ready
  /\ edge' = TRUE
  /\ UNCHANGED <<faults, call, result, wifi_initialized, ready, radio, held, restarts>>

\* wifi_spi_spiSlaveSelect goes on when the radio has answered the select line
\* or five milliseconds are over, which a radio that is there does not need.
WaitSelected(from, to) ==
  /\ Goto(from, to)
  /\ ~ready \/ ~edge \/ "late" \in faults
  /\ UNCHANGED <<faults, call, result, wifi_initialized, radioVars>>

\* Command and parameters go out and the radio is released.  A radio that
\* holds a reply clocks it out instead; one that is busy hears nothing.
Send ==
  /\ Goto("send", "ready2")
  /\ radio' = CASE radio = "listen" -> "busy" [] radio = "reply" -> "done" [] OTHER -> radio
  /\ held' = IF radio = "listen" THEN call ELSE held
  /\ UNCHANGED <<faults, call, result, wifi_initialized, ready, edge, restarts>>

\* Faulty variants: the command byte of the reply is not compared; nor is
\* anything else of it.
Accepted_AnyCommand == radio = "reply" /\ held # NoCall
Accepted_Anything == TRUE

\* wifi_spi_waitResponseCmd and its kin find START_CMD, the command with
\* REPLY_FLAG, and the number of parameters.
Accepted == radio = "reply" /\ held # NoCall /\ held[2] = call[2]

\* The reply is read and the radio released.  A radio that waits for a command
\* takes the bytes that are sent meanwhile for one.
Read ==
  /\ Goto("read", "idle")
  /\ result' \in (IF Accepted THEN {held} ELSE {Default}) \cup
                 (IF "noise" \in faults THEN {Default} ELSE {})
  /\ radio' = CASE radio = "listen" -> "busy" [] radio = "reply" -> "done" [] OTHER -> radio
  /\ held' = IF radio = "listen" THEN NoCall ELSE held
  /\ UNCHANGED <<faults, call, wifi_initialized, ready, edge, restarts>>

\* wifi_spi_end, from WiFi_end
End ==
  /\ pc = "idle" /\ wifi_initialized
  /\ wifi_initialized' = FALSE
  /\ radio' = "off" /\ ready' = FALSE /\ edge' = FALSE /\ held' = NoCall
  /\ UNCHANGED <<faults, pc, call, result, restarts>>

CallSteps ==
  \/ WaitReady("ready1", "select1") \/ WaitSelected("select1", "send") \/ Send
  \/ WaitReady("ready2", "select2") \/ WaitSelected("select2", "read") \/ Read

Driver == CallSteps \/ End \/ \E c \in Commands : Begin(c)

-----------------------------------------------------------------------------
(* The radio, as its handshake shows it. *)

Transfer(from, to, h) ==
  /\ radio = from /\ radio' = to
  /\ ready' = TRUE /\ edge' = FALSE
  /\ held' = h
  /\ UNCHANGED <<faults, driverVars, restarts>>

\* The radio has carried out the command and has a reply; to what was none it
\* replies nothing, in a transfer or without one.
Reply ==
  \/ Transfer("busy", "reply", held)
  \/ held = NoCall /\ Transfer("busy", "listen", NoCall)

\* The radio can take a command: after its start, and after a reply.
Listen == Transfer("boot", "listen", NoCall) \/ Transfer("done", "listen", NoCall)

\* The radio sees that it was selected and raises the line.
Selected ==
  /\ edge
  /\ edge' = FALSE /\ ready' = FALSE
  /\ UNCHANGED <<faults, driverVars, radio, held, restarts>>

Restart ==
  /\ "crash" \in faults /\ radio # "off" /\ restarts < MaxRestarts
  /\ restarts' = restarts + 1
  /\ radio' = "boot" /\ ready' = FALSE /\ edge' = FALSE /\ held' = NoCall
  /\ UNCHANGED <<faults, driverVars>>

Radio == Reply \/ Listen \/ Selected

Next == Driver \/ Radio \/ Restart

Spec == Init /\ [][Next]_vars

\* The processor goes on with a call; a radio that is there goes on, too.
FairSpec == Spec /\ WF_vars(CallSteps) /\ WF_vars(Radio)

-----------------------------------------------------------------------------
(* Properties. *)

\* To its callers the driver is a RadioCall: what a call returns is the answer
\* to it or the default, and never the answer to an earlier call, unless the
\* five milliseconds of wifi_spi_spiSlaveSelect ran out on a live radio.
Abstract ==
  INSTANCE RadioCall WITH
    lateRadio <- "late" \in faults,
    pending <- pc # "idle"

ImplementsRadioCall == Abstract!SafeSpec

\* While the radio goes on, every call ends, however the radio was disturbed
\* and wherever the two fell out of step: waitForSlaveReady has no other limit.
CallEnds == pc # "idle" ~> pc = "idle"

\* Two transfers per call and a wait before each keep the two in step: with
\* nothing disturbed no call gets the default, from the first one after a
\* reset on.
Answered == faults = {} /\ pc = "idle" /\ call[1] > 0 => result = call

=============================================================================
