--------------------------------- MODULE Post ---------------------------------
(***************************************************************************)
(* One reading on its way to the back end: the blocking part of remoteSync *)
(* and checkBEResponse of Remote.c, over WiFiClient.c and server_drv.c.    *)
(* The request is written in pieces; each is handed to the radio and then  *)
(* polled for until the radio says that it went out.  remoteSync looks at  *)
(* none of the results.  What is hard is what the firmware cannot see: the *)
(* pieces that arrived when a reply did not, and the time that passes in   *)
(* loops with a limit each, inside one pass of the super-loop.             *)
(***************************************************************************)
EXTENDS Naturals, Sequences

CONSTANTS
  Pieces,              \* writes of one request: 12 in the code, empty ones aside
  TIMEOUT_DATA_SENT,   \* polls for one piece: 25 in the code
  ClosePolls,          \* polls for the closing of a client: 50 in the code
  ConnectWait          \* the 10 s of connectSSLHost, in tenths of a second

ASSUME PostAssumption ==
  /\ Pieces \in Nat \ {0} /\ TIMEOUT_DATA_SENT \in Nat \ {0}
  /\ ClosePolls \in Nat \ {0} /\ ConnectWait \in Nat

(* What may go wrong: the radio refuses a piece (its buffer is full, the other
   side has closed), and its replies get lost. *)
Faults == {"refused", "lost"}

VARIABLES
  faults,                    \* those that may happen in this behaviour
  pc,                        \* how far the pass got
  piece,                     \* the piece that is written
  polls,                     \* timeout of checkDataSent, count of WiFiClient_stop
  waiting_on_BE_response,
  got,                       \* the pieces that the radio took
  blocked                    \* time in the handlers of this pass, in 0.1 s

vars == <<faults, pc, piece, polls, waiting_on_BE_response, got, blocked>>

TypeOK ==
  /\ faults \subseteq Faults
  /\ pc \in {"pass", "connect", "send", "confirm", "check", "stop", "end"}
  /\ piece \in 1 .. Pieces
  /\ polls \in 0 .. TIMEOUT_DATA_SENT + ClosePolls
  /\ waiting_on_BE_response \in BOOLEAN
  /\ got \in Seq(1 .. Pieces)
  /\ blocked \in Nat

Init ==
  /\ faults \in SUBSET Faults
  /\ pc = "pass" /\ piece = 1 /\ polls = 0
  /\ waiting_on_BE_response = FALSE /\ got = <<>> /\ blocked = 0

-----------------------------------------------------------------------------
(* remoteSync *)

\* A socket is there; the radio is told to connect it.  (Without one remoteSync
\* gives up at once.)
StartClient ==
  /\ pc = "pass" /\ ~waiting_on_BE_response
  /\ pc' = "connect" /\ piece' = 1 /\ got' = <<>>
  /\ UNCHANGED <<faults, polls, waiting_on_BE_response, blocked>>

\* The connection is up at the first look.
Connected ==
  /\ pc = "connect"
  /\ pc' = "send"
  /\ UNCHANGED <<faults, piece, polls, waiting_on_BE_response, got, blocked>>

\* It is not: the look forgets the socket, and the loop then waits in vain.
NotConnected ==
  /\ pc = "connect"
  /\ pc' = "end" /\ blocked' = blocked + ConnectWait
  /\ UNCHANGED <<faults, piece, polls, waiting_on_BE_response, got>>

\* Faulty variant: one write more than there are pieces.
Written_OneMore ==
  IF piece > Pieces
    THEN pc' = "check" /\ waiting_on_BE_response' = TRUE /\ UNCHANGED piece
    ELSE pc' = "send" /\ piece' = piece + 1 /\ UNCHANGED waiting_on_BE_response

\* The end of WiFiClient_write: on to the next piece, or to the wait.
Written ==
  IF piece = Pieces
    THEN pc' = "check" /\ waiting_on_BE_response' = TRUE /\ UNCHANGED piece
    ELSE pc' = "send" /\ piece' = piece + 1 /\ UNCHANGED waiting_on_BE_response

\* Faulty variant: a piece that was not acknowledged is written once more.
Unsent_Again == pc' = "send" /\ UNCHANGED <<piece, waiting_on_BE_response>>

\* WiFiClient_write when ServerDrv_sendData returned 0: nobody asks.
Unsent == Written

\* ServerDrv_sendData: the radio takes the piece or not, and says so or not.
SendData ==
  /\ pc = "send"
  /\ \E taken \in {TRUE} \cup (IF "refused" \in faults THEN {FALSE} ELSE {}),
       heard \in {TRUE} \cup (IF "lost" \in faults THEN {FALSE} ELSE {}) :
       /\ got' = IF taken THEN Append(got, piece) ELSE got
       /\ IF taken /\ heard
            THEN pc' = "confirm" /\ UNCHANGED <<piece, waiting_on_BE_response>>
            ELSE Unsent
  /\ polls' = 0
  /\ UNCHANGED <<faults, blocked>>

\* ServerDrv_checkDataSent hears that the piece went out.
DataSent ==
  /\ pc = "confirm"
  /\ Written
  /\ UNCHANGED <<faults, polls, got, blocked>>

\* Faulty variant: one poll more.
Exhausted_Late == polls' > TIMEOUT_DATA_SENT

\* The loop of ServerDrv_checkDataSent comes to its limit.
Exhausted == polls' = TIMEOUT_DATA_SENT

\* It hears that the piece did not go out yet, or nothing: 0.1 s to the next
\* poll, or the last of them.  A piece given up here is with the radio still.
NotSent ==
  /\ pc = "confirm"
  /\ polls' = polls + 1 /\ blocked' = blocked + 1
  /\ IF Exhausted THEN Written
     ELSE UNCHANGED <<pc, piece, waiting_on_BE_response>>
  /\ UNCHANGED <<faults, got>>

-----------------------------------------------------------------------------
(* checkBEResponse *)

\* The deadline has passed.  It was set in an earlier pass: the one that sets
\* it goes on to the check at once.
BETimeout ==
  /\ pc = "pass" /\ waiting_on_BE_response
  /\ pc' = "stop" /\ waiting_on_BE_response' = FALSE /\ polls' = 0
  /\ UNCHANGED <<faults, piece, got, blocked>>

\* A wait is looked at after the writes, and in each later pass.
AtCheck == pc = "check" \/ (pc = "pass" /\ waiting_on_BE_response)

\* The client is connected or has data; what there is is read.
StillConnected ==
  /\ AtCheck
  /\ pc' = "end"
  /\ UNCHANGED <<faults, piece, polls, waiting_on_BE_response, got, blocked>>

\* WiFiClient_connected forgets the socket of a client that is not, so that
\* WiFiClient_stop has nothing left to wait for.
Disconnected ==
  /\ AtCheck
  /\ pc' = "end" /\ waiting_on_BE_response' = FALSE
  /\ UNCHANGED <<faults, piece, polls, got, blocked>>

\* WiFiClient_stop: the status is CLOSED, or was lost, which counts the same.
Closed ==
  /\ pc = "stop"
  /\ pc' = "end"
  /\ UNCHANGED <<faults, piece, polls, waiting_on_BE_response, got, blocked>>

\* It is not yet: 0.1 s to the next poll, unless that was the last.
NotClosed ==
  /\ pc = "stop"
  /\ polls' = polls + 1
  /\ IF polls' < ClosePolls
       THEN blocked' = blocked + 1 /\ UNCHANGED pc
       ELSE pc' = "end" /\ UNCHANGED blocked
  /\ UNCHANGED <<faults, piece, waiting_on_BE_response, got>>

-----------------------------------------------------------------------------
\* The next pass: updateTimers charges the time and begins anew.
NewPass ==
  /\ pc = "end"
  /\ pc' = "pass" /\ blocked' = 0
  /\ UNCHANGED <<faults, piece, polls, waiting_on_BE_response, got>>

Next ==
  \/ StartClient \/ Connected \/ NotConnected
  \/ SendData \/ DataSent \/ NotSent
  \/ BETimeout \/ StillConnected \/ Disconnected \/ Closed \/ NotClosed
  \/ NewPass

Spec == Init /\ [][Next]_vars

-----------------------------------------------------------------------------
(* Properties. *)

\* What the back end gets is the request, perhaps with pieces missing, but none
\* twice and none out of order, whatever was lost; and when the wait for the
\* answer begins all of it, unless the radio refused a piece.  Missing
\* acknowledgements cost time, never a piece (WiFiClient_write is not retried).
SentAsWritten ==
  /\ \A i, j \in 1 .. Len(got) : i < j => got[i] < got[j]
  /\ waiting_on_BE_response /\ "refused" \notin faults => Len(got) = Pieces

\* The loops that wait inside a pass do not add up: the longest of the failed
\* connection, the writes of a request and the closing of a client bounds what
\* a pass can take.  elapsedMS and its 16 bits rest on that (millis.c).
PassBounded ==
  \/ blocked <= ConnectWait
  \/ blocked <= Pieces * TIMEOUT_DATA_SENT
  \/ blocked < ClosePolls

=============================================================================
