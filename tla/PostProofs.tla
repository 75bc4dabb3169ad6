------------------------------ MODULE PostProofs ------------------------------
(***************************************************************************)
(* Theorems about Post, for requests of any number of pieces and loops     *)
(* with any limits.                                                        *)
(***************************************************************************)
EXTENDS Post, Integers, TLAPS

-----------------------------------------------------------------------------
(* The inductive invariant. *)

\* A piece that waits for its confirmation has polls left.
PollsLeft == pc = "confirm" => polls < TIMEOUT_DATA_SENT

\* The time that a pass took, at each place in it: what the pieces before this
\* one may have cost, and the polls of this one.
TimeTaken ==
  /\ pc \in {"pass", "connect"} => blocked = 0
  /\ pc = "send" => blocked <= (piece - 1) * TIMEOUT_DATA_SENT
  /\ pc = "confirm" => blocked <= (piece - 1) * TIMEOUT_DATA_SENT + polls
  /\ pc = "check" => blocked <= Pieces * TIMEOUT_DATA_SENT
  /\ pc = "stop" => blocked = polls /\ polls < ClosePolls
  /\ pc = "end" => PassBounded

\* What the radio took comes before the piece that is written next.
Ordered ==
  /\ \A i, j \in 1 .. Len(got) : i < j => got[i] < got[j]
  /\ pc = "connect" => got = <<>> /\ piece = 1
  /\ pc = "send" => \A i \in 1 .. Len(got) : got[i] < piece
  /\ pc = "confirm" => \A i \in 1 .. Len(got) : got[i] <= piece

\* Unless pieces are refused, all before it were taken.
AllTaken ==
  "refused" \notin faults =>
    /\ pc = "send" => Len(got) = piece - 1
    /\ pc = "confirm" => Len(got) = piece
    /\ pc = "check" \/ waiting_on_BE_response => Len(got) = Pieces

\* While a request is written there is no wait.
NoWaitYet == pc \in {"connect", "send", "confirm"} => ~waiting_on_BE_response

IInv == TypeOK /\ PollsLeft /\ TimeTaken /\ Ordered /\ AllTaken /\ NoWaitYet

USE PostAssumption

\* Times one more: what a further piece may cost.
LEMMA OnePieceMore ==
  ASSUME NEW n \in Nat \ {0}, NEW m \in Nat
  PROVE  (n - 1) * m + m = n * m
  BY SMT

\* The cost of the pieces before a piece is within that of the whole request.
LEMMA WithinRequest ==
  ASSUME NEW n \in 1 .. Pieces
  PROVE  n * TIMEOUT_DATA_SENT <= Pieces * TIMEOUT_DATA_SENT
<1>1. (Pieces - n) * TIMEOUT_DATA_SENT >= 0
  BY SMT
<1>2. (Pieces - n) * TIMEOUT_DATA_SENT
        = Pieces * TIMEOUT_DATA_SENT - n * TIMEOUT_DATA_SENT
  BY SMT
<1>. QED
  BY <1>1, <1>2, SMT

-----------------------------------------------------------------------------
(* The steps. *)

LEMMA InvInit == Init => IInv
<1>1. Init => TimeTaken
  BY DEF Init, TimeTaken
<1>2. Init => TypeOK
  <2>1. 1 \in 1 .. Pieces /\ 0 \in 0 .. TIMEOUT_DATA_SENT + ClosePolls
    OBVIOUS
  <2>2. <<>> \in Seq(1 .. Pieces)
    OBVIOUS
  <2>3. Init => waiting_on_BE_response \in BOOLEAN
    BY Zenon DEF Init
  <2>4. Init => faults \subseteq Faults /\ blocked \in Nat
    BY DEF Init
  <2>5. Init => /\ piece \in 1 .. Pieces
                /\ polls \in 0 .. TIMEOUT_DATA_SENT + ClosePolls
                /\ got \in Seq(1 .. Pieces)
    BY <2>1, <2>2, Zenon DEF Init
  <2>. QED
    BY <2>3, <2>4, <2>5, Zenon DEF Init, TypeOK
<1>3. Init => PollsLeft /\ Ordered /\ AllTaken /\ NoWaitYet
  BY DEF Init, PollsLeft, Ordered, AllTaken, NoWaitYet
<1>. QED
  BY <1>1, <1>2, <1>3 DEF IInv

\* What it takes for a write to end well: Written is part of three actions.
LEMMA WriteEnds ==
  ASSUME TypeOK, Written, ~waiting_on_BE_response,
         faults' = faults,
         polls' \in 0 .. TIMEOUT_DATA_SENT + ClosePolls,
         got' \in Seq(1 .. Pieces),
         blocked' \in Nat, blocked' <= piece * TIMEOUT_DATA_SENT,
         \A i, j \in 1 .. Len(got') : i < j => got'[i] < got'[j],
         \A i \in 1 .. Len(got') : got'[i] <= piece,
         "refused" \notin faults => Len(got') = piece
  PROVE  IInv'
<1>1. CASE piece = Pieces
  <2>1. pc' = "check" /\ waiting_on_BE_response' = TRUE /\ piece' = piece
    BY <1>1 DEF Written
  <2>2. TypeOK'
    BY <2>1 DEF TypeOK
  <2>3. TimeTaken'
    BY <1>1, <2>1 DEF TimeTaken
  <2>4. Ordered'
    BY <2>1 DEF Ordered
  <2>5. PollsLeft' /\ AllTaken' /\ NoWaitYet'
    BY <1>1, <2>1 DEF PollsLeft, AllTaken, NoWaitYet
  <2>. QED
    BY <2>2, <2>3, <2>4, <2>5 DEF IInv
<1>2. CASE piece # Pieces
  <2>1. /\ pc' = "send" /\ piece' = piece + 1 /\ piece' \in 1 .. Pieces
        /\ waiting_on_BE_response' = FALSE
    BY <1>2 DEF Written, TypeOK
  <2>2. TypeOK'
    BY <2>1 DEF TypeOK
  <2>3. piece' - 1 = piece
    BY <2>1 DEF TypeOK
  <2>4. TimeTaken'
    BY <2>1, <2>3 DEF TimeTaken
  <2>5. \A i \in 1 .. Len(got') : got'[i] < piece'
    BY <2>1 DEF TypeOK
  <2>6. Ordered'
    BY <2>1, <2>5 DEF Ordered
  <2>7. PollsLeft' /\ AllTaken' /\ NoWaitYet'
    BY <2>1, <2>3 DEF PollsLeft, AllTaken, NoWaitYet
  <2>. QED
    BY <2>2, <2>4, <2>6, <2>7 DEF IInv
<1>. QED
  BY <1>1, <1>2

\* A piece more at the end of what the radio took.
LEMMA PieceTaken ==
  ASSUME TypeOK, Ordered, pc = "send"
  PROVE  LET more == Append(got, piece) IN
         /\ more \in Seq(1 .. Pieces) /\ Len(more) = Len(got) + 1
         /\ \A i, j \in 1 .. Len(more) : i < j => more[i] < more[j]
         /\ \A i \in 1 .. Len(more) : more[i] <= piece
<1> DEFINE more == Append(got, piece)
<1>1. /\ more \in Seq(1 .. Pieces) /\ Len(more) = Len(got) + 1
      /\ \A i \in 1 .. Len(got) : more[i] = got[i]
      /\ more[Len(got) + 1] = piece
  BY DEF TypeOK
<1>2. /\ Len(got) \in Nat /\ piece \in Nat
      /\ \A i \in 1 .. Len(got) : got[i] \in Nat /\ got[i] < piece
  BY DEF TypeOK, Ordered
<1>3. \A i \in 1 .. Len(more) : i \in 1 .. Len(got) \/ i = Len(got) + 1
  BY <1>1, <1>2
<1>4. \A i \in 1 .. Len(more) : more[i] <= piece
  BY <1>1, <1>2, <1>3
<1>5. ASSUME NEW i \in 1 .. Len(more), NEW j \in 1 .. Len(more), i < j
      PROVE  more[i] < more[j]
  <2>1. i \in 1 .. Len(got)
    BY <1>1, <1>2, <1>5
  <2>2. CASE j \in 1 .. Len(got)
    BY <1>1, <1>5, <2>1, <2>2 DEF Ordered
  <2>3. CASE j = Len(got) + 1
    BY <1>1, <1>2, <2>1, <2>3
  <2>. QED
    BY <1>3, <2>2, <2>3
<1>. QED
  BY <1>1, <1>4, <1>5

LEMMA SendDataStep == ASSUME IInv, SendData PROVE IInv'
<1>1. /\ TypeOK /\ Ordered /\ AllTaken /\ NoWaitYet /\ TimeTaken
      /\ pc = "send" /\ ~waiting_on_BE_response
      /\ piece \in 1 .. Pieces /\ got \in Seq(1 .. Pieces) /\ blocked \in Nat
  BY DEF IInv, SendData, NoWaitYet, TypeOK
<1>2. faults' = faults /\ polls' = 0 /\ blocked' = blocked
  BY DEF SendData
<1>3. blocked <= piece * TIMEOUT_DATA_SENT
  <2>1. blocked <= (piece - 1) * TIMEOUT_DATA_SENT
    BY <1>1 DEF TimeTaken
  <2>2. (piece - 1) * TIMEOUT_DATA_SENT + TIMEOUT_DATA_SENT
          = piece * TIMEOUT_DATA_SENT
    BY <1>1, OnePieceMore
  <2>3. /\ (piece - 1) * TIMEOUT_DATA_SENT \in Int
        /\ piece * TIMEOUT_DATA_SENT \in Int
    BY <1>1
  <2>. QED
    BY <1>1, <2>1, <2>2, <2>3
<1>4. CASE got' = Append(got, piece)
  <2>1. /\ got' \in Seq(1 .. Pieces) /\ Len(got') = Len(got) + 1
        /\ \A i, j \in 1 .. Len(got') : i < j => got'[i] < got'[j]
        /\ \A i \in 1 .. Len(got') : got'[i] <= piece
    BY <1>1, <1>4, PieceTaken
  <2>2. "refused" \notin faults => Len(got') = piece
    BY <1>1, <2>1 DEF AllTaken
  <2>3. CASE Written
    BY <1>1, <1>2, <1>3, <2>1, <2>2, <2>3, WriteEnds
  <2>4. CASE pc' = "confirm" /\ UNCHANGED <<piece, waiting_on_BE_response>>
    <3>1. TypeOK'
      BY <1>1, <1>2, <2>1, <2>4 DEF TypeOK
    <3>2. TimeTaken'
      BY <1>1, <1>2, <2>4 DEF TimeTaken
    <3>3. PollsLeft' /\ NoWaitYet'
      BY <1>1, <1>2, <2>4 DEF PollsLeft, NoWaitYet
    <3>4. Ordered'
      BY <2>1, <2>4 DEF Ordered
    <3>5. AllTaken'
      BY <1>1, <1>2, <2>2, <2>4 DEF AllTaken
    <3>. QED
      BY <3>1, <3>2, <3>3, <3>4, <3>5 DEF IInv
  <2>. QED
    BY <2>3, <2>4 DEF SendData, Unsent
<1>5. CASE got' = got /\ "refused" \in faults /\ Written
  <2>1. /\ \A i, j \in 1 .. Len(got') : i < j => got'[i] < got'[j]
        /\ \A i \in 1 .. Len(got') : got'[i] <= piece
    BY <1>1, <1>5 DEF Ordered
  <2>. QED
    BY <1>1, <1>2, <1>3, <1>5, <2>1, WriteEnds
<1>. QED
  BY <1>4, <1>5 DEF SendData, Unsent

\* What is known while a piece waits for its confirmation.
LEMMA Confirming ==
  ASSUME IInv, pc = "confirm"
  PROVE  /\ TypeOK /\ ~waiting_on_BE_response
         /\ polls \in Nat /\ polls < TIMEOUT_DATA_SENT
         /\ blocked + (TIMEOUT_DATA_SENT - polls) <= piece * TIMEOUT_DATA_SENT
         /\ \A i, j \in 1 .. Len(got) : i < j => got[i] < got[j]
         /\ \A i \in 1 .. Len(got) : got[i] <= piece
         /\ "refused" \notin faults => Len(got) = piece
<1>1. /\ TypeOK /\ polls \in Nat /\ blocked \in Nat /\ piece \in 1 .. Pieces
  BY DEF IInv, TypeOK
<1>2. ~waiting_on_BE_response /\ polls < TIMEOUT_DATA_SENT
  BY DEF IInv, NoWaitYet, PollsLeft
<1>3. blocked + (TIMEOUT_DATA_SENT - polls) <= piece * TIMEOUT_DATA_SENT
  <2>1. blocked <= (piece - 1) * TIMEOUT_DATA_SENT + polls
    BY DEF IInv, TimeTaken
  <2>2. (piece - 1) * TIMEOUT_DATA_SENT + TIMEOUT_DATA_SENT
          = piece * TIMEOUT_DATA_SENT
    BY <1>1, OnePieceMore
  <2>3. /\ (piece - 1) * TIMEOUT_DATA_SENT \in Int
        /\ piece * TIMEOUT_DATA_SENT \in Int
    BY <1>1
  <2>. QED
    BY <1>1, <2>1, <2>2, <2>3
<1>. QED
  BY <1>1, <1>2, <1>3 DEF IInv, Ordered, AllTaken

LEMMA DataSentStep == ASSUME IInv, DataSent PROVE IInv'
<1>1. pc = "confirm" /\ Written /\ UNCHANGED <<faults, polls, got, blocked>>
  BY DEF DataSent
<1>2. /\ TypeOK /\ polls \in 0 .. TIMEOUT_DATA_SENT + ClosePolls
      /\ got \in Seq(1 .. Pieces) /\ blocked \in Nat /\ piece \in 1 .. Pieces
  BY DEF IInv, TypeOK
<1>3. blocked <= piece * TIMEOUT_DATA_SENT
  BY <1>1, <1>2, Confirming
<1>. QED
  BY <1>1, <1>2, <1>3, Confirming, WriteEnds

LEMMA NotSentStep == ASSUME IInv, NotSent PROVE IInv'
<1>1. /\ pc = "confirm" /\ polls' = polls + 1 /\ blocked' = blocked + 1
      /\ faults' = faults /\ got' = got
  BY DEF NotSent
<1>2. /\ TypeOK /\ got \in Seq(1 .. Pieces) /\ blocked \in Nat
      /\ piece \in 1 .. Pieces
      /\ polls \in Nat /\ polls < TIMEOUT_DATA_SENT
      /\ polls' \in 0 .. TIMEOUT_DATA_SENT + ClosePolls
  BY <1>1, Confirming DEF IInv, TypeOK
<1>3. CASE Exhausted
  <2>1. Written
    BY <1>3 DEF NotSent
  <2>2. blocked' \in Nat /\ blocked' <= piece * TIMEOUT_DATA_SENT
    <3>1. blocked + (TIMEOUT_DATA_SENT - polls) <= piece * TIMEOUT_DATA_SENT
      BY <1>1, Confirming
    <3>2. TIMEOUT_DATA_SENT - polls = 1
      BY <1>1, <1>2, <1>3 DEF Exhausted
    <3>. QED
      BY <1>1, <1>2, <3>1, <3>2
  <2>. QED
    BY <1>1, <1>2, <2>1, <2>2, Confirming, WriteEnds
<1>4. CASE ~Exhausted
  <2>1. UNCHANGED <<pc, piece, waiting_on_BE_response>>
    BY <1>4 DEF NotSent
  <2>2. TypeOK'
    BY <1>1, <1>2, <2>1 DEF TypeOK
  <2>3. TimeTaken'
    <3>1. blocked <= (piece - 1) * TIMEOUT_DATA_SENT + polls
      BY <1>1 DEF IInv, TimeTaken
    <3>2. (piece - 1) * TIMEOUT_DATA_SENT \in Int
      BY <1>2
    <3>3. blocked' <= (piece' - 1) * TIMEOUT_DATA_SENT + polls'
      BY <1>1, <1>2, <2>1, <3>1, <3>2
    <3>. QED
      BY <1>1, <2>1, <3>3 DEF TimeTaken
  <2>4. PollsLeft'
    BY <1>1, <1>2, <1>4 DEF PollsLeft, Exhausted
  <2>5. Ordered' /\ AllTaken' /\ NoWaitYet'
    BY <1>1, <2>1 DEF IInv, Ordered, AllTaken, NoWaitYet
  <2>. QED
    BY <2>2, <2>3, <2>4, <2>5 DEF IInv
<1>. QED
  BY <1>3, <1>4

\* The other actions write nothing.
LEMMA OtherSteps ==
  ASSUME IInv,
         \/ StartClient \/ Connected \/ NotConnected
         \/ BETimeout \/ StillConnected \/ Disconnected \/ Closed \/ NotClosed
         \/ NewPass \/ UNCHANGED vars
  PROVE  IInv'
<1> USE DEF IInv, TypeOK, PollsLeft, Ordered, AllTaken, NoWaitYet
<1>1. CASE StartClient
  BY <1>1 DEF StartClient, TimeTaken
<1>2. CASE Connected
  <2>1. TimeTaken'
    BY <1>2 DEF Connected, TimeTaken
  <2>. QED
    BY <1>2, <2>1 DEF Connected
<1>3. CASE NotConnected
  <2>1. TimeTaken'
    BY <1>3 DEF NotConnected, TimeTaken, PassBounded
  <2>. QED
    BY <1>3, <2>1 DEF NotConnected
<1>4. CASE BETimeout
  <2>1. TimeTaken'
    BY <1>4 DEF BETimeout, TimeTaken
  <2>2. 0 \in 0 .. TIMEOUT_DATA_SENT + ClosePolls
    OBVIOUS
  <2>. QED
    BY <1>4, <2>1, <2>2 DEF BETimeout
<1>5. CASE StillConnected
  <2>1. TimeTaken'
    BY <1>5 DEF StillConnected, AtCheck, TimeTaken, PassBounded
  <2>. QED
    BY <1>5, <2>1 DEF StillConnected, AtCheck
<1>6. CASE Disconnected
  <2>1. TimeTaken'
    BY <1>6 DEF Disconnected, AtCheck, TimeTaken, PassBounded
  <2>. QED
    BY <1>6, <2>1 DEF Disconnected, AtCheck
<1>7. CASE Closed
  <2>1. TimeTaken'
    BY <1>7 DEF Closed, TimeTaken, PassBounded
  <2>. QED
    BY <1>7, <2>1 DEF Closed
<1>8. CASE NotClosed
  <2>1. TimeTaken'
    BY <1>8 DEF NotClosed, TimeTaken, PassBounded
  <2>. QED
    BY <1>8, <2>1 DEF NotClosed, TimeTaken
<1>9. CASE NewPass
  BY <1>9 DEF NewPass, TimeTaken
<1>10. CASE UNCHANGED vars
  <2>1. TimeTaken'
    BY <1>10 DEF vars, TimeTaken, PassBounded
  <2>. QED
    BY <1>10, <2>1 DEF vars
<1>. QED
  BY <1>1, <1>2, <1>3, <1>4, <1>5, <1>6, <1>7, <1>8, <1>9, <1>10

LEMMA InvStep == IInv /\ [Next]_vars => IInv'
BY SendDataStep, DataSentStep, NotSentStep, OtherSteps DEF Next

LEMMA InvAlways == Spec => []IInv
BY InvInit, InvStep, PTL DEF Spec

-----------------------------------------------------------------------------
(* The theorems. *)

\* The variables of Post keep to their types: no write beyond the last piece
\* and no poll beyond the limits.
THEOREM TypeCorrect == Spec => []TypeOK
<1>1. IInv => TypeOK
  BY DEF IInv
<1>. QED
  BY <1>1, InvAlways, PTL

\* The back end gets each piece at most once and in order, and all of them
\* unless the radio refused one, whatever replies remoteSync did not hear.
THEOREM RequestSentAsWritten == Spec => []SentAsWritten
<1>1. IInv => SentAsWritten
  BY DEF IInv, Ordered, AllTaken, SentAsWritten
<1>. QED
  BY <1>1, InvAlways, PTL

\* However long the radio keeps silent, the loops of one pass take no longer
\* than the longest of them: elapsedMS does not lose time to them.
THEOREM PassesBounded == Spec => []PassBounded
<1>1. IInv => PassBounded
  <2>1. ASSUME IInv PROVE PassBounded
    <3>1. /\ TypeOK /\ TimeTaken /\ PollsLeft /\ blocked \in Nat
          /\ polls \in Nat /\ piece \in 1 .. Pieces
      BY <2>1 DEF IInv, TypeOK
    <3>2. piece * TIMEOUT_DATA_SENT <= Pieces * TIMEOUT_DATA_SENT
      BY <3>1, WithinRequest
    <3>3. (piece - 1) * TIMEOUT_DATA_SENT + TIMEOUT_DATA_SENT
            = piece * TIMEOUT_DATA_SENT
      BY <3>1, OnePieceMore
    <3>4. /\ (piece - 1) * TIMEOUT_DATA_SENT \in Int
          /\ piece * TIMEOUT_DATA_SENT \in Int
          /\ Pieces * TIMEOUT_DATA_SENT \in Int
      BY <3>1
    <3>5. CASE pc = "send"
      BY <3>1, <3>2, <3>3, <3>4, <3>5 DEF TimeTaken, PassBounded
    <3>6. CASE pc = "confirm"
      BY <3>1, <3>2, <3>3, <3>4, <3>6 DEF TimeTaken, PollsLeft, PassBounded
    <3>7. CASE pc \notin {"send", "confirm"}
      BY <3>1, <3>4, <3>7 DEF TypeOK, TimeTaken, PassBounded
    <3>. QED
      BY <3>5, <3>6, <3>7
  <2>. QED
    BY <2>1
<1>. QED
  BY <1>1, InvAlways, PTL

=============================================================================
