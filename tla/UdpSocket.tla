------------------------------ MODULE UdpSocket ------------------------------
(***************************************************************************)
(* One request for the time, byte by byte: getTime and checkNtpResponse of *)
(* Remote.c over WiFiUdp.c, WiFiSocketBuffer.c and the radio.  Module      *)
(* Connectivity takes a datagram for a thing that is there or not; here it *)
(* has a length and bytes, which lie in three places: in the radio, in the *)
(* buffer on the heap, and, as the number `_parsed`, in the head of        *)
(* WiFiUdp.c.  What is hard is that the three may disagree: `_parsed`      *)
(* outlives the socket it was counted for.                                 *)
(*                                                                         *)
(* What may go wrong on the way is a variable, chosen at the start, so     *)
(* that a property can say how much trouble it stands.                     *)
(***************************************************************************)
EXTENDS Integers, Sequences

CONSTANTS
  NTP_PACKET_SIZE,           \* 48 in the code
  WIFI_SOCKET_BUFFER_SIZE,   \* 1500 in the code
  MaxRequests,               \* bound: requests sent
  MaxQueue                   \* bound: unread datagrams in the radio

ASSUME SizeAssumption ==
  /\ NTP_PACKET_SIZE \in Nat \ {0, 1}
  /\ WIFI_SOCKET_BUFFER_SIZE \in Nat /\ WIFI_SOCKET_BUFFER_SIZE > NTP_PACKET_SIZE
  /\ MaxRequests \in Nat /\ MaxQueue \in Nat

(* What may go wrong: a reply of the radio gets lost on the bus; the time
   server sends less than a packet, or more; and other users of the radio take
   and free its sockets at any time. *)
Faults == {"lossy", "short", "long", "busy"}

VARIABLES
  faults,    \* those that may happen in this behaviour
  pc,        \* where the request stands
  late,      \* millis() >= ntp_response_end_time
  clock,     \* the byte that the clock was last set from
  sock,      \* _sock names a socket
  _parsed,
  buf,       \* the bytes of _buffers[_sock] from head on
  free,      \* the radio has a free socket
  dgrams,    \* the datagrams that wait in the radio
  requests   \* requests sent so far

vars == <<faults, pc, late, clock, sock, _parsed, buf, free, dgrams, requests>>

\* A byte is known by the request it answers and its place in the datagram.
Bytes     == Nat \X Nat
Garbage   == <<0, 0>>
TimeField == NTP_PACKET_SIZE     \* the time stamp: the end of the packet

Datagram(r, length) == [i \in 1 .. length |-> <<r, i>>]

\* The lengths that the answers of the time server have.
Lengths ==
  {NTP_PACKET_SIZE} \cup (IF "short" \in faults THEN {NTP_PACKET_SIZE - 1} ELSE {})
                    \cup (IF "long" \in faults THEN {NTP_PACKET_SIZE + 1} ELSE {})

TypeOK ==
  /\ faults \subseteq Faults
  /\ pc \in {"idle", "beginPacket", "parse", "read", "giveUp"}
  /\ late \in BOOLEAN
  /\ clock \in Bytes
  /\ sock \in BOOLEAN /\ free \in BOOLEAN
  /\ _parsed \in -NTP_PACKET_SIZE .. NTP_PACKET_SIZE + 1
  /\ buf \in Seq(Bytes) /\ Len(buf) <= WIFI_SOCKET_BUFFER_SIZE
  /\ dgrams \in Seq(Seq(Bytes))
  /\ requests \in Nat

\* The clock that was never set counts as set from a time field of request 0.
Init ==
  /\ faults \in SUBSET Faults
  /\ pc = "idle" /\ late = FALSE /\ clock = <<0, TimeField>>
  /\ sock = FALSE /\ _parsed = 0 /\ buf = <<>>
  /\ free \in IF "busy" \in faults THEN BOOLEAN ELSE {TRUE}
  /\ dgrams = <<>> /\ requests = 0

-----------------------------------------------------------------------------
(* The socket layer. *)

\* ServerDrv_getSocket: the radio has one to offer, and says so.
Offered == IF "lossy" \in faults THEN {free, FALSE} ELSE {free}

\* Faulty variant: the buffer is left for the next user of the socket.
StopUDP_KeepsBuffer(b) == sock' = FALSE /\ dgrams' = <<>> /\ buf' = b

\* UDP_stop, when the buffer holds b.
StopUDP(b) == sock' = FALSE /\ buf' = <<>> /\ dgrams' = <<>>

\* Faulty variant: more is fetched behind what the buffer still holds.
Available_Appends ==
  IF dgrams = <<>> THEN {<<buf, dgrams>>} ELSE {<<buf \o Head(dgrams), Tail(dgrams)>>}

\* What the buffer and the radio may hold after WiFiSocketBuffer_available: an
\* empty buffer fetches the next datagram, and a lost reply passes for a buffer
\* full of data.
Available ==
  IF buf # <<>> THEN {<<buf, dgrams>>}
  ELSE LET head == IF dgrams = <<>> THEN <<>> ELSE Head(dgrams)
           rest == IF dgrams = <<>> THEN <<>> ELSE Tail(dgrams)
       IN {<<head, rest>>} \cup
          IF "lossy" \notin faults THEN {}
          ELSE {[i \in 1 .. WIFI_SOCKET_BUFFER_SIZE |-> Garbage]} \X {dgrams, rest}

\* The number of bytes that WiFiSocketBuffer_read returns for a buffer b.
Result(b, length) == IF Len(b) < length THEN Len(b) ELSE length

\* What is left of b when n bytes of it were copied.
Rest(b, n) == SubSeq(b, n + 1, Len(b))

\* Faulty variant: the count of the last socket goes on counting.
BeginUDP_KeepsCount(got) == sock' = got /\ UNCHANGED _parsed

\* UDP_begin gets a socket or not; a new one starts with no count.
BeginUDP(got) ==
  /\ sock' = got
  /\ _parsed' = IF got THEN 0 ELSE _parsed

\* sendNTPpacket, UDP_begin.  Between two requests there is no socket that it
\* would have to close.
Begin ==
  /\ pc = "idle" /\ requests < MaxRequests
  /\ pc' = "beginPacket"
  /\ \E got \in Offered : BeginUDP(got)
  /\ UNCHANGED <<faults, late, clock, buf, free, dgrams, requests>>

\* sendNTPpacket, UDP_beginPacketIP: gets a socket for itself if there is none
\* yet, and then sends the request.
BeginPacket ==
  /\ pc = "beginPacket"
  /\ sock' \in IF sock THEN {TRUE} ELSE Offered
  /\ IF sock'
       THEN pc' = "parse" /\ requests' = requests + 1 /\ late' = FALSE
       ELSE pc' = "idle" /\ UNCHANGED <<requests, late>>
  /\ UNCHANGED <<faults, clock, _parsed, buf, free, dgrams>>

\* UDP_parsePacket while `_parsed` is not 0: throws one byte away.  From a
\* negative count the loop comes to an end after 2^32 rounds: never.
Discard ==
  /\ pc = "parse" /\ _parsed # 0
  /\ \E a \in Available :
       /\ buf' = Rest(a[1], Result(a[1], 1))
       /\ dgrams' = a[2]
  /\ _parsed' = IF _parsed > 0 THEN _parsed - 1 ELSE _parsed
  /\ UNCHANGED <<faults, pc, late, clock, sock, free, requests>>

\* Faulty variant: the deadline comes first, as it does in checkBEResponse.
Deciding_DeadlineFirst(avail) ==
  IF late THEN "giveUp" ELSE IF avail > 0 THEN "read" ELSE "parse"

\* Where checkNtpResponse goes on when the radio reports `avail` bytes.
Deciding(avail) ==
  IF avail > 0 THEN "read" ELSE IF late THEN "giveUp" ELSE "parse"

\* UDP_parsePacket asks the radio for the length of the next datagram.
Parse ==
  /\ pc = "parse" /\ _parsed = 0
  /\ _parsed' \in {IF dgrams = <<>> THEN 0 ELSE Len(Head(dgrams))} \cup
                  (IF "lossy" \in faults THEN {0} ELSE {})
  /\ pc' = Deciding(_parsed')
  /\ UNCHANGED <<faults, late, clock, sock, buf, free, dgrams, requests>>

\* checkNtpResponse with a datagram: whatever of the packet UDP_read did not
\* fill is what the stack held.
Read ==
  /\ pc = "read"
  /\ \E a \in Available :
       LET n == Result(a[1], NTP_PACKET_SIZE)
       IN /\ clock' = IF n >= TimeField THEN a[1][TimeField] ELSE Garbage
          /\ _parsed' = _parsed - n
          /\ StopUDP(Rest(a[1], n))
  /\ pc' = "idle"
  /\ UNCHANGED <<faults, late, free, requests>>

\* checkNtpResponse when no answer came in time.
GiveUp ==
  /\ pc = "giveUp"
  /\ StopUDP(buf)
  /\ pc' = "idle"
  /\ UNCHANGED <<faults, late, clock, _parsed, free, requests>>

Superloop == Begin \/ BeginPacket \/ Discard \/ Parse \/ Read \/ GiveUp

-----------------------------------------------------------------------------
(* The world outside. *)

\* An answer to this request or, late or once more, to an earlier one.
DatagramArrives ==
  /\ sock /\ pc \in {"parse", "read", "giveUp"} /\ Len(dgrams) < MaxQueue
  /\ \E r \in 1 .. requests, length \in Lengths :
       dgrams' = Append(dgrams, Datagram(r, length))
  /\ UNCHANGED <<faults, pc, late, clock, sock, _parsed, buf, free, requests>>

\* SysTick_Handler reaches the deadline.
Deadline ==
  /\ pc = "parse" /\ ~late
  /\ late' = TRUE
  /\ UNCHANGED <<faults, pc, clock, sock, _parsed, buf, free, dgrams, requests>>

SocketsChange ==
  /\ "busy" \in faults
  /\ free' = ~free
  /\ UNCHANGED <<faults, pc, late, clock, sock, _parsed, buf, dgrams, requests>>

Next == Superloop \/ DatagramArrives \/ Deadline \/ SocketsChange

Spec == Init /\ [][Next]_vars

\* The processor goes on, and so does its clock.
FairSpec == Spec /\ WF_vars(Superloop) /\ WF_vars(Deadline)

-----------------------------------------------------------------------------
(* Properties. *)

\* The faults that can set the clock to nonsense: a short or unread datagram
\* leaves the packet buffer unset (Remote.c looks at neither result), and a
\* long one, with sockets coming and going, shifts the next.
Misleading ==
  \/ "lossy" \in faults \/ "short" \in faults
  \/ {"long", "busy"} \subseteq faults

\* Barring those, the clock is only ever set from a time stamp: late and
\* repeated answers, refused sockets, or a long datagram whose tail is never
\* read do not make checkNtpResponse mix two datagrams or shift one.
ClockFromTimeStamp == Misleading \/ clock[2] = TimeField

\* The faults that can make UDP_read take more bytes than were counted, and
\* then fail the first of the two ServerDrv_getSocket calls, so that nothing
\* resets the negative count.
Hanging ==
  /\ "short" \in faults
  /\ "lossy" \in faults \/ {"long", "busy"} \subseteq faults

\* Barring those, each request ends, answered or given up, so that the
\* super-loop never stays in the loop of UDP_parsePacket.
RequestEnds == pc = "parse" /\ ~Hanging ~> pc = "idle"

\* A request is given up only when no byte of an answer has reached the heap:
\* none is fetched and then forgotten, unless a byte count is stale or a reply
\* got lost.  An answer in the radio is taken even after the deadline.
AnswerTaken ==
  [][Misleading \/ (pc = "parse" /\ pc' = "giveUp" => buf = <<>> /\ dgrams = <<>>)]_vars

=============================================================================
