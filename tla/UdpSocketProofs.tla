--------------------------- MODULE UdpSocketProofs ---------------------------
(***************************************************************************)
(* Machine-checked proofs about module UdpSocket, for packets and buffers  *)
(* of every size, any number of requests and any length of the queue.      *)
(***************************************************************************)
EXTENDS UdpSocket, SequenceTheorems, TLAPS

N == NTP_PACKET_SIZE

\* What the time server may send in this behaviour.
Sent == {Datagram(r, length) : r \in Nat, length \in Lengths}

-----------------------------------------------------------------------------
(* Datagrams. *)

LEMMA LengthsType ==
  /\ N \in Nat /\ N >= 2
  /\ Lengths \subseteq {N - 1, N, N + 1}
  /\ "short" \notin faults => Lengths \subseteq {N, N + 1}
  /\ {"short", "long"} \cap faults = {} => Lengths = {N}
BY SizeAssumption DEF N, Lengths

LEMMA DatagramType ==
  ASSUME NEW r \in Nat, NEW length \in Nat
  PROVE  /\ Datagram(r, length) \in Seq(Bytes)
         /\ Len(Datagram(r, length)) = length
         /\ \A i \in 1 .. length : Datagram(r, length)[i] = <<r, i>>
<1>1. Datagram(r, length) = [i \in 1 .. length |-> <<r, i>>]
  BY DEF Datagram
<1>2. \A i \in 1 .. length : <<r, i>> \in Bytes
  BY DEF Bytes
<1>. QED
  BY <1>1, <1>2, IsASeq

\* A datagram that was sent has a length that was sent, and its bytes are
\* numbered.
LEMMA SentType ==
  ASSUME NEW d \in Sent
  PROVE  /\ d \in Seq(Bytes) /\ Len(d) \in Lengths
         /\ \A i \in 1 .. Len(d) : d[i][2] = i
<1>1. PICK r \in Nat, length \in Lengths : d = Datagram(r, length)
  BY DEF Sent
<1>2. length \in Nat
  BY LengthsType
<1>. QED
  BY <1>1, <1>2, DatagramType

LEMMA FaultsKept ==
  ASSUME [Next]_vars
  PROVE  faults' = faults /\ Lengths' = Lengths /\ Sent' = Sent
<1>1. faults' = faults
  BY DEF Next, Superloop, Begin, BeginPacket, Discard, Parse, Read, GiveUp, DatagramArrives,
     Deadline, SocketsChange, vars
<1>2. Lengths' = Lengths
  BY <1>1 DEF Lengths
<1>. QED
  BY <1>1, <1>2 DEF Sent

-----------------------------------------------------------------------------
(* The socket layer. *)

\* A buffer full of what is no data.
Noise == [i \in 1 .. WIFI_SOCKET_BUFFER_SIZE |-> Garbage]

\* Where what WiFiSocketBuffer_available fetches comes from.
LEMMA AvailableCases ==
  ASSUME NEW a \in Available
  PROVE  \/ a = <<buf, dgrams>>
         \/ dgrams # <<>> /\ a = <<Head(dgrams), Tail(dgrams)>> /\ buf = <<>>
         \/ dgrams = <<>> /\ a = <<<<>>, dgrams>> /\ buf = <<>>
         \/ a = <<Noise, dgrams>> /\ "lossy" \in faults /\ buf = <<>>
         \/ dgrams # <<>> /\ a = <<Noise, Tail(dgrams)>> /\ "lossy" \in faults /\ buf = <<>>
<1>1. CASE buf # <<>>
  BY <1>1 DEF Available
<1>2. CASE buf = <<>> /\ dgrams = <<>>
  BY <1>2 DEF Available, Noise
<1>3. CASE buf = <<>> /\ dgrams # <<>>
  BY <1>3 DEF Available, Noise
<1>. QED
  BY <1>1, <1>2, <1>3

LEMMA NoiseType ==
  /\ Noise \in Seq(Bytes) /\ Len(Noise) = WIFI_SOCKET_BUFFER_SIZE
<1>1. WIFI_SOCKET_BUFFER_SIZE \in Nat /\ Garbage \in Bytes
  BY SizeAssumption DEF Garbage, Bytes
<1>. QED
  BY <1>1, IsASeq DEF Noise

\* The queue of the radio holds what was sent, and nothing else.
LEMMA QueueStep ==
  ASSUME dgrams \in Seq(Sent), requests \in Nat, [Next]_vars
  PROVE  dgrams' \in Seq(Sent)
<1>1. <<>> \in Seq(Sent) /\ (dgrams # <<>> => Tail(dgrams) \in Seq(Sent))
  BY EmptySeq, HeadTailProperties
<1>2. ASSUME DatagramArrives PROVE dgrams' \in Seq(Sent)
  <2>1. PICK r \in 1 .. requests, length \in Lengths :
          dgrams' = Append(dgrams, Datagram(r, length))
    BY <1>2 DEF DatagramArrives
  <2>2. Datagram(r, length) \in Sent
    BY DEF Sent
  <2>. QED
    BY <2>1, <2>2, AppendProperties
<1>3. ASSUME Discard PROVE dgrams' \in Seq(Sent)
  <2>1. PICK a \in Available : dgrams' = a[2]
    BY <1>3 DEF Discard
  <2>2. a[2] = dgrams \/ (dgrams # <<>> /\ a[2] = Tail(dgrams))
    BY AvailableCases
  <2>. QED
    BY <1>1, <2>1, <2>2
<1>4. ASSUME Read \/ GiveUp PROVE dgrams' \in Seq(Sent)
  BY <1>1, <1>4 DEF Read, GiveUp, StopUDP
<1>5. ASSUME Begin \/ BeginPacket \/ Parse \/ Deadline \/ SocketsChange \/ UNCHANGED vars
      PROVE  dgrams' \in Seq(Sent)
  BY <1>5 DEF Begin, BeginPacket, Parse, Deadline, SocketsChange, vars
<1>. QED
  BY <1>2, <1>3, <1>4, <1>5 DEF Next, Superloop

-----------------------------------------------------------------------------
(* Type correctness. *)

\* What TypeOK says, and that the queue holds what was sent.
TypeInv ==
  /\ TypeOK
  /\ dgrams \in Seq(Sent)
  /\ pc = "read" => _parsed > 0

\* A whole datagram fits the buffer.
LEMMA FetchedType ==
  ASSUME TypeInv, NEW a \in Available
  PROVE  a[1] \in Seq(Bytes) /\ Len(a[1]) <= WIFI_SOCKET_BUFFER_SIZE
<1>1. CASE a[1] = buf
  BY <1>1 DEF TypeInv, TypeOK
<1>2. CASE dgrams # <<>> /\ a[1] = Head(dgrams)
  <2>1. a[1] \in Sent
    BY <1>2, HeadTailProperties DEF TypeInv
  <2>2. a[1] \in Seq(Bytes) /\ Len(a[1]) \in Lengths
    BY <2>1, SentType
  <2>. QED
    BY <2>2, LengthsType, SizeAssumption DEF N
<1>3. CASE a[1] = <<>>
  BY <1>3, SizeAssumption, EmptySeq
<1>4. CASE a[1] = Noise
  BY <1>4, NoiseType, SizeAssumption
<1>. QED
  BY <1>1, <1>2, <1>3, <1>4, AvailableCases

LEMMA ResultType ==
  ASSUME NEW b \in Seq(Bytes), NEW length \in Nat
  PROVE  Result(b, length) \in 0 .. Len(b) /\ Result(b, length) <= length
BY LenProperties DEF Result

LEMMA RestType ==
  ASSUME NEW b \in Seq(Bytes), NEW n \in 0 .. Len(b)
  PROVE  Rest(b, n) \in Seq(Bytes) /\ Len(Rest(b, n)) <= Len(b)
<1>1. Len(b) \in Nat /\ \A i \in n + 1 .. Len(b) : b[i] \in Bytes
  BY LenProperties, ElementOfSeq
<1>. QED
  BY <1>1, SubSeqProperties DEF Rest

\* The part of TypeOK that is about the radio and the buffer, and the rest.
DataTypeOK ==
  /\ _parsed \in -N .. N + 1
  /\ buf \in Seq(Bytes) /\ Len(buf) <= WIFI_SOCKET_BUFFER_SIZE
  /\ clock \in Bytes
  /\ pc = "read" => _parsed > 0

FlowTypeOK ==
  /\ faults \subseteq Faults
  /\ pc \in {"idle", "beginPacket", "parse", "read", "giveUp"}
  /\ late \in BOOLEAN /\ sock \in BOOLEAN /\ free \in BOOLEAN
  /\ requests \in Nat

LEMMA TypeJoin ==
  ASSUME DataTypeOK', FlowTypeOK', (dgrams \in Seq(Sent))'
  PROVE  TypeInv'
<1>1. \A d \in Sent' : d \in Seq(Bytes)
  <2>1. \A r \in Nat, length \in Lengths' : Datagram(r, length) \in Seq(Bytes)
    <3>1. Lengths' \subseteq Nat
      BY SizeAssumption DEF Lengths
    <3>. QED
      BY <3>1, DatagramType
  <2>. QED
    BY <2>1 DEF Sent
<1>2. dgrams' \in Seq(Seq(Bytes))
  BY <1>1, LenProperties, IsASeq
<1>. QED
  BY <1>2 DEF TypeInv, TypeOK, DataTypeOK, FlowTypeOK, N

LEMMA FlowStep ==
  ASSUME FlowTypeOK, [Next]_vars
  PROVE  FlowTypeOK'
<1>. USE DEF FlowTypeOK
<1>0. Offered \subseteq BOOLEAN
  BY DEF Offered
<1>1. ASSUME Begin PROVE FlowTypeOK'
  BY <1>0, <1>1 DEF Begin, BeginUDP
<1>2. ASSUME BeginPacket PROVE FlowTypeOK'
  <2>1. sock' \in BOOLEAN /\ UNCHANGED <<faults, free>>
    BY <1>0, <1>2 DEF BeginPacket
  <2>2. \/ pc' = "parse" /\ requests' = requests + 1 /\ late' = FALSE
        \/ pc' = "idle" /\ requests' = requests /\ late' = late
    BY <1>2, Zenon DEF BeginPacket
  <2>3. late' \in BOOLEAN /\ pc' \in {"idle", "parse"}
    BY <2>2, Zenon
  <2>4. requests' \in Nat
    <3>1. requests' \in {requests, requests + 1}
      BY <2>2, Zenon
    <3>. QED
      BY <3>1
  <2>. QED
    BY <2>1, <2>3, <2>4
<1>3. ASSUME Discard PROVE FlowTypeOK'
  BY <1>3 DEF Discard
<1>4. ASSUME Parse PROVE FlowTypeOK'
  BY <1>4 DEF Parse, Deciding
<1>5. ASSUME Read \/ GiveUp PROVE FlowTypeOK'
  BY <1>5 DEF Read, GiveUp, StopUDP
<1>6. ASSUME DatagramArrives \/ Deadline \/ SocketsChange \/ UNCHANGED vars PROVE FlowTypeOK'
  BY <1>6 DEF DatagramArrives, Deadline, SocketsChange, vars
<1>. QED
  BY <1>1, <1>2, <1>3, <1>4, <1>5, <1>6 DEF Next, Superloop

LEMMA DataStep ==
  ASSUME TypeInv, [Next]_vars
  PROVE  DataTypeOK'
<1>. /\ N \in Nat /\ N >= 2 /\ NTP_PACKET_SIZE = N
  BY LengthsType DEF N
<1>. /\ DataTypeOK /\ pc \in {"idle", "beginPacket", "parse", "read", "giveUp"}
     /\ dgrams \in Seq(Sent)
  BY DEF TypeInv, TypeOK, DataTypeOK, N
<1>1. ASSUME Begin PROVE DataTypeOK'
  BY <1>1 DEF Begin, BeginUDP, DataTypeOK
<1>2. ASSUME BeginPacket PROVE DataTypeOK'
  BY <1>2 DEF BeginPacket, DataTypeOK
<1>3. ASSUME Discard PROVE DataTypeOK'
  <2>1. PICK a \in Available : buf' = Rest(a[1], Result(a[1], 1))
    BY <1>3 DEF Discard
  <2>2. a[1] \in Seq(Bytes) /\ Len(a[1]) <= WIFI_SOCKET_BUFFER_SIZE
    BY FetchedType
  <2>3. buf' \in Seq(Bytes) /\ Len(buf') <= Len(a[1])
    BY <2>1, <2>2, ResultType, RestType
  <2>4. Len(buf') <= WIFI_SOCKET_BUFFER_SIZE
    BY <2>2, <2>3, LenProperties, SizeAssumption
  <2>5. _parsed' \in -N .. N + 1
    BY <1>3 DEF Discard, DataTypeOK
  <2>. QED
    BY <1>3, <2>3, <2>4, <2>5 DEF Discard, DataTypeOK
<1>4. ASSUME Parse PROVE DataTypeOK'
  <2>1. dgrams # <<>> => Len(Head(dgrams)) \in 0 .. N + 1
    <3>1. dgrams # <<>> => Head(dgrams) \in Sent
      BY HeadTailProperties
    <3>. QED
      BY <3>1, SentType, LengthsType
  <2>2. _parsed' \in 0 .. N + 1
    BY <1>4, <2>1 DEF Parse
  <2>3. pc' = "read" => _parsed' > 0
    BY <1>4, <2>2 DEF Parse, Deciding
  <2>. QED
    BY <1>4, <2>2, <2>3 DEF Parse, DataTypeOK
<1>5. ASSUME Read PROVE DataTypeOK'
  <2>1. PICK a \in Available :
          LET n == Result(a[1], N)
          IN /\ clock' = IF n >= TimeField THEN a[1][TimeField] ELSE Garbage
             /\ _parsed' = _parsed - n
             /\ StopUDP(Rest(a[1], n))
    BY <1>5 DEF Read
  <2>2. a[1] \in Seq(Bytes)
    BY FetchedType
  <2>. DEFINE n == Result(a[1], N)
  <2>3. n \in 0 .. Len(a[1]) /\ n <= N
    BY <2>2, ResultType
  <2>4. clock' \in Bytes
    <3>1. Len(a[1]) \in Nat /\ Garbage \in Bytes
      BY <2>2, LenProperties DEF Garbage, Bytes
    <3>2. n >= TimeField => TimeField \in 1 .. Len(a[1])
      <4>. HIDE DEF n
      <4>. QED
        BY <2>3, <3>1 DEF TimeField
    <3>3. n >= TimeField => a[1][TimeField] \in Bytes
      BY <2>2, <3>2, ElementOfSeq
    <3>. QED
      BY <2>1, <3>1, <3>3
  <2>5. _parsed' \in -N .. N + 1
    <3>1. _parsed' = _parsed - n /\ _parsed \in 1 .. N + 1
      BY <1>5, <2>1 DEF Read, DataTypeOK
    <3>2. n \in 0 .. N
      <4>1. Len(a[1]) \in Nat
        BY <2>2, LenProperties
      <4>. HIDE DEF n
      <4>. QED
        BY <2>3, <4>1
    <3>. HIDE DEF n
    <3>. QED
      BY <3>1, <3>2
  <2>6. buf' = <<>> /\ pc' = "idle"
    BY <1>5, <2>1 DEF Read, StopUDP
  <2>. QED
    BY <2>4, <2>5, <2>6, EmptySeq, SizeAssumption DEF DataTypeOK
<1>6. ASSUME GiveUp PROVE DataTypeOK'
  BY <1>6, EmptySeq, SizeAssumption DEF GiveUp, StopUDP, DataTypeOK
<1>7. ASSUME DatagramArrives \/ Deadline \/ SocketsChange \/ UNCHANGED vars PROVE DataTypeOK'
  BY <1>7 DEF DatagramArrives, Deadline, SocketsChange, vars, DataTypeOK
<1>. QED
  BY <1>1, <1>2, <1>3, <1>4, <1>5, <1>6, <1>7 DEF Next, Superloop

LEMMA TypeInit == Init => TypeInv
<1>. SUFFICES ASSUME Init PROVE TypeInv
  OBVIOUS
<1>1. N \in Nat /\ N >= 2 /\ NTP_PACKET_SIZE = N /\ WIFI_SOCKET_BUFFER_SIZE \in Nat
  BY SizeAssumption DEF N
<1>2. /\ <<>> \in Seq(Sent) /\ <<>> \in Seq(Seq(Bytes)) /\ <<>> \in Seq(Bytes)
      /\ Len(<<>>) <= WIFI_SOCKET_BUFFER_SIZE
  BY <1>1, EmptySeq
<1>3. <<0, TimeField>> \in Bytes /\ 0 \in -N .. N + 1
  BY <1>1 DEF TimeField, Bytes
<1>. QED
  BY <1>1, <1>2, <1>3 DEF Init, TypeInv, TypeOK

LEMMA TypeInvariant == Spec => []TypeInv
<1>1. ASSUME TypeInv, [Next]_vars PROVE TypeInv'
  <2>1. FlowTypeOK /\ dgrams \in Seq(Sent) /\ requests \in Nat
    BY <1>1 DEF TypeInv, TypeOK, FlowTypeOK
  <2>2. FlowTypeOK' /\ DataTypeOK'
    BY <1>1, <2>1, FlowStep, DataStep
  <2>3. (dgrams \in Seq(Sent))'
    BY <1>1, <2>1, QueueStep, FaultsKept
  <2>. QED
    BY <2>2, <2>3, TypeJoin
<1>2. TypeInv /\ [Next]_vars => TypeInv'
  BY <1>1
<1>. QED
  BY TypeInit, <1>2, PTL DEF Spec

\* All variables keep their types: the count of UDP_read is never further below
\* zero than a packet is long, and the buffer never overflows, whatever comes.
THEOREM TypeCorrect == Spec => []TypeOK
<1>1. TypeInv => TypeOK
  BY DEF TypeInv
<1>. QED
  BY <1>1, TypeInvariant, PTL

-----------------------------------------------------------------------------
(* The clock. *)

\* Between two calls nothing is left in the buffer, and the byte count agrees
\* with the datagram in the radio, unless it is of a long one and no socket was
\* got since.
Agreed ==
  /\ buf = <<>>
  /\ clock[2] = TimeField
  /\ pc = "read" => dgrams # <<>> /\ _parsed = Len(Head(dgrams))
  /\ pc \in {"parse", "giveUp"} => _parsed = 0
  /\ "long" \notin faults /\ pc # "read" => _parsed = 0
  /\ "busy" \notin faults => free /\ (pc = "beginPacket" => sock /\ _parsed = 0)

CalmInv == TypeInv /\ (Misleading \/ Agreed)

\* Barring what misleads, a datagram that waits is fetched whole, and its N-th
\* byte is the time stamp.
LEMMA FetchedWhole ==
  ASSUME CalmInv, ~Misleading, NEW a \in Available
  PROVE  /\ dgrams = <<>> => a[1] = <<>>
         /\ dgrams # <<>> =>
              /\ a[1] = Head(dgrams)
              /\ Len(a[1]) \in {N, N + 1} /\ a[1][N][2] = N
              /\ "long" \notin faults => Len(a[1]) = N
<1>1. buf = <<>> /\ "lossy" \notin faults /\ "short" \notin faults
  BY DEF CalmInv, Agreed, Misleading
<1>2. dgrams = <<>> => a[1] = <<>>
  BY <1>1, AvailableCases
<1>3. ASSUME dgrams # <<>> PROVE a[1] = Head(dgrams)
  BY <1>1, <1>3 DEF Available
<1>4. ASSUME dgrams # <<>>
      PROVE  /\ Len(a[1]) \in {N, N + 1} /\ a[1][N][2] = N
             /\ "long" \notin faults => Len(a[1]) = N
  <2>1. a[1] \in Sent
    BY <1>3, <1>4, HeadTailProperties DEF CalmInv, TypeInv
  <2>2. /\ Len(a[1]) \in Lengths
        /\ \A i \in 1 .. Len(a[1]) : a[1][i][2] = i
    BY <2>1, SentType
  <2>3. Len(a[1]) \in {N, N + 1} /\ ("long" \notin faults => Len(a[1]) = N)
    BY <1>1, <2>2, LengthsType
  <2>4. N \in 1 .. Len(a[1])
    BY <2>3, LengthsType
  <2>. QED
    BY <2>2, <2>3, <2>4
<1>. QED
  BY <1>2, <1>3, <1>4

LEMMA AgreedStep ==
  ASSUME CalmInv, ~Misleading, [Next]_vars
  PROVE  Agreed'
<1>. /\ Agreed /\ dgrams \in Seq(Sent)
     /\ pc \in {"idle", "beginPacket", "parse", "read", "giveUp"}
  BY DEF CalmInv, TypeInv, TypeOK
<1>. N \in Nat /\ N >= 2 /\ NTP_PACKET_SIZE = N /\ TimeField = N
  BY LengthsType DEF N, TimeField
<1>0. /\ "lossy" \notin faults /\ ("busy" \notin faults \/ "long" \notin faults)
      /\ faults' = faults
  BY FaultsKept DEF Misleading
<1>1. ASSUME Begin PROVE Agreed'
  <2>1. PICK got \in Offered : BeginUDP(got)
    BY <1>1 DEF Begin
  <2>2. "busy" \notin faults => got = TRUE
    BY <1>0 DEF Offered, Agreed
  <2>3. /\ "long" \notin faults => _parsed' = 0
        /\ "busy" \notin faults => sock' /\ _parsed' = 0
    BY <1>1, <2>1, <2>2, Zenon DEF Begin, BeginUDP, Agreed
  <2>. QED
    BY <1>0, <1>1, <2>3 DEF Begin, Agreed, TimeField
<1>2. ASSUME BeginPacket PROVE Agreed'
  <2>1. UNCHANGED <<faults, clock, _parsed, buf, free, dgrams>> /\ pc = "beginPacket"
    BY <1>2 DEF BeginPacket
  <2>2. pc' = "parse" \/ pc' = "idle"
    BY <1>2, Zenon DEF BeginPacket
  <2>3. _parsed = 0
    BY <1>0, <2>1 DEF Agreed
  <2>. QED
    BY <1>0, <2>1, <2>2, <2>3 DEF Agreed, TimeField
<1>3. ASSUME Discard PROVE Agreed'
  BY <1>3 DEF Discard, Agreed
<1>4. ASSUME Parse PROVE Agreed'
  <2>1. /\ _parsed' = IF dgrams = <<>> THEN 0 ELSE Len(Head(dgrams))
        /\ pc' = Deciding(_parsed')
        /\ UNCHANGED <<faults, clock, buf, free, dgrams>>
    BY <1>0, <1>4 DEF Parse
  <2>2. dgrams # <<>> => Len(Head(dgrams)) > 0
    <3>1. dgrams # <<>> => Head(dgrams) \in Sent
      BY HeadTailProperties
    <3>. QED
      BY <3>1, SentType, LengthsType
  <2>3. CASE dgrams = <<>>
    BY <1>0, <1>4, <2>1, <2>3 DEF Parse, Agreed, Deciding, TimeField
  <2>4. CASE dgrams # <<>>
    <3>1. pc' = "read" /\ _parsed' = Len(Head(dgrams))
      BY <2>1, <2>2, <2>4 DEF Deciding
    <3>. QED
      BY <1>0, <2>1, <2>4, <3>1 DEF Agreed, TimeField
  <2>. QED
    BY <2>3, <2>4
<1>5. ASSUME Read PROVE Agreed'
  <2>1. PICK a \in Available :
          LET n == Result(a[1], N)
          IN /\ clock' = IF n >= TimeField THEN a[1][TimeField] ELSE Garbage
             /\ _parsed' = _parsed - n
             /\ StopUDP(Rest(a[1], n))
    BY <1>5 DEF Read
  <2>2. dgrams # <<>> /\ _parsed = Len(Head(dgrams))
    BY <1>5 DEF Read, Agreed
  <2>3. /\ a[1] = Head(dgrams) /\ Len(a[1]) \in {N, N + 1} /\ a[1][N][2] = N
        /\ "long" \notin faults => Len(a[1]) = N
    BY <2>2, FetchedWhole
  <2>4. Result(a[1], N) = N
    BY <2>3 DEF Result
  <2>5. clock'[2] = N /\ _parsed' = _parsed - N /\ buf' = <<>>
    BY <2>1, <2>3, <2>4 DEF StopUDP
  <2>6. "long" \notin faults => _parsed' = 0
    BY <2>2, <2>3, <2>5
  <2>. QED
    BY <1>0, <1>5, <2>5, <2>6 DEF Read, Agreed, TimeField
<1>6. ASSUME GiveUp PROVE Agreed'
  BY <1>0, <1>6 DEF GiveUp, StopUDP, Agreed, TimeField
<1>7. ASSUME DatagramArrives PROVE Agreed'
  <2>1. PICK r \in 1 .. requests, length \in Lengths :
          dgrams' = Append(dgrams, Datagram(r, length))
    BY <1>7 DEF DatagramArrives
  <2>2. Datagram(r, length) \in Sent
    <3>1. requests \in Nat
      BY DEF CalmInv, TypeInv, TypeOK
    <3>. QED
      BY <3>1 DEF Sent
  <2>3. dgrams # <<>> => dgrams' # <<>> /\ Head(dgrams') = Head(dgrams)
    BY <2>1, <2>2
  <2>. QED
    BY <1>0, <1>7, <2>3 DEF DatagramArrives, Agreed, TimeField
<1>8. ASSUME Deadline \/ SocketsChange \/ UNCHANGED vars PROVE Agreed'
  BY <1>0, <1>8 DEF Deadline, SocketsChange, vars, Agreed, TimeField
<1>. QED
  BY <1>1, <1>2, <1>3, <1>4, <1>5, <1>6, <1>7, <1>8 DEF Next, Superloop

LEMMA CalmInvariant == Spec => []CalmInv
<1>1. Init => Misleading \/ Agreed
  <2>. SUFFICES ASSUME Init PROVE Agreed
    OBVIOUS
  <2>1. clock[2] = TimeField /\ _parsed = 0 /\ buf = <<>> /\ pc = "idle"
    BY DEF Init
  <2>2. "busy" \notin faults => free
    <3>1. free \in IF "busy" \in faults THEN BOOLEAN ELSE {TRUE}
      BY DEF Init
    <3>. QED
      BY <3>1
  <2>. QED
    BY <2>1, <2>2 DEF Agreed
<1>2. TypeInv /\ TypeInv' /\ (Misleading \/ Agreed) /\ [Next]_vars => (Misleading \/ Agreed)'
  <2>. SUFFICES ASSUME CalmInv, [Next]_vars PROVE (Misleading \/ Agreed)'
    BY DEF CalmInv
  <2>1. Misleading' <=> Misleading
    BY FaultsKept DEF Misleading
  <2>. QED
    BY <2>1, AgreedStep
<1>3. Spec => [](Misleading \/ Agreed)
  BY <1>1, <1>2, TypeInvariant, PTL DEF Spec
<1>4. CalmInv <=> TypeInv /\ (Misleading \/ Agreed)
  BY DEF CalmInv
<1>. QED
  BY <1>3, <1>4, TypeInvariant, PTL

\* The clock is only ever set from a time stamp, whatever order the answers come
\* in and however often the radio refuses a socket, for packets of every size.
THEOREM ClockSetFromTimeStamp == Spec => []ClockFromTimeStamp
<1>1. CalmInv => ClockFromTimeStamp
  BY DEF CalmInv, Agreed, ClockFromTimeStamp
<1>. QED
  BY <1>1, CalmInvariant, PTL

\* No request is given up while a byte of an answer lies in the radio or in the
\* buffer.
THEOREM NoAnswerForgotten == Spec => AnswerTaken
<1>. DEFINE A == Misleading \/ (pc = "parse" /\ pc' = "giveUp" => buf = <<>> /\ dgrams = <<>>)
<1>1. ASSUME CalmInv, [Next]_vars PROVE [A]_vars
  <2>. SUFFICES ASSUME ~Misleading, pc = "parse", pc' = "giveUp"
                PROVE  buf = <<>> /\ dgrams = <<>>
    OBVIOUS
  <2>1. Agreed /\ dgrams \in Seq(Sent) /\ "lossy" \notin faults
    BY <1>1 DEF CalmInv, TypeInv, Misleading
  <2>2. Parse
    BY <1>1 DEF Next, Superloop, Begin, BeginPacket, Discard, Read, GiveUp, DatagramArrives,
       Deadline, SocketsChange, vars
  <2>3. /\ _parsed' = IF dgrams = <<>> THEN 0 ELSE Len(Head(dgrams))
        /\ pc' = Deciding(_parsed')
    BY <2>1, <2>2 DEF Parse
  <2>4. dgrams # <<>> => Len(Head(dgrams)) > 0
    <3>1. dgrams # <<>> => Head(dgrams) \in Sent
      BY <2>1, HeadTailProperties
    <3>. QED
      BY <3>1, SentType, LengthsType
  <2>. QED
    BY <2>1, <2>3, <2>4 DEF Deciding, Agreed
<1>2. CalmInv /\ [Next]_vars => [A]_vars
  BY <1>1
<1>3. Spec => [][A]_vars
  BY <1>2, CalmInvariant, PTL DEF Spec
<1>. QED
  BY <1>3 DEF AnswerTaken

=============================================================================
