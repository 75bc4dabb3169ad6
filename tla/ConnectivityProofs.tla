------------------------- MODULE ConnectivityProofs -------------------------
(***************************************************************************)
(* Machine-checked proofs about module Connectivity, for every number of   *)
(* sockets, every choice of the intervals and every bound.                 *)
(***************************************************************************)
EXTENDS Connectivity, TLAPS

\* A timer that is stopped stays stopped when it is visited, and one that runs
\* goes on with a positive number of ticks left (its interval is not 0).
LEMMA SteppedType ==
  ASSUME NEW t \in {Stopped} \cup Positive, NEW e \in Nat, NEW i \in Positive
  PROVE  /\ Stepped(t, e, i) \in {Stopped} \cup Positive
         /\ Stepped(t, e, i) = Stopped <=> t = Stopped
<1>1. (e - t) % i \in 0 .. i - 1
  BY DEF Positive, Stopped
<1>. QED
  BY <1>1 DEF Stepped, Reloaded, Positive, Stopped

-----------------------------------------------------------------------------
(* Type correctness. *)

TimerTables == [Timers -> {Stopped} \cup Positive]

\* The part of TypeOK that the handlers of the network change.
NetTypeOK ==
  /\ timers \in TimerTables
  /\ left \in [Waits -> Nat]
  /\ waiting_on_NTP_response \in BOOLEAN /\ waiting_on_BE_response \in BOOLEAN
  /\ received_data_from_BE \in BOOLEAN
  /\ wifi_connecting \in BOOLEAN /\ wifi_connected \in BOOLEAN /\ once \in BOOLEAN
  /\ errors \subseteq Errors
  /\ sock \in Sockets \cup {NoSock}
  /\ buf \in [Sockets -> {"null", "empty", "data"}]
  /\ link \in {"IDLE", "CONNECTED", "OTHER"}
  /\ rsock \in [Sockets -> {"free", "udp", "tls"}]
  /\ peerOpen \in BOOLEAN /\ inbox \in BOOLEAN /\ toCome \in 0 .. MaxChunks

LEMMA TypeSplit ==
  TypeOK <=> /\ pc \in Handlers
             /\ since \in 0 .. MaxPass /\ elapsed \in 0 .. MaxPass
             /\ rtc \in {"unset", "synced", "garbage"}
             /\ NetTypeOK
BY DEF TypeOK, NetTypeOK, TimerTables

LEMMA TypeJoin ==
  ASSUME NetTypeOK', pc' \in Handlers, since' \in 0 .. MaxPass, elapsed' \in 0 .. MaxPass,
         rtc' \in {"unset", "synced", "garbage"}
  PROVE  TypeOK'
BY DEF TypeOK, NetTypeOK, TimerTables

LEMMA HandlerType ==
  ASSUME TypeOK, NetTypeOK', pc' \in Handlers, UNCHANGED <<since, elapsed, rtc>>
  PROVE  TypeOK'
BY DEF TypeOK, NetTypeOK, TimerTables

LEMMA IntervalType == Interval \in [Timers -> Positive]
BY TimeAssumption DEF Interval, Timers

\* Visiting a timer leaves a timer table.
LEMMA VisitedType ==
  ASSUME TypeOK, NEW t \in Timers
  PROVE  Visited(t) \in TimerTables
<1>1. elapsed \in Nat /\ timers \in TimerTables
  BY BoundAssumption DEF TypeOK, TimerTables, Positive
<1>2. Interval[t] \in Positive
  BY IntervalType
<1>3. Stepped(timers[t], elapsed, Interval[t]) \in {Stopped} \cup Positive
  BY <1>1, <1>2, SteppedType DEF TimerTables
<1>. QED
  BY <1>1, <1>3 DEF Visited, TimerTables

LEMMA WithoutType ==
  ASSUME NEW T, NEW f \in [Sockets -> T], NEW s, NEW v \in T
  PROVE  Without(f, s, v) \in [Sockets -> T]
BY DEF Without

\* The helpers of the handlers keep the types.
LEMMA StopSocketType ==
  ASSUME NetTypeOK
  PROVE  /\ Stopped_rsock \in [Sockets -> {"free", "udp", "tls"}]
         /\ Stopped_buf \in [Sockets -> {"null", "empty", "data"}]
BY DEF NetTypeOK, Without, Stopped_rsock, Stopped_buf

LEMMA NoPeerType ==
  ASSUME NoPeer
  PROVE  (peerOpen \in BOOLEAN /\ inbox \in BOOLEAN /\ toCome \in 0 .. MaxChunks)'
<1>1. 0 \in 0 .. MaxChunks
  BY BoundAssumption
<1>2. peerOpen' = FALSE /\ inbox' = FALSE /\ toCome' = 0
  BY DEF NoPeer
<1>. QED
  BY <1>1, <1>2

LEMMA ConnectToWifiType ==
  ASSUME NetTypeOK, ConnectToWifi, UNCHANGED <<sessionVars, errors, sockVars>>,
         timers' \in TimerTables, (wifi_connected \in BOOLEAN /\ once \in BOOLEAN)'
  PROVE  NetTypeOK'
<1>1. link' \in {"IDLE", "CONNECTED", "OTHER"} /\ rsock' \in [Sockets -> {"free", "udp", "tls"}]
  BY DEF NetTypeOK, ConnectToWifi, radioVars
<1>2. UNCHANGED peerVars \/ NoPeer
  BY DEF ConnectToWifi, radioVars
<1>3. left' \in [Waits -> Nat]
  BY TimeAssumption DEF NetTypeOK, ConnectToWifi, Positive, Waits
<1>4. wifi_connecting' \in BOOLEAN
  BY DEF ConnectToWifi
<1>5. peerOpen' \in BOOLEAN /\ inbox' \in BOOLEAN /\ toCome' \in 0 .. MaxChunks
  BY <1>2, NoPeerType DEF NetTypeOK, peerVars
<1>6. /\ (waiting_on_NTP_response \in BOOLEAN /\ waiting_on_BE_response \in BOOLEAN)'
      /\ received_data_from_BE' \in BOOLEAN
  BY DEF NetTypeOK, sessionVars
<1>7. /\ errors' \subseteq Errors
      /\ sock' \in Sockets \cup {NoSock}
      /\ buf' \in [Sockets -> {"null", "empty", "data"}]
  BY DEF NetTypeOK, sockVars
<1>. QED
  BY <1>1, <1>3, <1>4, <1>5, <1>6, <1>7 DEF NetTypeOK

LEMMA GetTimeType ==
  ASSUME NetTypeOK, NEW tm \in TimerTables, GetTime(tm),
         (wifi_connecting \in BOOLEAN /\ wifi_connected \in BOOLEAN /\ once \in BOOLEAN)'
  PROVE  NetTypeOK'
<1>1. CASE waiting_on_BE_response
  <2>1. /\ timers' = tm
        /\ UNCHANGED <<left, sessionVars, errors, sockVars, radioVars>>
    BY <1>1 DEF GetTime
  <2>. QED
    BY <2>1 DEF NetTypeOK, sessionVars, sockVars, radioVars, peerVars
<1>2. CASE ~waiting_on_BE_response
  <2>1. PICK s \in SocketOffers(Stopped_rsock) :
          /\ sock' = s
          /\ rsock' = Without(Stopped_rsock, s, "udp")
          /\ IF s = NoSock
               THEN /\ errors' = errors \cup {"SYNCING_TIME"}
                    /\ timers' = [tm EXCEPT !["NTP_TIME_SYNC_TICK"] = TIME_SYNC_RETRY_INTERVAL]
                    /\ UNCHANGED <<left, waiting_on_NTP_response>>
               ELSE /\ waiting_on_NTP_response' = TRUE
                    /\ left' = [left EXCEPT !["NTP"] = NTP_RESPONSE_WAIT_TIME]
                    /\ timers' = tm
                    /\ UNCHANGED errors
    BY <1>2 DEF GetTime, BeginUDP
  <2>2. sock' \in Sockets \cup {NoSock}
    BY <2>1 DEF SocketOffers
  <2>3. buf' \in [Sockets -> {"null", "empty", "data"}]
    BY <1>2, StopSocketType DEF GetTime, BeginUDP
  <2>4. rsock' \in [Sockets -> {"free", "udp", "tls"}]
    BY <2>1, StopSocketType, WithoutType
  <2>5. timers' \in TimerTables
    BY <2>1, TimeAssumption DEF TimerTables, Timers
  <2>6. left' \in [Waits -> Nat]
    BY <2>1, TimeAssumption DEF NetTypeOK, Waits, Positive
  <2>7. /\ waiting_on_NTP_response' \in BOOLEAN
        /\ errors' \subseteq Errors
    BY <2>1 DEF NetTypeOK, Errors
  <2>8. NoPeer /\ UNCHANGED <<waiting_on_BE_response, received_data_from_BE, link>>
    BY <1>2 DEF GetTime, BeginUDP
  <2>9. (peerOpen \in BOOLEAN /\ inbox \in BOOLEAN /\ toCome \in 0 .. MaxChunks)'
    BY <2>8, NoPeerType
  <2>10. (waiting_on_BE_response \in BOOLEAN /\ received_data_from_BE \in BOOLEAN
            /\ link \in {"IDLE", "CONNECTED", "OTHER"})'
    BY <2>8 DEF NetTypeOK
  <2>. QED
    BY <2>2, <2>3, <2>4, <2>5, <2>6, <2>7, <2>9, <2>10 DEF NetTypeOK
<1>. QED
  BY <1>1, <1>2

LEMMA SetWifiConnectionStateType ==
  ASSUME NetTypeOK, NEW c \in BOOLEAN, NEW j \in BOOLEAN, NEW tm \in TimerTables,
         SetWifiConnectionState(c, j, tm)
  PROVE  NetTypeOK'
<1>. DEFINE justConnected == c /\ ~wifi_connected
            justLost == ~c /\ wifi_connected
            stopped  == StopTimer(tm, "WIFI_RECONNECT_TICK")
            reloaded == ReloadTimer(tm, "WIFI_RECONNECT_TICK")
<1>1. stopped \in TimerTables /\ reloaded \in TimerTables
  BY IntervalType DEF TimerTables, Timers, StopTimer, ReloadTimer
<1>2. wifi_connected' \in BOOLEAN /\ once' \in BOOLEAN
  BY DEF SetWifiConnectionState, NetTypeOK
<1>3. CASE justLost
  <2>1. /\ ConnectToWifi
        /\ timers' = reloaded
        /\ UNCHANGED <<sessionVars, errors, sockVars>>
    BY <1>3 DEF SetWifiConnectionState
  <2>. QED
    BY <2>1, <1>1, <1>2, ConnectToWifiType
<1>4. CASE ~justLost /\ justConnected /\ ~once
  <2>1. GetTime(stopped) /\ wifi_connecting' = j
    BY <1>4 DEF SetWifiConnectionState, FirstConnection
  <2>. QED
    BY <2>1, <1>1, <1>2, GetTimeType
<1>5. CASE ~justLost /\ ~(justConnected /\ ~once)
  <2>1. /\ timers' = tm \/ timers' = stopped
        /\ UNCHANGED <<left, sessionVars, errors, sockVars, radioVars>>
        /\ wifi_connecting' = j
    BY <1>5 DEF SetWifiConnectionState, FirstConnection, NetTypeOK
  <2>. QED
    BY <2>1, <1>1, <1>2 DEF NetTypeOK, sessionVars, sockVars, radioVars, peerVars
<1>. QED
  BY <1>3, <1>4, <1>5

LEMMA RemoteSyncType ==
  ASSUME NetTypeOK, RemoteSync, timers' \in TimerTables, UNCHANGED wifiVars
  PROVE  NetTypeOK'
<1>1. CASE UNCHANGED <<left, sessionVars, errors, sockVars, radioVars>>
  BY <1>1 DEF NetTypeOK, sessionVars, wifiVars, sockVars, radioVars, peerVars
<1>2. CASE ConnectAndPost
  <2>0. \A s : ConnectSSLHost(s) => peerOpen' \in BOOLEAN /\ toCome' \in 0 .. MaxChunks
    BY BoundAssumption DEF ConnectSSLHost
  <2>1. PICK s \in SocketOffers(Stopped_rsock) :
          /\ rsock' = Without(Stopped_rsock, s, "tls")
          /\ inbox' = FALSE
          /\ \/ /\ s # NoSock
                /\ sock' = s
                /\ \E found \in {"empty", "data"} : buf' = Without(Stopped_buf, s, found)
                /\ peerOpen' \in BOOLEAN
                /\ toCome' \in 0 .. MaxChunks
                /\ errors' = errors \ {"SERVER_DNS_ISSUE"}
                /\ waiting_on_BE_response' = TRUE
                /\ received_data_from_BE' = FALSE
                /\ left' = [left EXCEPT !["BE"] = BE_RESPONSE_WAIT_TIME]
             \/ /\ sock' = NoSock
                /\ buf' = Stopped_buf
                /\ peerOpen' = FALSE
                /\ toCome' = 0
                /\ errors' = errors \cup {"SERVER_DNS_ISSUE"}
                /\ UNCHANGED <<waiting_on_BE_response, received_data_from_BE, left>>
    BY <1>2, <2>0 DEF ConnectAndPost, ConnectSSLHost, ConnectSSLHostFails, NoPeer
  <2>2. UNCHANGED <<waiting_on_NTP_response, link>>
    BY <1>2 DEF ConnectAndPost, ConnectSSLHost, ConnectSSLHostFails, NoPeer
  <2>3. rsock' \in [Sockets -> {"free", "udp", "tls"}]
    BY <2>1, StopSocketType, WithoutType
  <2>4. s \in Sockets \cup {NoSock}
    BY DEF SocketOffers
  <2>5. sock' \in Sockets \cup {NoSock}
    BY <2>1, <2>4
  <2>9. errors' \subseteq Errors
    BY <2>1 DEF NetTypeOK, Errors
  <2>10. \A found \in {"empty", "data"} :
           Without(Stopped_buf, s, found) \in [Sockets -> {"null", "empty", "data"}]
    BY StopSocketType, WithoutType
  <2>11. buf' \in [Sockets -> {"null", "empty", "data"}]
    BY <2>1, <2>10, StopSocketType
  <2>6. toCome' \in 0 .. MaxChunks
    BY <2>1, BoundAssumption
  <2>7. /\ (peerOpen \in BOOLEAN /\ inbox \in BOOLEAN)'
        /\ (waiting_on_NTP_response \in BOOLEAN /\ waiting_on_BE_response \in BOOLEAN)'
        /\ received_data_from_BE' \in BOOLEAN
    BY <2>1, <2>2 DEF NetTypeOK
  <2>8. left' \in [Waits -> Nat]
    BY <2>1, TimeAssumption DEF NetTypeOK, Waits, Positive
  <2>. QED
    BY <2>2, <2>3, <2>5, <2>6, <2>7, <2>8, <2>9, <2>11 DEF NetTypeOK, wifiVars
<1>. QED
  BY <1>1, <1>2 DEF RemoteSync

\* What every handler of the network leaves alone, and what a timer that does
\* not run out does.
LEMMA SkipType ==
  ASSUME TypeOK, NEW t \in Timers, Skip(t)
  PROVE  NetTypeOK'
<1>1. timers' \in TimerTables
  BY VisitedType DEF Skip
<1>2. UNCHANGED <<left, sessionVars, wifiVars, errors, sockVars, radioVars>>
  BY DEF Skip
<1>. QED
  BY <1>1, <1>2, TypeSplit DEF NetTypeOK, sessionVars, wifiVars, sockVars, radioVars, peerVars

LEMMA StopType ==
  ASSUME NetTypeOK, StopSocket
  PROVE  /\ sock' \in Sockets \cup {NoSock}
         /\ buf' \in [Sockets -> {"null", "empty", "data"}]
         /\ link' \in {"IDLE", "CONNECTED", "OTHER"}
         /\ rsock' \in [Sockets -> {"free", "udp", "tls"}]
         /\ (peerOpen \in BOOLEAN /\ inbox \in BOOLEAN /\ toCome \in 0 .. MaxChunks)'
<1>1. NoPeer /\ UNCHANGED link /\ sock' = NoSock /\ buf' = Stopped_buf /\ rsock' = Stopped_rsock
  BY DEF StopSocket
<1>. QED
  BY <1>1, NoPeerType, StopSocketType DEF NetTypeOK

LEMMA CheckNtpResponseType ==
  ASSUME NetTypeOK, CheckNtpResponse, rtc \in {"unset", "synced", "garbage"}
  PROVE  NetTypeOK' /\ rtc' \in {"unset", "synced", "garbage"}
<1>1. UNCHANGED <<left, waiting_on_BE_response, received_data_from_BE, wifiVars>>
  BY DEF CheckNtpResponse
<1>2. waiting_on_NTP_response' \in BOOLEAN /\ rtc' \in {"unset", "synced", "garbage"}
  BY DEF CheckNtpResponse, NetTypeOK
<1>3. errors' \subseteq Errors
  BY DEF CheckNtpResponse, NetTypeOK, Errors
<1>4. timers' \in TimerTables
  BY TimeAssumption DEF CheckNtpResponse, NetTypeOK, TimerTables, Timers
<1>5. StopSocket \/ UNCHANGED <<sockVars, radioVars>>
  BY DEF CheckNtpResponse
<1>6. CASE StopSocket
  BY <1>1, <1>2, <1>3, <1>4, <1>6, StopType DEF NetTypeOK, wifiVars
<1>7. CASE UNCHANGED <<sockVars, radioVars>>
  BY <1>1, <1>2, <1>3, <1>4, <1>7 DEF NetTypeOK, wifiVars, sockVars, radioVars, peerVars
<1>. QED
  BY <1>2, <1>5, <1>6, <1>7

LEMMA CheckBEResponseType ==
  ASSUME NetTypeOK, CheckBEResponse
  PROVE  NetTypeOK'
<1>1. UNCHANGED <<timers, wifiVars>>
  BY DEF CheckBEResponse
<1>2. CASE UNCHANGED <<left, sessionVars, errors, sockVars, radioVars>>
  BY <1>1, <1>2 DEF NetTypeOK, sessionVars, wifiVars, sockVars, radioVars, peerVars
<1>3. CASE BETimeout /\ UNCHANGED waiting_on_NTP_response
  <2>1. /\ waiting_on_BE_response' = FALSE
        /\ errors' = errors \cup {"SERVER_ISSUE"}
        /\ StopSocket
        /\ UNCHANGED <<left, received_data_from_BE, waiting_on_NTP_response>>
    BY <1>3 DEF BETimeout
  <2>2. errors' \subseteq Errors
    BY <2>1 DEF NetTypeOK, Errors
  <2>. QED
    BY <1>1, <2>1, <2>2, StopType DEF NetTypeOK, wifiVars
<1>4. CASE DrainBEResponse /\ UNCHANGED waiting_on_NTP_response
  <2>1. /\ received_data_from_BE' \in BOOLEAN
        /\ waiting_on_BE_response' \in BOOLEAN /\ waiting_on_NTP_response' \in BOOLEAN
    BY <1>4 DEF DrainBEResponse, NetTypeOK, HasData
  <2>2. left' \in [Waits -> Nat]
    BY <1>4, TimeAssumption DEF DrainBEResponse, NetTypeOK, Waits, Positive
  <2>3. errors' \subseteq Errors
    BY <1>4 DEF DrainBEResponse, NetTypeOK, Errors
  <2>4. sock' \in Sockets \cup {NoSock} /\ UNCHANGED <<link, rsock>>
    BY <1>4 DEF DrainBEResponse, ForgetSocket, NetTypeOK
  <2>5. /\ Without(buf, sock, "data") \in [Sockets -> {"null", "empty", "data"}]
        /\ Without(buf, sock, "empty") \in [Sockets -> {"null", "empty", "data"}]
    BY WithoutType DEF NetTypeOK
  <2>6. buf' \in [Sockets -> {"null", "empty", "data"}]
    BY <1>4, <2>5, StopSocketType DEF DrainBEResponse, ForgetSocket
  <2>7. \/ NoPeer
        \/ UNCHANGED peerOpen /\ inbox' = FALSE /\ (toCome' = toCome \/ (toCome > 0 /\ toCome' = toCome - 1))
    BY <1>4 DEF DrainBEResponse, ForgetSocket
  <2>8. CASE NoPeer
    BY <1>1, <2>1, <2>2, <2>3, <2>4, <2>6, <2>8, NoPeerType DEF NetTypeOK, wifiVars
  <2>9. CASE ~NoPeer
    <3>1. toCome' \in 0 .. MaxChunks
      BY <2>7, <2>9, BoundAssumption DEF NetTypeOK
    <3>2. peerOpen' \in BOOLEAN /\ inbox' \in BOOLEAN
      BY <2>7, <2>9 DEF NetTypeOK
    <3>. QED
      BY <1>1, <2>1, <2>2, <2>3, <2>4, <2>6, <3>1, <3>2 DEF NetTypeOK, wifiVars
  <2>. QED
    BY <2>8, <2>9
<1>. QED
  BY <1>2, <1>3, <1>4 DEF CheckBEResponse, sessionVars

\* Every step keeps the types.
LEMMA TypeStep ==
  ASSUME TypeOK, [Next]_vars
  PROVE  TypeOK'
<1>0. NetTypeOK /\ rtc \in {"unset", "synced", "garbage"}
  BY TypeSplit
<1>i. since \in Nat /\ elapsed \in Nat /\ since <= MaxPass /\ elapsed <= MaxPass
  BY BoundAssumption DEF TypeOK, Positive
<1>1. ASSUME RemoteInit PROVE TypeOK'
  <2>1. timers' \in TimerTables
    <3>1. timers' = StopTimer(Interval, "WIFI_RECONNECT_TICK")
      BY <1>1 DEF RemoteInit
    <3>. QED
      BY <3>1, IntervalType DEF TimerTables, Timers, StopTimer
  <2>2. /\ ConnectToWifi
        /\ UNCHANGED <<since, elapsed, sessionVars, wifi_connected, once, rtc, errors, sockVars>>
        /\ pc' = "updateTimers"
    BY <1>1 DEF RemoteInit, Goto
  <2>3. NetTypeOK'
    BY <1>0, <2>1, <2>2, ConnectToWifiType DEF NetTypeOK
  <2>. QED
    BY <2>2, <2>3, HandlerType DEF Handlers
<1>2. ASSUME UpdateTimers PROVE TypeOK'
  <2>1. /\ pc' \in Handlers /\ elapsed' = since /\ since' = 0
        /\ UNCHANGED <<timers, left, sessionVars, wifiVars, rtc, errors, sockVars, radioVars>>
    BY <1>2 DEF UpdateTimers, Handlers
  <2>2. since' \in 0 .. MaxPass /\ elapsed' \in 0 .. MaxPass
    BY <2>1, <1>i, BoundAssumption DEF Positive
  <2>. QED
    BY <2>1, <2>2 DEF TypeOK, sessionVars, wifiVars, sockVars, radioVars, peerVars
<1>3. ASSUME RemoteSyncTick PROVE TypeOK'
  <2>1. pc' \in Handlers /\ UNCHANGED <<since, elapsed, rtc>>
    BY <1>3 DEF RemoteSyncTick, Goto, Handlers
  <2>2. CASE Skip("REMOTE_SYNC_TICK")
    BY <2>1, <2>2, SkipType, HandlerType DEF Timers
  <2>3. CASE ~Skip("REMOTE_SYNC_TICK")
    <3>1. timers' = Visited("REMOTE_SYNC_TICK") /\ RemoteSync /\ UNCHANGED wifiVars
      BY <1>3, <2>3 DEF RemoteSyncTick
    <3>2. timers' \in TimerTables
      BY <3>1, VisitedType DEF Timers
    <3>. QED
      BY <1>0, <2>1, <3>1, <3>2, RemoteSyncType, HandlerType
  <2>. QED
    BY <2>2, <2>3
<1>4. ASSUME GetTimeTick PROVE TypeOK'
  <2>1. pc' \in Handlers /\ UNCHANGED <<since, elapsed, rtc>>
    BY <1>4 DEF GetTimeTick, Goto, Handlers
  <2>2. CASE Skip("NTP_TIME_SYNC_TICK")
    BY <2>1, <2>2, SkipType, HandlerType DEF Timers
  <2>3. CASE ~Skip("NTP_TIME_SYNC_TICK")
    <3>1. GetTime(Visited("NTP_TIME_SYNC_TICK")) /\ UNCHANGED wifiVars
      BY <1>4, <2>3 DEF GetTimeTick
    <3>2. Visited("NTP_TIME_SYNC_TICK") \in TimerTables
      BY VisitedType DEF Timers
    <3>3. (wifi_connecting \in BOOLEAN /\ wifi_connected \in BOOLEAN /\ once \in BOOLEAN)'
      BY <3>1 DEF TypeOK, wifiVars
    <3>. QED
      BY <1>0, <2>1, <3>1, <3>2, <3>3, GetTimeType, HandlerType
  <2>. QED
    BY <2>2, <2>3
<1>5. ASSUME WifiCheckTick PROVE TypeOK'
  <2>1. pc' \in Handlers /\ UNCHANGED <<since, elapsed, rtc>>
    BY <1>5 DEF WifiCheckTick, Goto, Handlers
  <2>2. CASE Skip("WIFI_CHECK_STAT_TICK")
    BY <2>1, <2>2, SkipType, HandlerType DEF Timers
  <2>3. CASE ~Skip("WIFI_CHECK_STAT_TICK")
    <3>. DEFINE tm == Visited("WIFI_CHECK_STAT_TICK")
    <3>1. WifiCheck(tm)
      BY <1>5, <2>3 DEF WifiCheckTick
    <3>2. tm \in TimerTables
      BY VisitedType DEF Timers
    <3>3. CASE wifi_connected
      <4>. HIDE DEF tm
      <4>1. PICK up \in IsWifiConnected, status \in ClientStatus :
              SetWifiConnectionState(up /\ status # "CLOSED", wifi_connecting, tm)
        BY <3>1, <3>3 DEF WifiCheck
      <4>2. (up /\ status # "CLOSED") \in BOOLEAN /\ wifi_connecting \in BOOLEAN
        BY DEF TypeOK
      <4>3. NetTypeOK'
        BY <1>0, <3>2, <4>1, <4>2, SetWifiConnectionStateType
      <4>. QED
        BY <2>1, <4>3, HandlerType
    <3>4. CASE ~wifi_connected
      <4>1. timers' = tm /\ UNCHANGED <<left, sessionVars, wifiVars, errors, sockVars, radioVars>>
        BY <3>1, <3>4 DEF WifiCheck
      <4>2. NetTypeOK'
        BY <1>0, <3>2, <4>1 DEF NetTypeOK, sessionVars, wifiVars, sockVars, radioVars, peerVars
      <4>. QED
        BY <2>1, <4>2, HandlerType
    <3>. QED
      BY <3>3, <3>4
  <2>. QED
    BY <2>2, <2>3
<1>6. ASSUME WifiReconnectTick PROVE TypeOK'
  <2>1. pc' \in Handlers /\ elapsed' = 0 /\ UNCHANGED <<since, rtc>>
    BY <1>6 DEF WifiReconnectTick, Goto, Handlers
  <2>2. elapsed' \in 0 .. MaxPass
    BY <2>1, BoundAssumption DEF Positive
  <2>5. since' \in 0 .. MaxPass
    BY <2>1 DEF TypeOK
  <2>3. CASE Skip("WIFI_RECONNECT_TICK")
    BY <1>0, <2>1, <2>2, <2>3, <2>5, SkipType, TypeJoin DEF Timers
  <2>4. CASE ~Skip("WIFI_RECONNECT_TICK")
    <3>1. /\ timers' = Visited("WIFI_RECONNECT_TICK") /\ ConnectToWifi
          /\ UNCHANGED <<sessionVars, wifi_connected, once, errors, sockVars>>
      BY <1>6, <2>4 DEF WifiReconnectTick
    <3>2. timers' \in TimerTables
      BY <3>1, VisitedType DEF Timers
    <3>3. NetTypeOK'
      BY <1>0, <3>1, <3>2, ConnectToWifiType DEF NetTypeOK
    <3>. QED
      BY <1>0, <2>1, <2>2, <3>3, <2>5, TypeJoin
  <2>. QED
    BY <2>3, <2>4
<1>7. ASSUME CheckNtpResponse PROVE TypeOK'
  <2>1. pc' \in Handlers /\ UNCHANGED <<since, elapsed>>
    BY <1>7 DEF CheckNtpResponse, Goto, Handlers
  <2>2. NetTypeOK' /\ rtc' \in {"unset", "synced", "garbage"}
    BY <1>0, <1>7, CheckNtpResponseType
  <2>3. since' \in 0 .. MaxPass /\ elapsed' \in 0 .. MaxPass
    BY <2>1 DEF TypeOK
  <2>. QED
    BY <2>1, <2>2, <2>3, TypeJoin
<1>8. ASSUME CheckBEResponse PROVE TypeOK'
  <2>1. pc' \in Handlers /\ UNCHANGED <<since, elapsed, rtc>>
    BY <1>8 DEF CheckBEResponse, Goto, Handlers
  <2>2. NetTypeOK'
    BY <1>0, <1>8, CheckBEResponseType
  <2>. QED
    BY <2>1, <2>2, HandlerType
<1>9. ASSUME CheckWifiConnecting PROVE TypeOK'
  <2>1. pc' \in Handlers /\ UNCHANGED <<since, elapsed, rtc>>
    BY <1>9 DEF CheckWifiConnecting, Goto, Handlers
  <2>2. PICK up \in IsWifiConnected :
          IF JoinOver(up)
            THEN SetWifiConnectionState(up, FALSE, timers)
            ELSE UNCHANGED <<timers, left, sessionVars, wifiVars, errors, sockVars, radioVars>>
    BY <1>9 DEF CheckWifiConnecting
  <2>3. up \in BOOLEAN
    BY DEF IsWifiConnected
  <2>4. CASE SetWifiConnectionState(up, FALSE, timers)
    <3>1. timers \in TimerTables /\ FALSE \in BOOLEAN
      BY <1>0 DEF NetTypeOK
    <3>2. NetTypeOK'
      BY <1>0, <2>3, <2>4, <3>1, SetWifiConnectionStateType
    <3>. QED
      BY <2>1, <3>2, HandlerType
  <2>5. CASE ~SetWifiConnectionState(up, FALSE, timers)
    <3>1. UNCHANGED <<timers, left, sessionVars, wifiVars, errors, sockVars, radioVars>>
      BY <2>2, <2>5
    <3>. QED
      BY <2>1, <3>1 DEF TypeOK, sessionVars, wifiVars, sockVars, radioVars, peerVars
  <2>. QED
    BY <2>4, <2>5
<1>10. ASSUME SysTick PROVE TypeOK'
  <2>1. since' \in 0 .. MaxPass
    BY <1>10, <1>i, BoundAssumption DEF SysTick, Positive
  <2>2. left' \in [Waits -> Nat]
    BY <1>10 DEF SysTick, TypeOK
  <2>3. UNCHANGED <<pc, elapsed, timers, sessionVars, wifiVars, rtc, errors, sockVars, radioVars>>
    BY <1>10 DEF SysTick
  <2>. QED
    BY <2>1, <2>2, <2>3 DEF TypeOK, sessionVars, wifiVars, sockVars, radioVars, peerVars
<1>11. ASSUME Environment PROVE TypeOK'
  <2>1. UNCHANGED <<loopVars, timers, left, sessionVars, wifiVars, rtc, errors, sockVars>>
    BY <1>11 DEF Environment, LinkChanges, DatagramArrives, ChunkArrives, PeerCloses, RadioReclaims
  <2>2. link' \in {"IDLE", "CONNECTED", "OTHER"}
    BY <1>11 DEF Environment, LinkChanges, DatagramArrives, ChunkArrives, PeerCloses,
       RadioReclaims, TypeOK
  <2>3. rsock' \in [Sockets -> {"free", "udp", "tls"}]
    BY <1>11 DEF Environment, LinkChanges, DatagramArrives, ChunkArrives, PeerCloses,
       RadioReclaims, TypeOK
  <2>4. peerOpen' \in BOOLEAN /\ inbox' \in BOOLEAN
    BY <1>11 DEF Environment, LinkChanges, DatagramArrives, ChunkArrives, PeerCloses,
       RadioReclaims, TypeOK, peerVars
  <2>5. toCome' = toCome \/ toCome' = 0 \/ (toCome > 0 /\ toCome' = toCome - 1)
    BY <1>11 DEF Environment, LinkChanges, DatagramArrives, ChunkArrives, PeerCloses,
       RadioReclaims, peerVars
  <2>6. toCome' \in 0 .. MaxChunks
    BY <2>5, BoundAssumption DEF TypeOK
  <2>. QED
    BY <2>1, <2>2, <2>3, <2>4, <2>6 DEF TypeOK, loopVars, sessionVars, wifiVars, sockVars
<1>12. CASE UNCHANGED vars
  BY <1>12 DEF TypeOK, vars, loopVars, sessionVars, wifiVars, sockVars, radioVars, peerVars
<1>. QED
  BY <1>1, <1>2, <1>3, <1>4, <1>5, <1>6, <1>7, <1>8, <1>9, <1>10, <1>11, <1>12
     DEF Next, Superloop

LEMMA TypeInit == Init => TypeOK
<1>. SUFFICES ASSUME Init PROVE TypeOK
  OBVIOUS
<1>1. since \in 0 .. MaxPass /\ elapsed \in 0 .. MaxPass /\ toCome \in 0 .. MaxChunks
  BY BoundAssumption DEF Init, Positive
<1>2. timers \in TimerTables
  BY DEF Init, TimerTables
<1>. QED
  BY <1>1, <1>2 DEF Init, TypeOK, TimerTables, Handlers, Waits, Errors

\* Every variable of the device and of the radio keeps its type.
THEOREM TypeCorrect == Spec => []TypeOK
<1>1. TypeOK /\ [Next]_vars => TypeOK'
  BY TypeStep
<1>. QED
  BY TypeInit, <1>1, PTL DEF Spec

-----------------------------------------------------------------------------
(* Who owns the socket and its buffer. *)

LEMMA OwnershipKept ==
  ASSUME Ownership, UNCHANGED <<waiting_on_NTP_response, waiting_on_BE_response, sockVars>>
  PROVE  Ownership'
BY DEF Ownership, OneConversation, SocketHasOwner, PostHasSocket, OneBuffer, sockVars

\* Once the socket is given back no buffer is left.
LEMMA NoBufferLeft ==
  ASSUME TypeOK, OneBuffer
  PROVE  \A x \in Sockets : Stopped_buf[x] = "null"
BY DEF TypeOK, OneBuffer, Stopped_buf, Without

LEMMA GetTimeOwnership ==
  ASSUME TypeOK, Ownership, NEW tm, GetTime(tm)
  PROVE  Ownership'
<1>1. CASE waiting_on_BE_response
  <2>1. UNCHANGED <<sessionVars, sockVars>>
    BY <1>1 DEF GetTime
  <2>. QED
    BY <2>1, OwnershipKept DEF sessionVars
<1>2. CASE ~waiting_on_BE_response
  <2>1. buf' = Stopped_buf /\ waiting_on_BE_response' = FALSE
    BY <1>2 DEF GetTime, BeginUDP, TypeOK
  <2>2. sock' = NoSock \/ waiting_on_NTP_response' = TRUE
    BY <1>2 DEF GetTime, BeginUDP
  <2>3. OneBuffer'
    BY <2>1, NoBufferLeft DEF Ownership, OneBuffer
  <2>. QED
    BY <2>1, <2>2, <2>3 DEF Ownership, OneConversation, SocketHasOwner, PostHasSocket
<1>. QED
  BY <1>1, <1>2

LEMMA SetWifiConnectionStateOwnership ==
  ASSUME TypeOK, Ownership, NEW c, NEW j, NEW tm, SetWifiConnectionState(c, j, tm)
  PROVE  Ownership'
<1>1. \/ UNCHANGED <<sessionVars, sockVars>>
      \/ GetTime(StopTimer(tm, "WIFI_RECONNECT_TICK"))
  BY DEF SetWifiConnectionState
<1>. QED
  BY <1>1, GetTimeOwnership, OwnershipKept DEF sessionVars

LEMMA RemoteSyncOwnership ==
  ASSUME TypeOK, Ownership, RemoteSync
  PROVE  Ownership'
<1>1. CASE UNCHANGED <<sessionVars, sockVars>>
  BY <1>1, OwnershipKept DEF sessionVars
<1>2. CASE /\ ~waiting_on_BE_response /\ ~waiting_on_NTP_response
           /\ ConnectAndPost
  <2>1. PICK s \in SocketOffers(Stopped_rsock) :
          \/ /\ s # NoSock
             /\ sock' = s
             /\ \E found \in {"empty", "data"} : buf' = Without(Stopped_buf, s, found)
             /\ waiting_on_BE_response' = TRUE
          \/ /\ sock' = NoSock
             /\ buf' = Stopped_buf
             /\ UNCHANGED waiting_on_BE_response
    BY <1>2 DEF ConnectAndPost, ConnectSSLHost, ConnectSSLHostFails, NoPeer
  <2>2. waiting_on_NTP_response' = waiting_on_NTP_response
    BY <1>2 DEF ConnectAndPost, ConnectSSLHost, ConnectSSLHostFails, NoPeer
  <2>3. OneBuffer'
    <3>1. DOMAIN Stopped_buf = Sockets
      BY DEF TypeOK, Stopped_buf, Without
    <3>2. \A found : \A x \in Sockets : Without(Stopped_buf, s, found)[x] # "null" => x = s
      BY <3>1, NoBufferLeft DEF Ownership, Without
    <3>. QED
      BY <2>1, <3>2, NoBufferLeft DEF OneBuffer, Ownership
  <2>. QED
    BY <1>2, <2>1, <2>2, <2>3
       DEF Ownership, OneConversation, SocketHasOwner, PostHasSocket
<1>. QED
  BY <1>1, <1>2 DEF RemoteSync, CannotPost, sessionVars

LEMMA CheckNtpResponseOwnership ==
  ASSUME TypeOK, Ownership, CheckNtpResponse
  PROVE  Ownership'
<1>1. UNCHANGED waiting_on_BE_response
  BY DEF CheckNtpResponse
<1>2. CASE UNCHANGED <<waiting_on_NTP_response, sockVars>>
  BY <1>1, <1>2, OwnershipKept
<1>3. CASE /\ waiting_on_NTP_response /\ waiting_on_NTP_response' = FALSE
           /\ StopSocket
  <2>1. ~waiting_on_BE_response' /\ sock' = NoSock /\ buf' = Stopped_buf
    BY <1>1, <1>3 DEF Ownership, OneConversation, StopSocket
  <2>2. OneBuffer'
    BY <2>1, NoBufferLeft DEF Ownership, OneBuffer
  <2>. QED
    BY <1>3, <2>1, <2>2 DEF Ownership, OneConversation, SocketHasOwner, PostHasSocket
<1>. QED
  BY <1>2, <1>3 DEF CheckNtpResponse

LEMMA CheckBEResponseOwnership ==
  ASSUME TypeOK, Ownership, CheckBEResponse
  PROVE  Ownership'
<1>1. UNCHANGED waiting_on_NTP_response
  BY DEF CheckBEResponse, sessionVars
<1>2. CASE ~waiting_on_BE_response
  BY <1>2, OwnershipKept DEF CheckBEResponse, sessionVars
<1>3. CASE waiting_on_BE_response /\ sock' = NoSock /\ buf' = Stopped_buf
           /\ waiting_on_BE_response' = FALSE
  <2>1. OneBuffer'
    BY <1>3, NoBufferLeft DEF Ownership, OneBuffer
  <2>. QED
    BY <1>3, <2>1 DEF Ownership, OneConversation, SocketHasOwner, PostHasSocket
<1>4. CASE /\ UNCHANGED <<waiting_on_BE_response, sock>>
           /\ \/ buf' = Without(buf, sock, "data")
              \/ buf' = Without(buf, sock, "empty")
  <2>1. OneBuffer'
    BY <1>4 DEF TypeOK, Ownership, OneBuffer, Without
  <2>. QED
    BY <1>1, <1>4, <2>1 DEF Ownership, OneConversation, SocketHasOwner, PostHasSocket
<1>. QED
  BY <1>2, <1>3, <1>4
     DEF CheckBEResponse, BETimeout, DrainBEResponse, StopSocket, ForgetSocket

LEMMA OwnershipStep ==
  ASSUME TypeOK, Ownership, [Next]_vars
  PROVE  Ownership'
<1>. DEFINE Kept == UNCHANGED <<waiting_on_NTP_response, waiting_on_BE_response, sockVars>>
<1>1. ASSUME RemoteSyncTick PROVE Ownership'
  <2>1. Kept \/ RemoteSync
    BY <1>1 DEF RemoteSyncTick, Skip, sessionVars
  <2>. QED
    BY <2>1, OwnershipKept, RemoteSyncOwnership
<1>2. ASSUME GetTimeTick PROVE Ownership'
  <2>1. Kept \/ GetTime(Visited("NTP_TIME_SYNC_TICK"))
    BY <1>2 DEF GetTimeTick, Skip, sessionVars
  <2>. QED
    BY <2>1, OwnershipKept, GetTimeOwnership
<1>3. ASSUME WifiCheckTick PROVE Ownership'
  <2>1. \/ Kept
        \/ \E c, j : SetWifiConnectionState(c, j, Visited("WIFI_CHECK_STAT_TICK"))
    BY <1>3 DEF WifiCheckTick, WifiCheck, Skip, sessionVars
  <2>. QED
    BY <2>1, OwnershipKept, SetWifiConnectionStateOwnership
<1>4. ASSUME CheckWifiConnecting PROVE Ownership'
  <2>1. Kept \/ \E c : SetWifiConnectionState(c, FALSE, timers)
    BY <1>4 DEF CheckWifiConnecting, sessionVars
  <2>. QED
    BY <2>1, OwnershipKept, SetWifiConnectionStateOwnership
<1>5. ASSUME RemoteInit \/ UpdateTimers \/ WifiReconnectTick \/ SysTick \/ Environment
             \/ UNCHANGED vars
      PROVE  Ownership'
  <2>1. Kept
    BY <1>5 DEF RemoteInit, UpdateTimers, WifiReconnectTick, Skip, SysTick, Environment,
       LinkChanges, DatagramArrives, ChunkArrives, PeerCloses, RadioReclaims, vars, sessionVars
  <2>. QED
    BY <2>1, OwnershipKept
<1>. QED
  BY <1>1, <1>2, <1>3, <1>4, <1>5, CheckNtpResponseOwnership, CheckBEResponseOwnership
     DEF Next, Superloop

LEMMA OwnershipInit == Init => Ownership
BY DEF Init, Ownership, OneConversation, SocketHasOwner, PostHasSocket, OneBuffer

LEMMA OwnershipInvariant == Spec => []Ownership
<1>1. TypeOK /\ TypeOK' /\ Ownership /\ [Next]_vars => Ownership'
  BY OwnershipStep
<1>. QED
  BY OwnershipInit, <1>1, TypeCorrect, PTL DEF Spec

\* The NTP request and the post of a reading never overlap on the one _sock.
THEOREM NeverTwoConversations == Spec => []OneConversation
<1>1. Ownership => OneConversation
  BY DEF Ownership
<1>. QED
  BY <1>1, OwnershipInvariant, PTL

\* No exit of a conversation leaves _sock behind.
THEOREM SocketGivenBack == Spec => []SocketHasOwner
<1>1. Ownership => SocketHasOwner
  BY DEF Ownership
<1>. QED
  BY <1>1, OwnershipInvariant, PTL

\* No exit of a conversation leaves a buffer on the heap, whatever the number
\* of sockets of the radio.
THEOREM NoBufferLeak == Spec => []OneBuffer
<1>1. Ownership => OneBuffer
  BY DEF Ownership
<1>. QED
  BY <1>1, OwnershipInvariant, PTL

-----------------------------------------------------------------------------
(* The timers of the connection check and of the reconnection. *)

\* Visiting a timer changes no other one.
LEMMA VisitedOthers ==
  ASSUME TypeOK, NEW t \in Timers, NEW u \in Timers
  PROVE  Visited(t)[u] = IF u = t THEN Stepped(timers[t], elapsed, Interval[t]) ELSE timers[u]
BY DEF TypeOK, Visited

\* getTime writes no timer but its own.
LEMMA GetTimeTimers ==
  ASSUME NEW tm \in TimerTables, GetTime(tm), NEW u \in Timers \ {"NTP_TIME_SYNC_TICK"}
  PROVE  timers'[u] = tm[u]
BY DEF GetTime, TimerTables

\* setWifiConnectionState writes no timer but those of getTime and of the
\* reconnection.
LEMMA SetWifiConnectionStateTimers ==
  ASSUME NEW tm \in TimerTables, NEW c, NEW j, SetWifiConnectionState(c, j, tm),
         NEW u \in Timers \ {"NTP_TIME_SYNC_TICK", "WIFI_RECONNECT_TICK"}
  PROVE  timers'[u] = tm[u]
<1>. DEFINE stopped  == StopTimer(tm, "WIFI_RECONNECT_TICK")
            reloaded == ReloadTimer(tm, "WIFI_RECONNECT_TICK")
<1>1. stopped \in TimerTables /\ stopped[u] = tm[u] /\ reloaded[u] = tm[u]
  BY DEF TimerTables, StopTimer, ReloadTimer
<1>2. timers' = tm \/ timers' = stopped \/ timers' = reloaded \/ GetTime(stopped)
  BY DEF SetWifiConnectionState
<1>3. CASE GetTime(stopped)
  BY <1>1, <1>3, GetTimeTimers
<1>. QED
  BY <1>1, <1>2, <1>3

\* setWifiConnectionState sets or stops the reconnect timer as the new state
\* asks, and joins only when the connection is lost.
LEMMA SetWifiConnectionStateArms ==
  ASSUME TypeOK, ReconnectArmed, NEW tm \in TimerTables,
         tm["WIFI_RECONNECT_TICK"] = timers["WIFI_RECONNECT_TICK"],
         NEW c \in BOOLEAN, NEW j \in BOOLEAN, (j = wifi_connecting /\ wifi_connected) \/ ~j,
         SetWifiConnectionState(c, j, tm)
  PROVE  ReconnectArmed'
<1>. DEFINE stopped  == StopTimer(tm, "WIFI_RECONNECT_TICK")
            reloaded == ReloadTimer(tm, "WIFI_RECONNECT_TICK")
            rec == "WIFI_RECONNECT_TICK"
<1>1. /\ stopped \in TimerTables /\ stopped[rec] = Stopped
      /\ reloaded[rec] = WIFI_RECONNECT_INTERVAL /\ WIFI_RECONNECT_INTERVAL # Stopped
  BY TimeAssumption DEF TimerTables, Timers, Stopped, Positive, StopTimer, ReloadTimer, Interval
<1>2. wifi_connected' = c /\ once' = (once \/ (c /\ ~wifi_connected))
  BY DEF SetWifiConnectionState
<1>3. CASE ~c /\ wifi_connected
  <2>1. timers' = reloaded
    BY <1>3 DEF SetWifiConnectionState
  <2>. QED
    BY <1>1, <1>2, <1>3, <2>1 DEF ReconnectArmed
<1>4. CASE c /\ ~wifi_connected
  <2>1. wifi_connecting' = j /\ (timers' = stopped \/ GetTime(stopped))
    BY <1>4 DEF SetWifiConnectionState
  <2>2. timers'[rec] = Stopped
    BY <1>1, <2>1, GetTimeTimers DEF Timers
  <2>. QED
    BY <1>2, <1>4, <2>1, <2>2 DEF ReconnectArmed, TypeOK
<1>5. CASE c = wifi_connected
  <2>1. wifi_connecting' = j /\ timers' = tm
    BY <1>5 DEF SetWifiConnectionState
  <2>. QED
    BY <1>2, <1>5, <2>1 DEF ReconnectArmed, TypeOK
<1>. QED
  BY <1>3, <1>4, <1>5 DEF TypeOK

\* A step that leaves the state of the connection and the reconnect timer.
LEMMA ReconnectKept ==
  ASSUME ReconnectArmed, UNCHANGED wifiVars,
         timers'["WIFI_RECONNECT_TICK"] = timers["WIFI_RECONNECT_TICK"]
  PROVE  ReconnectArmed'
BY DEF ReconnectArmed, wifiVars

LEMMA ReconnectStep ==
  ASSUME TypeOK, NothingBeforeBoot, ReconnectArmed, [Next]_vars
  PROVE  ReconnectArmed'
<1>. DEFINE rec == "WIFI_RECONNECT_TICK"
<1>0. timers \in TimerTables /\ rec \in Timers
  BY DEF TypeOK, TimerTables, Timers
<1>1. ASSUME RemoteInit PROVE ReconnectArmed'
  BY <1>1 DEF RemoteInit, Goto, NothingBeforeBoot, ReconnectArmed
<1>2. ASSUME RemoteSyncTick PROVE ReconnectArmed'
  <2>1. timers' = Visited("REMOTE_SYNC_TICK") /\ UNCHANGED wifiVars
    BY <1>2 DEF RemoteSyncTick, Skip
  <2>. QED
    BY <1>0, <2>1, VisitedOthers, ReconnectKept DEF Timers
<1>3. ASSUME GetTimeTick PROVE ReconnectArmed'
  <2>1. /\ UNCHANGED wifiVars
        /\ \/ timers' = Visited("NTP_TIME_SYNC_TICK")
           \/ GetTime(Visited("NTP_TIME_SYNC_TICK"))
    BY <1>3 DEF GetTimeTick, Skip
  <2>2. /\ Visited("NTP_TIME_SYNC_TICK") \in TimerTables
        /\ Visited("NTP_TIME_SYNC_TICK")[rec] = timers[rec]
    BY <1>0, VisitedType, VisitedOthers DEF Timers
  <2>3. timers'[rec] = timers[rec]
    BY <1>0, <2>1, <2>2, GetTimeTimers
  <2>. QED
    BY <2>1, <2>3, ReconnectKept
<1>4. ASSUME WifiCheckTick PROVE ReconnectArmed'
  <2>. DEFINE tm == Visited("WIFI_CHECK_STAT_TICK")
  <2>1. tm \in TimerTables /\ tm[rec] = timers[rec]
    BY <1>0, VisitedType, VisitedOthers DEF Timers
  <2>. HIDE DEF tm
  <2>2. CASE timers' = tm /\ UNCHANGED wifiVars
    BY <2>1, <2>2, ReconnectKept
  <2>3. CASE wifi_connected /\ WifiCheck(tm)
    <3>1. PICK up \in IsWifiConnected, status \in ClientStatus :
            SetWifiConnectionState(up /\ status # "CLOSED", wifi_connecting, tm)
      BY <2>3 DEF WifiCheck
    <3>2. (up /\ status # "CLOSED") \in BOOLEAN /\ wifi_connecting \in BOOLEAN
      BY DEF TypeOK
    <3>. QED
      BY <2>1, <2>3, <3>1, <3>2, SetWifiConnectionStateArms
  <2>. QED
    BY <1>4, <2>2, <2>3 DEF WifiCheckTick, WifiCheck, Skip, tm
<1>5. ASSUME WifiReconnectTick PROVE ReconnectArmed'
  <2>1. CASE Skip(rec)
    <3>1. timers' = Visited(rec) /\ UNCHANGED wifiVars
      BY <2>1 DEF Skip
    <3>2. Interval[rec] \in Positive /\ elapsed \in Nat
      BY <1>0, IntervalType, BoundAssumption DEF TypeOK, Positive
    <3>3. timers[rec] \in {Stopped} \cup Positive
      BY <1>0 DEF TimerTables
    <3>4. timers'[rec] = Stepped(timers[rec], elapsed, Interval[rec])
      BY <1>0, <3>1, VisitedOthers
    <3>5. (timers'[rec] = Stopped) = (timers[rec] = Stopped)
      BY <3>2, <3>3, <3>4, SteppedType
    <3>. QED
      BY <3>1, <3>5 DEF ReconnectArmed, wifiVars
  <2>2. CASE RunsOut(rec) /\ timers' = Visited(rec) /\ UNCHANGED <<wifi_connected, once>>
    <3>1. timers[rec] # Stopped
      BY <2>2 DEF RunsOut, Due
    <3>2. Interval[rec] \in Positive /\ elapsed \in Nat
      BY <1>0, IntervalType, BoundAssumption DEF TypeOK, Positive
    <3>3. timers'[rec] # Stopped
      BY <1>0, <2>2, <3>1, <3>2, VisitedOthers, SteppedType DEF TimerTables
    <3>. QED
      BY <2>2, <3>1, <3>3 DEF ReconnectArmed
  <2>. QED
    BY <1>5, <2>1, <2>2 DEF WifiReconnectTick
<1>6. ASSUME CheckNtpResponse PROVE ReconnectArmed'
  <2>1. timers'[rec] = timers[rec] /\ UNCHANGED wifiVars
    BY <1>0, <1>6 DEF CheckNtpResponse, TimerTables
  <2>. QED
    BY <2>1, ReconnectKept
<1>7. ASSUME CheckWifiConnecting PROVE ReconnectArmed'
  <2>1. PICK up \in IsWifiConnected :
          \/ SetWifiConnectionState(up, FALSE, timers)
          \/ UNCHANGED <<timers, wifiVars>>
    BY <1>7 DEF CheckWifiConnecting
  <2>2. up \in BOOLEAN /\ FALSE \in BOOLEAN
    BY DEF IsWifiConnected
  <2>. QED
    BY <1>0, <2>1, <2>2, SetWifiConnectionStateArms, ReconnectKept
<1>8. ASSUME UpdateTimers \/ CheckBEResponse \/ SysTick \/ Environment \/ UNCHANGED vars
      PROVE  ReconnectArmed'
  <2>1. UNCHANGED <<timers, wifiVars>>
    BY <1>8 DEF UpdateTimers, CheckBEResponse, SysTick, Environment, LinkChanges,
       DatagramArrives, ChunkArrives, PeerCloses, RadioReclaims, vars
  <2>. QED
    BY <2>1, ReconnectKept
<1>. QED
  BY <1>1, <1>2, <1>3, <1>4, <1>5, <1>6, <1>7, <1>8 DEF Next, Superloop

\* The timers of remoteSync and of the connection check run out together.
LEMMA InStepStep ==
  ASSUME TypeOK, InStep, [Next]_vars
  PROVE  InStep'
<1>. DEFINE SameTimers ==
       /\ timers'["REMOTE_SYNC_TICK"] = timers["REMOTE_SYNC_TICK"]
       /\ timers'["WIFI_CHECK_STAT_TICK"] = timers["WIFI_CHECK_STAT_TICK"]
<1>0. timers \in TimerTables
  BY DEF TypeOK, TimerTables
<1>1. ASSUME RemoteInit PROVE InStep'
  <2>1. timers' = StopTimer(Interval, "WIFI_RECONNECT_TICK") /\ pc' = "updateTimers"
    BY <1>1 DEF RemoteInit, Goto
  <2>. QED
    BY <2>1, TimeAssumption DEF InStep, Interval, StopTimer
<1>2. ASSUME RemoteSyncTick PROVE InStep'
  <2>1. /\ pc = "remoteSync" /\ pc' = "getTime" /\ elapsed' = elapsed
        /\ timers' = Visited("REMOTE_SYNC_TICK")
    BY <1>2 DEF RemoteSyncTick, Skip, Goto
  <2>2. /\ timers'["REMOTE_SYNC_TICK"] =
             Stepped(timers["REMOTE_SYNC_TICK"], elapsed, DEFAULT_REMOTE_SYNC_INTERVAL)
        /\ timers'["WIFI_CHECK_STAT_TICK"] = timers["WIFI_CHECK_STAT_TICK"]
    BY <2>1, VisitedOthers DEF Timers, Interval
  <2>. QED
    BY <2>1, <2>2, TimeAssumption DEF InStep
<1>3. ASSUME GetTimeTick PROVE InStep'
  <2>1. /\ pc = "getTime" /\ pc' = "wifiCheck" /\ elapsed' = elapsed
        /\ \/ timers' = Visited("NTP_TIME_SYNC_TICK")
           \/ GetTime(Visited("NTP_TIME_SYNC_TICK"))
    BY <1>3 DEF GetTimeTick, Skip, Goto
  <2>2. /\ Visited("NTP_TIME_SYNC_TICK") \in TimerTables
        /\ \A u \in {"REMOTE_SYNC_TICK", "WIFI_CHECK_STAT_TICK"} :
             Visited("NTP_TIME_SYNC_TICK")[u] = timers[u]
    BY VisitedType, VisitedOthers DEF Timers
  <2>3. SameTimers
    BY <2>1, <2>2, GetTimeTimers DEF Timers
  <2>. QED
    BY <2>1, <2>3 DEF InStep
<1>4. ASSUME WifiCheckTick PROVE InStep'
  <2>. DEFINE tm == Visited("WIFI_CHECK_STAT_TICK")
  <2>1. pc = "wifiCheck" /\ pc' = "wifiReconnect"
    BY <1>4 DEF WifiCheckTick, Goto
  <2>2. /\ tm \in TimerTables
        /\ tm["REMOTE_SYNC_TICK"] = timers["REMOTE_SYNC_TICK"]
        /\ tm["WIFI_CHECK_STAT_TICK"] =
             Stepped(timers["WIFI_CHECK_STAT_TICK"], elapsed, WIFI_CHECK_STAT_INTERVAL)
    BY VisitedType, VisitedOthers DEF Timers, Interval
  <2>3. timers' = tm \/ \E c, j : SetWifiConnectionState(c, j, tm)
    BY <1>4 DEF WifiCheckTick, WifiCheck, Skip
  <2>. HIDE DEF tm
  <2>4. /\ timers'["REMOTE_SYNC_TICK"] = tm["REMOTE_SYNC_TICK"]
        /\ timers'["WIFI_CHECK_STAT_TICK"] = tm["WIFI_CHECK_STAT_TICK"]
    BY <2>2, <2>3, SetWifiConnectionStateTimers DEF Timers
  <2>. QED
    BY <2>1, <2>2, <2>4 DEF InStep
<1>5. ASSUME WifiReconnectTick PROVE InStep'
  <2>1. /\ pc = "wifiReconnect" /\ pc' = "checkNtpResponse"
        /\ timers' = Visited("WIFI_RECONNECT_TICK")
    BY <1>5 DEF WifiReconnectTick, Skip, Goto
  <2>2. SameTimers
    BY <2>1, VisitedOthers DEF Timers
  <2>. QED
    BY <2>1, <2>2 DEF InStep
<1>6. ASSUME CheckNtpResponse PROVE InStep'
  <2>1. pc = "checkNtpResponse" /\ pc' = "checkBEResponse" /\ SameTimers
    BY <1>0, <1>6 DEF CheckNtpResponse, Goto, TimerTables, Timers
  <2>. QED
    BY <2>1 DEF InStep
<1>7. ASSUME CheckWifiConnecting PROVE InStep'
  <2>1. /\ pc = "checkWifiConnecting" /\ pc' = "updateTimers"
        /\ timers' = timers \/ \E c : SetWifiConnectionState(c, FALSE, timers)
    BY <1>7 DEF CheckWifiConnecting, Goto
  <2>2. SameTimers
    BY <1>0, <2>1, SetWifiConnectionStateTimers DEF Timers
  <2>. QED
    BY <2>1, <2>2 DEF InStep
<1>8. ASSUME UpdateTimers \/ CheckBEResponse PROVE InStep'
  BY <1>8 DEF UpdateTimers, CheckBEResponse, Goto, InStep
<1>9. ASSUME SysTick \/ Environment \/ UNCHANGED vars PROVE InStep'
  <2>1. UNCHANGED <<pc, elapsed, timers>>
    BY <1>9 DEF SysTick, Environment, LinkChanges, DatagramArrives, ChunkArrives,
       PeerCloses, RadioReclaims, vars, loopVars
  <2>. QED
    BY <2>1 DEF InStep
<1>. QED
  BY <1>1, <1>2, <1>3, <1>4, <1>5, <1>6, <1>7, <1>8, <1>9 DEF Next, Superloop

LEMMA BootStep ==
  ASSUME NothingBeforeBoot, [Next]_vars
  PROVE  NothingBeforeBoot'
<1>1. CASE Superloop
  BY <1>1 DEF Superloop, RemoteInit, UpdateTimers, RemoteSyncTick, GetTimeTick, WifiCheckTick,
     WifiReconnectTick, CheckNtpResponse, CheckBEResponse, CheckWifiConnecting, Goto,
     NothingBeforeBoot
<1>2. CASE SysTick \/ Environment \/ UNCHANGED vars
  <2>1. UNCHANGED <<pc, timers, wifiVars>>
    BY <1>2 DEF SysTick, Environment, LinkChanges, DatagramArrives, ChunkArrives,
       PeerCloses, RadioReclaims, vars, loopVars
  <2>. QED
    BY <2>1 DEF NothingBeforeBoot, wifiVars
<1>. QED
  BY <1>1, <1>2 DEF Next

\* The inductive invariant holds: the sockets have their owners, nothing runs
\* before start-up has ended, the reconnect timer is armed when it must be, and
\* the state of Remote.c and that of the application are in step.
THEOREM InductiveInvariant == Spec => []IInv
<1>1. Init => NothingBeforeBoot /\ ReconnectArmed /\ InStep
  BY DEF Init, NothingBeforeBoot, ReconnectArmed, InStep, Timers
<1>2. TypeOK /\ Ownership /\ IInv /\ [Next]_vars => IInv'
  BY OwnershipStep, BootStep, ReconnectStep, InStepStep DEF IInv
<1>3. Init => IInv
  BY <1>1, OwnershipInit DEF IInv
<1>. QED
  BY <1>2, <1>3, TypeCorrect, OwnershipInvariant, PTL DEF Spec

\* A device that fell off the network always has its reconnect timer running.
THEOREM AlwaysArmed == Spec => []ReconnectArmed
<1>1. IInv => ReconnectArmed
  BY DEF IInv
<1>. QED
  BY <1>1, InductiveInvariant, PTL

\* The connection check and remoteSync never drift apart, however late the
\* passes of the super-loop are and however they vary.
THEOREM AlwaysInStep == Spec => []InStep
<1>1. IInv => InStep
  BY DEF IInv
<1>. QED
  BY <1>1, InductiveInvariant, PTL

-----------------------------------------------------------------------------
(* The remote part implements RemoteSession. *)

\* Nobody outside sees a step that leaves the two waits and the clock alone.
LEMMA QuietStep ==
  ASSUME OneConversation, OneConversation',
         UNCHANGED <<waiting_on_NTP_response, waiting_on_BE_response, rtc>>
  PROVE  UNCHANGED Session!vars
BY DEF Session!vars, OneConversation

LEMMA GetTimeSession ==
  ASSUME TypeOK, OneConversation, OneConversation', NEW tm, GetTime(tm), UNCHANGED rtc
  PROVE  [Session!Next]_(Session!vars)
<1>1. CASE UNCHANGED <<waiting_on_NTP_response, waiting_on_BE_response>>
  BY <1>1, QuietStep
<1>2. CASE /\ ~waiting_on_BE_response /\ ~waiting_on_BE_response'
           /\ waiting_on_NTP_response' /\ ~waiting_on_NTP_response
  BY <1>2 DEF Session!Next, Session!AskTime, OneConversation
<1>. QED
  BY <1>1, <1>2 DEF GetTime, sessionVars, TypeOK

LEMMA SetWifiConnectionStateSession ==
  ASSUME TypeOK, OneConversation, OneConversation', NEW c, NEW j, NEW tm,
         SetWifiConnectionState(c, j, tm), UNCHANGED rtc
  PROVE  [Session!Next]_(Session!vars)
<1>1. \/ UNCHANGED <<waiting_on_NTP_response, waiting_on_BE_response>>
      \/ GetTime(StopTimer(tm, "WIFI_RECONNECT_TICK"))
  BY DEF SetWifiConnectionState, sessionVars
<1>. QED
  BY <1>1, QuietStep, GetTimeSession

\* A reading is posted only when the clock is set and nobody else talks.
LEMMA RemoteSyncSession ==
  ASSUME TypeOK, OneConversation, OneConversation', RemoteSync, UNCHANGED rtc
  PROVE  [Session!Next]_(Session!vars)
<1>1. CASE UNCHANGED <<waiting_on_NTP_response, waiting_on_BE_response>>
  BY <1>1, QuietStep
<1>2. CASE /\ rtc # "unset" /\ ~waiting_on_NTP_response /\ ~waiting_on_BE_response
           /\ waiting_on_BE_response' /\ ~waiting_on_NTP_response'
  BY <1>2 DEF Session!Next, Session!PostReading, OneConversation
<1>. QED
  BY <1>1, <1>2 DEF RemoteSync, CannotPost, ConnectAndPost, ConnectSSLHost, ConnectSSLHostFails, NoPeer, sessionVars, TypeOK

LEMMA CheckNtpResponseSession ==
  ASSUME TypeOK, OneConversation, OneConversation', CheckNtpResponse
  PROVE  [Session!Next]_(Session!vars)
<1>1. CASE UNCHANGED <<waiting_on_NTP_response, waiting_on_BE_response, rtc>>
  BY <1>1, QuietStep
<1>2. CASE /\ waiting_on_NTP_response /\ waiting_on_NTP_response' = FALSE
           /\ UNCHANGED waiting_on_BE_response
           /\ rtc' # "unset" \/ UNCHANGED rtc
  BY <1>2 DEF Session!Next, Session!EndTime, OneConversation
<1>. QED
  BY <1>1, <1>2 DEF CheckNtpResponse

LEMMA CheckBEResponseSession ==
  ASSUME TypeOK, OneConversation, OneConversation', CheckBEResponse
  PROVE  [Session!Next]_(Session!vars)
<1>1. CASE UNCHANGED <<waiting_on_NTP_response, waiting_on_BE_response, rtc>>
  BY <1>1, QuietStep
<1>2. CASE /\ waiting_on_BE_response /\ waiting_on_BE_response' = FALSE
           /\ UNCHANGED <<waiting_on_NTP_response, rtc>>
  BY <1>2 DEF Session!Next, Session!EndReading, OneConversation
<1>. QED
  BY <1>1, <1>2 DEF CheckBEResponse, BETimeout, DrainBEResponse, sessionVars

LEMMA SessionStep ==
  ASSUME TypeOK, OneConversation, OneConversation', [Next]_vars
  PROVE  [Session!Next]_(Session!vars)
<1>. DEFINE Quiet == UNCHANGED <<waiting_on_NTP_response, waiting_on_BE_response>>
<1>1. ASSUME RemoteSyncTick PROVE [Session!Next]_(Session!vars)
  <2>1. UNCHANGED rtc /\ (Quiet \/ RemoteSync)
    BY <1>1 DEF RemoteSyncTick, Skip, sessionVars
  <2>. QED
    BY <2>1, QuietStep, RemoteSyncSession
<1>2. ASSUME GetTimeTick PROVE [Session!Next]_(Session!vars)
  <2>1. UNCHANGED rtc /\ (Quiet \/ GetTime(Visited("NTP_TIME_SYNC_TICK")))
    BY <1>2 DEF GetTimeTick, Skip, sessionVars
  <2>. QED
    BY <2>1, QuietStep, GetTimeSession
<1>3. ASSUME WifiCheckTick PROVE [Session!Next]_(Session!vars)
  <2>1. /\ UNCHANGED rtc
        /\ \/ Quiet
           \/ \E c, j : SetWifiConnectionState(c, j, Visited("WIFI_CHECK_STAT_TICK"))
    BY <1>3 DEF WifiCheckTick, WifiCheck, Skip, sessionVars
  <2>. QED
    BY <2>1, QuietStep, SetWifiConnectionStateSession
<1>4. ASSUME CheckWifiConnecting PROVE [Session!Next]_(Session!vars)
  <2>1. UNCHANGED rtc /\ (Quiet \/ \E c : SetWifiConnectionState(c, FALSE, timers))
    BY <1>4 DEF CheckWifiConnecting, sessionVars
  <2>. QED
    BY <2>1, QuietStep, SetWifiConnectionStateSession
<1>5. ASSUME RemoteInit \/ UpdateTimers \/ WifiReconnectTick \/ SysTick \/ Environment
             \/ UNCHANGED vars
      PROVE  [Session!Next]_(Session!vars)
  <2>1. Quiet /\ UNCHANGED rtc
    BY <1>5 DEF RemoteInit, UpdateTimers, WifiReconnectTick, Skip, SysTick, Environment,
       LinkChanges, DatagramArrives, ChunkArrives, PeerCloses, RadioReclaims, vars, sessionVars
  <2>. QED
    BY <2>1, QuietStep
<1>. QED
  BY <1>1, <1>2, <1>3, <1>4, <1>5, CheckNtpResponseSession, CheckBEResponseSession
     DEF Next, Superloop

LEMMA SessionInit == Init => Session!Init
BY DEF Init, Session!Init, OneConversation

\* Seen from outside, the remote part holds one conversation at a time and
\* posts no reading before the clock was set.
THEOREM ImplementsRemoteSession == Spec => ImplementsSession
<1>1. TypeOK /\ OneConversation /\ OneConversation' /\ [Next]_vars
        => [Session!Next]_(Session!vars)
  BY SessionStep
<1>. QED
  BY <1>1, SessionInit, TypeCorrect, NeverTwoConversations, PTL
     DEF Spec, ImplementsSession, Session!SafeSpec

=============================================================================
