---------------------------- MODULE Connectivity ----------------------------
(***************************************************************************)
(* The part of the firmware that keeps the device on the network: the      *)
(* super-loop of main.c, the timer callbacks of Application.c that concern *)
(* the network, the state machine of Remote.c, and the one socket variable *)
(* `_sock` that WiFiClient.c and WiFiUdp.c share.                          *)
(*                                                                         *)
(* The super-loop never blocks on purpose: every handler starts something, *)
(* notes a deadline and returns, and a later pass finds the answer or the  *)
(* deadline.  Between two handlers the SysTick interrupt moves the clock   *)
(* and the radio (a second processor), the access point and the servers    *)
(* do what they like.                                                      *)
(*                                                                         *)
(* Time is counted in ticks.  A deadline is kept as the time left to it,   *)
(* `end - millis()`, stopping at 0 where `millis() >= end` holds; the wrap *)
(* of the 32-bit counter is the subject of module MsClock.                 *)
(***************************************************************************)
EXTENDS TimerTable, FiniteSets

CONSTANTS
  Sockets,                       \* the sockets of the radio
  NoSock,                        \* NO_SOCKET_AVAIL
  NTP_RESPONSE_WAIT_TIME,
  BE_RESPONSE_WAIT_TIME,
  WIFI_CONNECTION_TIMEOUT,
  DEFAULT_REMOTE_SYNC_INTERVAL,
  DEFAULT_TIME_SYNC_INTERVAL,
  TIME_SYNC_RETRY_INTERVAL,
  WIFI_CHECK_STAT_INTERVAL,
  WIFI_RECONNECT_INTERVAL,
  MaxPass,                       \* bound: ticks between two reads of elapsedMS
  MaxChunks,                     \* bound: pieces the back end's answer comes in
  Lossy                          \* a reply of the radio may get lost on the SPI bus

Positive == Nat \ {0}

ASSUME SocketAssumption == NoSock \notin Sockets
ASSUME TimeAssumption ==
  /\ NTP_RESPONSE_WAIT_TIME \in Positive
  /\ BE_RESPONSE_WAIT_TIME \in Positive
  /\ WIFI_CONNECTION_TIMEOUT \in Positive
  /\ DEFAULT_REMOTE_SYNC_INTERVAL \in Positive
  /\ DEFAULT_TIME_SYNC_INTERVAL \in Positive
  /\ TIME_SYNC_RETRY_INTERVAL \in Positive
  /\ WIFI_CHECK_STAT_INTERVAL = DEFAULT_REMOTE_SYNC_INTERVAL
  /\ WIFI_RECONNECT_INTERVAL \in Positive
ASSUME BoundAssumption == MaxPass \in Positive /\ MaxChunks \in Nat /\ Lossy \in BOOLEAN

Interval ==
  [REMOTE_SYNC_TICK |-> DEFAULT_REMOTE_SYNC_INTERVAL,
   NTP_TIME_SYNC_TICK |-> DEFAULT_TIME_SYNC_INTERVAL,
   WIFI_CHECK_STAT_TICK |-> WIFI_CHECK_STAT_INTERVAL,
   WIFI_RECONNECT_TICK |-> WIFI_RECONNECT_INTERVAL]

Timers == {"REMOTE_SYNC_TICK", "NTP_TIME_SYNC_TICK", "WIFI_CHECK_STAT_TICK",
           "WIFI_RECONNECT_TICK"}

Waits == {"NTP", "BE", "WIFI"}

\* the bits of app._errors that the network sets
Errors == {"SYNCING_TIME", "SERVER_DNS_ISSUE", "SERVER_ISSUE"}

VARIABLES
  \* the super-loop
  pc,             \* the next handler of the pass
  since,          \* ticks since elapsedMS was last read
  elapsed,        \* time_elapsed, what this pass of updateTimers charges
  timers,         \* app.timers, the entries that concern the network
  left,           \* time left to ntp_response_end_time, BE_response_end_time
                  \* and wifi_connecting_end_time
  \* Remote.c and app
  waiting_on_NTP_response, waiting_on_BE_response, received_data_from_BE,
  wifi_connecting, wifi_connected,
  once,           \* setWifiConnectionState has asked for the time
  rtc,            \* the clock: "unset", "synced", or set from "garbage"
  errors,         \* app._errors
  \* WiFiClient.c, WiFiUdp.c, WiFiSocketBuffer.c
  sock,           \* _sock
  buf,            \* _buffers: no memory, allocated and empty, or with data
  \* the radio and the network behind it
  link,           \* what WiFi.status answers
  rsock,          \* what the radio uses each of its sockets for
  peerOpen,       \* the back end's end of the connection on `sock` is open
  inbox,          \* the radio holds unread data of `sock`
  toCome          \* pieces of the answer still on their way

loopVars    == <<pc, since, elapsed>>
sessionVars == <<waiting_on_NTP_response, waiting_on_BE_response,
                 received_data_from_BE>>
wifiVars    == <<wifi_connecting, wifi_connected, once>>
sockVars    == <<sock, buf>>
peerVars    == <<peerOpen, inbox, toCome>>
radioVars   == <<link, rsock, peerVars>>

vars == <<loopVars, timers, left, sessionVars, wifiVars, rtc, errors, sockVars,
          radioVars>>

Handlers == {"remoteInit", "updateTimers", "remoteSync", "getTime", "wifiCheck",
             "wifiReconnect", "checkNtpResponse", "checkBEResponse",
             "checkWifiConnecting"}

TypeOK ==
  /\ pc \in Handlers
  /\ since \in 0 .. MaxPass /\ elapsed \in 0 .. MaxPass
  /\ timers \in [Timers -> {Stopped} \cup Positive]
  /\ left \in [Waits -> Nat]
  /\ waiting_on_NTP_response \in BOOLEAN /\ waiting_on_BE_response \in BOOLEAN
  /\ received_data_from_BE \in BOOLEAN
  /\ wifi_connecting \in BOOLEAN /\ wifi_connected \in BOOLEAN /\ once \in BOOLEAN
  /\ rtc \in {"unset", "synced", "garbage"}
  /\ errors \subseteq Errors
  /\ sock \in Sockets \cup {NoSock}
  /\ buf \in [Sockets -> {"null", "empty", "data"}]
  /\ link \in {"IDLE", "CONNECTED", "OTHER"}
  /\ rsock \in [Sockets -> {"free", "udp", "tls"}]
  /\ peerOpen \in BOOLEAN /\ inbox \in BOOLEAN /\ toCome \in 0 .. MaxChunks

Init ==
  /\ pc = "remoteInit" /\ since = 0 /\ elapsed = 0
  /\ timers = [t \in Timers |-> Stopped]
  /\ left = [w \in Waits |-> 0]
  /\ waiting_on_NTP_response = FALSE /\ waiting_on_BE_response = FALSE
  /\ received_data_from_BE = FALSE
  /\ wifi_connecting = FALSE /\ wifi_connected = FALSE /\ once = FALSE
  /\ rtc = "unset" /\ errors = {}
  /\ sock = NoSock /\ buf = [s \in Sockets |-> "null"]
  /\ link \in {"IDLE", "OTHER"}
  /\ rsock = [s \in Sockets |-> "free"]
  /\ peerOpen = FALSE /\ inbox = FALSE /\ toCome = 0

-----------------------------------------------------------------------------
(* The timer macros of Application.c, on a timer table tm. *)

\* Faulty variant: the timer goes on.
StopTimer_Forgotten(tm, t) == tm

StopTimer(tm, t) == [tm EXCEPT ![t] = Stopped]

\* Faulty variant: the timer is not started again.
ReloadTimer_Forgotten(tm, t) == tm

ReloadTimer(tm, t) == [tm EXCEPT ![t] = Interval[t]]

-----------------------------------------------------------------------------
(* What the handlers read from the radio.  A reply lost on the bus leaves what
   the driver put in its place: status 255, client state CLOSED, no datagram,
   no socket, but a whole buffer of data (module SpiCall). *)

\* isWifiConnected: WiFi_status() = WL_CONNECTED.
IsWifiConnected == IF Lossy THEN {link = "CONNECTED", FALSE} ELSE {link = "CONNECTED"}

\* WiFiClient_status.  What the radio reports for a UDP socket is its own
\* affair; a connection the other side closed may still be winding down.
ClientStatus ==
  LET reported ==
        IF sock = NoSock \/ rsock[sock] = "free" THEN {"CLOSED"}
        ELSE IF rsock[sock] = "udp" THEN {"CLOSED", "ESTABLISHED"}
        ELSE IF peerOpen THEN {"ESTABLISHED"}
        ELSE {"CLOSED", "CLOSE_WAIT"}
  IN IF Lossy THEN reported \cup {"CLOSED"} ELSE reported

\* ServerDrv_getSocket, in a radio whose sockets are used as rs says.
SocketOffers(rs) ==
  LET free == {s \in Sockets : rs[s] = "free"}
  IN IF free = {} \/ Lossy THEN free \cup {NoSock} ELSE free

-----------------------------------------------------------------------------
(* The socket layer. *)

Without(f, s, v) == [x \in DOMAIN f |-> IF x = s THEN v ELSE f[x]]

\* The radio's sockets, and the buffers, once WiFiClient_stop or UDP_stop has
\* given _sock back.
Stopped_rsock == Without(rsock, sock, "free")
Stopped_buf_Leaked == buf   \* faulty variant: WiFiSocketBuffer_close is left out
Stopped_buf   == Without(buf, sock, "null")

NoPeer == peerOpen' = FALSE /\ inbox' = FALSE /\ toCome' = 0

\* Faulty variant: the driver goes on naming a socket it has closed.
StopSocket_KeepsNumber ==
  sock' = sock /\ buf' = Stopped_buf /\ rsock' = Stopped_rsock /\ NoPeer /\ UNCHANGED link

\* WiFiClient_stop and UDP_stop.
StopSocket ==
  /\ sock' = NoSock
  /\ buf' = Stopped_buf
  /\ rsock' = Stopped_rsock
  /\ NoPeer
  /\ UNCHANGED link

\* Faulty variant: a dead connection's buffer stays on the heap.
ForgetSocket_KeepsBuffer == sock' = NoSock /\ NoPeer /\ UNCHANGED <<buf, link, rsock>>

\* WiFiClient_connected finding no live connection: it forgets the socket
\* without telling the radio.
ForgetSocket ==
  /\ sock' = NoSock
  /\ buf' = Stopped_buf
  /\ NoPeer
  /\ UNCHANGED <<link, rsock>>

-----------------------------------------------------------------------------
(* Remote.c *)

\* Faulty variant: joins again without a reboot of the radio.
ConnectToWifi_NoReboot ==
  /\ link' = "IDLE"
  /\ wifi_connecting' = TRUE
  /\ left' = [left EXCEPT !["WIFI"] = WIFI_CONNECTION_TIMEOUT]
  /\ UNCHANGED <<rsock, peerVars>>

\* connectToWifi: reboot the radio unless it idles, then start joining.
ConnectToWifi ==
  /\ \/ /\ link = "IDLE"
        /\ UNCHANGED radioVars
     \/ /\ link # "IDLE" \/ Lossy
        /\ link' = "IDLE"
        /\ rsock' = [s \in Sockets |-> "free"]
        /\ NoPeer
  /\ wifi_connecting' = TRUE
  /\ left' = [left EXCEPT !["WIFI"] = WIFI_CONNECTION_TIMEOUT]

\* UDP_begin and UDP_beginPacketIP: close what _sock was, and listen on a new
\* socket, if the radio has one.
BeginUDP(s) ==
  /\ sock' = s
  /\ buf' = Stopped_buf
  /\ rsock' = Without(Stopped_rsock, s, "udp")
  /\ NoPeer

\* getTime, called while the timers stand at tm: ask for the time unless the
\* back end owes an answer.  The request replaces whatever _sock was.
GetTime(tm) ==
  \/ /\ waiting_on_BE_response
     /\ timers' = tm
     /\ UNCHANGED <<left, sessionVars, errors, sockVars, radioVars>>
  \/ /\ ~waiting_on_BE_response
     /\ \E s \in SocketOffers(Stopped_rsock) :
          /\ BeginUDP(s)
          /\ IF s = NoSock
               THEN /\ errors' = errors \cup {"SYNCING_TIME"}
                    /\ timers' = [tm EXCEPT !["NTP_TIME_SYNC_TICK"] = TIME_SYNC_RETRY_INTERVAL]
                    /\ UNCHANGED <<left, waiting_on_NTP_response>>
               ELSE /\ waiting_on_NTP_response' = TRUE
                    /\ left' = [left EXCEPT !["NTP"] = NTP_RESPONSE_WAIT_TIME]
                    /\ timers' = tm
                    /\ UNCHANGED errors
     /\ UNCHANGED <<waiting_on_BE_response, received_data_from_BE, link>>

\* Faulty variant: the time is asked for after every connection.
FirstConnection_Every == ~wifi_connected

\* The connection about to be noted is the first since the device started.
FirstConnection == ~wifi_connected /\ ~once

\* setWifiConnectionState, called while the timers stand at tm and
\* wifi_connecting at joining.
SetWifiConnectionState(connected, joining, tm) ==
  LET justConnected == connected /\ ~wifi_connected
      justLost      == ~connected /\ wifi_connected
      stopped       == StopTimer(tm, "WIFI_RECONNECT_TICK")
      reloaded      == ReloadTimer(tm, "WIFI_RECONNECT_TICK")
      quiet         == UNCHANGED <<left, sessionVars, errors, sockVars, radioVars>>
  IN /\ wifi_connected' = connected
     /\ once' = (once \/ justConnected)
     /\ IF justLost
          THEN /\ ConnectToWifi
               /\ timers' = reloaded
               /\ UNCHANGED <<sessionVars, errors, sockVars>>
          ELSE /\ wifi_connecting' = joining
               /\ IF ~justConnected THEN timers' = tm /\ quiet
                  ELSE IF FirstConnection THEN GetTime(stopped)
                  ELSE timers' = stopped /\ quiet

\* WiFiClient_connectSSLHost: close what _sock was, and connect a new socket.
\* The wait for the connection gives up at its first look, which already
\* forgets the socket (see README), so the answer of the radio right after the
\* start decides: a live connection, or data where a lost reply pretends it.
ConnectSSLHost(s) ==
  /\ s # NoSock
  /\ sock' = s
  /\ rsock' = Without(Stopped_rsock, s, "tls")
  /\ \E found \in {"empty", "data"} :
       /\ found = "data" => Lossy
       /\ buf' = Without(Stopped_buf, s, found)
       /\ peerOpen' \in {TRUE, found = "empty"}
  /\ inbox' = FALSE
  /\ toCome' \in 0 .. MaxChunks /\ (toCome' > 0 => peerOpen')

ConnectSSLHostFails(s) ==
  /\ sock' = NoSock
  /\ rsock' = Without(Stopped_rsock, s, "tls")
  /\ buf' = Stopped_buf
  /\ NoPeer

\* remoteSync past its guard: connect to the back end and post the reading.
ConnectAndPost ==
  \E s \in SocketOffers(Stopped_rsock) :
    /\ \/ /\ ConnectSSLHost(s)
          /\ errors' = errors \ {"SERVER_DNS_ISSUE"}
          /\ waiting_on_BE_response' = TRUE
          /\ received_data_from_BE' = FALSE
          /\ left' = [left EXCEPT !["BE"] = BE_RESPONSE_WAIT_TIME]
       \/ /\ ConnectSSLHostFails(s)
          /\ errors' = errors \cup {"SERVER_DNS_ISSUE"}
          /\ UNCHANGED <<waiting_on_BE_response, received_data_from_BE, left>>
    /\ UNCHANGED <<waiting_on_NTP_response, link>>

\* Faulty variants: one of the three conditions is not looked at.
CannotPost_IgnoresNTP   == waiting_on_BE_response \/ rtc = "unset"
CannotPost_IgnoresBE    == waiting_on_NTP_response \/ rtc = "unset"
CannotPost_IgnoresClock == waiting_on_BE_response \/ waiting_on_NTP_response

\* What keeps remoteSync from posting, the radio aside.
CannotPost == waiting_on_BE_response \/ waiting_on_NTP_response \/ rtc = "unset"

RemoteSync ==
  \/ /\ CannotPost \/ FALSE \in IsWifiConnected
     /\ UNCHANGED <<left, sessionVars, errors, sockVars, radioVars>>
  \/ /\ ~CannotPost /\ TRUE \in IsWifiConnected
     /\ ConnectAndPost

-----------------------------------------------------------------------------
(* One pass of the super-loop: runApp, then runRemote. *)

Goto(from, to) == pc = from /\ pc' = to

\* The first pass: remoteInit joins the network, loadTimers starts the timers.
RemoteInit ==
  /\ Goto("remoteInit", "updateTimers")
  /\ ConnectToWifi
  /\ timers' = StopTimer(Interval, "WIFI_RECONNECT_TICK")
  /\ UNCHANGED <<since, elapsed, sessionVars, wifi_connected, once, rtc, errors,
                 sockVars>>

\* updateTimers reads elapsedMS and visits the timers only if time went by.
UpdateTimers ==
  /\ pc = "updateTimers"
  /\ pc' = IF since = 0 THEN "checkNtpResponse" ELSE "remoteSync"
  /\ elapsed' = since
  /\ since' = 0
  /\ UNCHANGED <<timers, left, sessionVars, wifiVars, rtc, errors, sockVars, radioVars>>

\* The visit of timer t by updateTimers: charge the elapsed time, and run the
\* callback if the timer ran out.
Visited(t) == [timers EXCEPT ![t] = Stepped(timers[t], elapsed, Interval[t])]

RunsOut(t) == Due(timers[t], elapsed)

Skip(t) ==
  /\ ~RunsOut(t)
  /\ timers' = Visited(t)
  /\ UNCHANGED <<left, sessionVars, wifiVars, errors, sockVars, radioVars>>

\* Faulty variant: the callback restarts its own timer, as getTime does.
RemoteSyncTick_Restarts ==
  /\ Goto("remoteSync", "getTime")
  /\ \/ Skip("REMOTE_SYNC_TICK")
     \/ /\ RunsOut("REMOTE_SYNC_TICK")
        /\ timers' = ReloadTimer(timers, "REMOTE_SYNC_TICK")
        /\ RemoteSync
        /\ UNCHANGED wifiVars
  /\ UNCHANGED <<since, elapsed, rtc>>

\* remoteSyncCallback
RemoteSyncTick ==
  /\ Goto("remoteSync", "getTime")
  /\ \/ Skip("REMOTE_SYNC_TICK")
     \/ /\ RunsOut("REMOTE_SYNC_TICK")
        /\ timers' = Visited("REMOTE_SYNC_TICK")
        /\ RemoteSync
        /\ UNCHANGED wifiVars
  /\ UNCHANGED <<since, elapsed, rtc>>

\* getTime
GetTimeTick ==
  /\ Goto("getTime", "wifiCheck")
  /\ \/ Skip("NTP_TIME_SYNC_TICK")
     \/ /\ RunsOut("NTP_TIME_SYNC_TICK")
        /\ GetTime(Visited("NTP_TIME_SYNC_TICK"))
        /\ UNCHANGED wifiVars
  /\ UNCHANGED <<since, elapsed, rtc>>

\* wifiCheckConnectionStatus: the link counts as lost if the radio is off the
\* network or the client on _sock, whatever it is, reports CLOSED.
WifiCheck(tm) ==
  IF wifi_connected
    THEN \E up \in IsWifiConnected, status \in ClientStatus :
           SetWifiConnectionState(up /\ status # "CLOSED", wifi_connecting, tm)
    ELSE /\ timers' = tm
         /\ UNCHANGED <<left, sessionVars, wifiVars, errors, sockVars, radioVars>>

WifiCheckTick ==
  /\ Goto("wifiCheck", "wifiReconnect")
  /\ \/ Skip("WIFI_CHECK_STAT_TICK")
     \/ /\ RunsOut("WIFI_CHECK_STAT_TICK")
        /\ WifiCheck(Visited("WIFI_CHECK_STAT_TICK"))
  /\ UNCHANGED <<since, elapsed, rtc>>

\* wifiReconnectCallback
WifiReconnectTick ==
  /\ Goto("wifiReconnect", "checkNtpResponse")
  /\ \/ Skip("WIFI_RECONNECT_TICK")
     \/ /\ RunsOut("WIFI_RECONNECT_TICK")
        /\ timers' = Visited("WIFI_RECONNECT_TICK")
        /\ ConnectToWifi
        /\ UNCHANGED <<sessionVars, wifi_connected, once, errors, sockVars>>
  /\ elapsed' = 0   \* time_elapsed goes out of scope
  /\ UNCHANGED <<since, rtc>>

\* checkNtpResponse.  A datagram too short to hold a time stamp, or one that
\* could not be fetched, leaves the stack buffer unset and the clock with it;
\* UDP_parsePacket may miss a datagram, too (module UdpSocket).
CheckNtpResponse ==
  /\ Goto("checkNtpResponse", "checkBEResponse")
  /\ \/ /\ waiting_on_NTP_response /\ inbox
        /\ waiting_on_NTP_response' = FALSE
        /\ rtc' \in {"synced", "garbage"}
        /\ errors' = errors \ {"SYNCING_TIME"}
        /\ StopSocket
        /\ UNCHANGED timers
     \/ /\ waiting_on_NTP_response /\ left["NTP"] = 0
        /\ waiting_on_NTP_response' = FALSE
        /\ errors' = errors \cup {"SYNCING_TIME"}
        /\ timers' = [timers EXCEPT !["NTP_TIME_SYNC_TICK"] = TIME_SYNC_RETRY_INTERVAL]
        /\ StopSocket
        /\ UNCHANGED rtc
     \/ /\ waiting_on_NTP_response => left["NTP"] > 0
        /\ UNCHANGED <<timers, waiting_on_NTP_response, rtc, errors, sockVars, radioVars>>
  /\ UNCHANGED <<since, elapsed, left, waiting_on_BE_response, received_data_from_BE,
                 wifiVars>>

\* Faulty variant: the connection is closed but the wait goes on.
BETimeout_StillWaits ==
  /\ left["BE"] = 0
  /\ errors' = errors \cup {"SERVER_ISSUE"}
  /\ StopSocket
  /\ UNCHANGED <<waiting_on_BE_response, left, received_data_from_BE>>

\* The deadline of the back end's answer passed.  It is looked at before the
\* data, so an answer that is already there is thrown away.
BETimeout ==
  /\ left["BE"] = 0
  /\ waiting_on_BE_response' = FALSE
  /\ errors' = errors \cup {"SERVER_ISSUE"}
  /\ StopSocket
  /\ UNCHANGED <<left, received_data_from_BE>>

HasData == inbox \/ \E s \in Sockets : s = sock /\ buf[s] = "data"

\* Read what there is, then ask whether the connection is alive.  `late` is
\* data that comes in between: WiFiClient_connected fetches it into the buffer.
\* A lost reply passes for data in either place.
DrainBEResponse ==
  /\ left["BE"] > 0
  /\ \E got \in IF Lossy THEN {HasData, TRUE} ELSE {HasData} :
       /\ received_data_from_BE' = (received_data_from_BE \/ got)
       /\ left' = IF got THEN [left EXCEPT !["BE"] = BE_RESPONSE_WAIT_TIME] ELSE left
  /\ \/ /\ sock # NoSock
        /\ \/ toCome > 0 /\ toCome' = toCome - 1   \* late
           \/ Lossy /\ UNCHANGED toCome
        /\ buf' = Without(buf, sock, "data")
        /\ inbox' = FALSE
        /\ UNCHANGED <<waiting_on_BE_response, errors, sock, link, rsock, peerOpen>>
     \/ /\ "ESTABLISHED" \in ClientStatus
        /\ buf' = Without(buf, sock, "empty")
        /\ inbox' = FALSE
        /\ UNCHANGED <<waiting_on_BE_response, errors, sock, link, rsock, peerOpen, toCome>>
     \/ /\ ClientStatus # {"ESTABLISHED"}
        /\ waiting_on_BE_response' = FALSE
        /\ errors' = IF received_data_from_BE' THEN errors ELSE errors \cup {"SERVER_ISSUE"}
        /\ ForgetSocket

CheckBEResponse ==
  /\ Goto("checkBEResponse", "checkWifiConnecting")
  /\ \/ /\ ~waiting_on_BE_response
        /\ UNCHANGED <<left, sessionVars, errors, sockVars, radioVars>>
     \/ /\ waiting_on_BE_response
        /\ BETimeout \/ DrainBEResponse
        /\ UNCHANGED waiting_on_NTP_response
  /\ UNCHANGED <<since, elapsed, timers, wifiVars, rtc>>

\* Faulty variant: the deadline is not looked at.
JoinOver_NoDeadline(up) == wifi_connecting /\ up

\* The attempt to join is over: the radio answers `up`, or gave no answer in time.
JoinOver(up) == wifi_connecting /\ (up \/ left["WIFI"] = 0)

\* checkWifiConnecting
CheckWifiConnecting ==
  /\ Goto("checkWifiConnecting", "updateTimers")
  /\ \E up \in IsWifiConnected :
       IF JoinOver(up)
         THEN SetWifiConnectionState(up, FALSE, timers)
         ELSE UNCHANGED <<timers, left, sessionVars, wifiVars, errors, sockVars, radioVars>>
  /\ UNCHANGED <<since, elapsed, rtc>>

Superloop ==
  \/ RemoteInit \/ UpdateTimers
  \/ RemoteSyncTick \/ GetTimeTick \/ WifiCheckTick \/ WifiReconnectTick
  \/ CheckNtpResponse \/ CheckBEResponse \/ CheckWifiConnecting

-----------------------------------------------------------------------------
(* What happens while the super-loop runs. *)

\* SysTick_Handler: MS_Timer goes on, and every deadline comes closer.
SysTick ==
  /\ since < MaxPass
  /\ since' = since + 1
  /\ left' = [w \in Waits |-> IF left[w] > 0 THEN left[w] - 1 ELSE 0]
  /\ UNCHANGED <<pc, elapsed, timers, sessionVars, wifiVars, rtc, errors, sockVars,
                 radioVars>>

\* The radio joins the network it was told to, fails to, or falls off it.
LinkChanges ==
  /\ pc # "remoteInit"
  /\ link' \in {"CONNECTED", "OTHER"} \ {link}
  /\ UNCHANGED <<loopVars, timers, left, sessionVars, wifiVars, rtc, errors, sockVars,
                 rsock, peerVars>>

\* The time server answers, or anyone sends a datagram to the port.
DatagramArrives ==
  /\ sock # NoSock /\ rsock[sock] = "udp" /\ link = "CONNECTED"
  /\ inbox' = TRUE
  /\ UNCHANGED <<loopVars, timers, left, sessionVars, wifiVars, rtc, errors, sockVars,
                 link, rsock, peerOpen, toCome>>

\* A piece of the back end's answer reaches the radio.
ChunkArrives ==
  /\ toCome > 0
  /\ toCome' = toCome - 1
  /\ inbox' = TRUE
  /\ UNCHANGED <<loopVars, timers, left, sessionVars, wifiVars, rtc, errors, sockVars,
                 link, rsock, peerOpen>>

\* The back end closes the connection, or it breaks.
PeerCloses ==
  /\ peerOpen
  /\ peerOpen' = FALSE
  /\ toCome' = 0
  /\ UNCHANGED <<loopVars, timers, left, sessionVars, wifiVars, rtc, errors, sockVars,
                 link, rsock, inbox>>

\* The radio may take back the socket of a connection that is over.
RadioReclaims(s) ==
  /\ rsock[s] = "tls" /\ (s = sock => ~peerOpen)
  /\ rsock' = [rsock EXCEPT ![s] = "free"]
  /\ UNCHANGED <<loopVars, timers, left, sessionVars, wifiVars, rtc, errors, sockVars,
                 link, peerVars>>

Environment ==
  \/ LinkChanges \/ DatagramArrives \/ ChunkArrives \/ PeerCloses
  \/ \E s \in Sockets : RadioReclaims(s)

Next == Superloop \/ SysTick \/ Environment

\* The processor never stops and its clock never stops; nothing is assumed of
\* the radio or the network.
Fairness == WF_vars(Superloop) /\ WF_vars(SysTick)

Spec == Init /\ [][Next]_vars

FairSpec == Spec /\ Fairness

-----------------------------------------------------------------------------
(* Properties. *)

\* The NTP request and the post of a reading never overlap: both use _sock,
\* and each would read the other's data (the guards of getTime and remoteSync).
OneConversation == ~(waiting_on_NTP_response /\ waiting_on_BE_response)

\* _sock names a socket only on behalf of a wait in progress, so that each
\* exit of checkNtpResponse, checkBEResponse and connectSSLHost gives it back.
SocketHasOwner ==
  sock # NoSock => waiting_on_NTP_response \/ waiting_on_BE_response

\* A wait in progress has a socket to hear the answer on: UDP_parsePacket and
\* WiFiClient_available are never asked about socket 255.
WaitHasSocket ==
  waiting_on_NTP_response \/ waiting_on_BE_response => sock # NoSock

\* The 1500-byte buffer of a socket is freed with it: the heap holds one
\* buffer at most, that of _sock (WiFiSocketBuffer_close on every exit).
OneBuffer == \A s \in Sockets : buf[s] # "null" => s = sock

\* A device that has been on the network and fell off it keeps its reconnect
\* timer running; one that is on the network has stopped it and joins nothing.
ReconnectArmed ==
  /\ once /\ ~wifi_connected => timers["WIFI_RECONNECT_TICK"] # Stopped
  /\ wifi_connected => ~wifi_connecting /\ timers["WIFI_RECONNECT_TICK"] = Stopped

\* The connection check relies on a client that remoteSync opened earlier in
\* the same pass: the two timers must run out together, for ever.
InStep ==
  LET sync  == timers["REMOTE_SYNC_TICK"]
      check == timers["WIFI_CHECK_STAT_TICK"]
  IN IF pc \in {"getTime", "wifiCheck"}
       THEN sync = Stepped(check, elapsed, WIFI_CHECK_STAT_INTERVAL)
       ELSE sync = check

\* Before the first pass has run remoteInit nothing has started.
NothingBeforeBoot ==
  pc = "remoteInit" =>
    ~wifi_connected /\ ~once /\ \A t \in Timers : timers[t] = Stopped

\* While the back end owes an answer there is a socket to read it from; the
\* drain of checkBEResponse may fill that socket's buffer.
PostHasSocket == waiting_on_BE_response => sock # NoSock

\* The socket and its buffer pass from one conversation to the next whole: the
\* inductive part of the properties about _sock.
Ownership == OneConversation /\ SocketHasOwner /\ PostHasSocket /\ OneBuffer

\* The inductive invariant of the proofs: all that needs no reasoning about
\* how long a wait lasts.
IInv == Ownership /\ NothingBeforeBoot /\ ReconnectArmed /\ InStep

\* What timer t has left when the pass in progress has charged it.
RunsFor(t) ==
  LET visitedLater == {"remoteSync", "getTime"} \cup
        (IF t = "NTP_TIME_SYNC_TICK" THEN {} ELSE {"wifiCheck", "wifiReconnect"})
  IN timers[t] - (IF pc \in visitedLater THEN elapsed ELSE 0)

\* Where the pass is between the look at wait w and the reading of elapsedMS.
JustLookedAt(w) ==
  pc \in {"updateTimers"} \cup
        (IF w = "NTP" THEN {"checkBEResponse", "checkWifiConnecting"} ELSE {})

\* Timer t runs out later than the deadline of wait w by the margin; a pass
\* that begins before the deadline is looked at may use up MaxPass of it.
Outlasts(t, w, margin) ==
  /\ left[w] > 0 => RunsFor(t) - since >= left[w] + margin
  /\ RunsFor(t) > margin - (IF JustLookedAt(w) THEN 0 ELSE MaxPass)

\* Before the device was on the network for the first time, nothing but the
\* join of remoteInit is going on.
FirstJoinOnly ==
  /\ pc = "remoteInit" => ~wifi_connecting /\ ~waiting_on_NTP_response
  /\ ~once => ~wifi_connected /\ timers["WIFI_RECONNECT_TICK"] = Stopped

\* The answer to a request, and the first join, which ends in a request, are
\* waited for no longer than the time timer runs.
RequestOutlasted ==
  /\ ~once /\ wifi_connecting =>
       /\ ~waiting_on_NTP_response
       /\ Outlasts("NTP_TIME_SYNC_TICK", "WIFI", NTP_RESPONSE_WAIT_TIME + 3 * MaxPass - 1)
  /\ waiting_on_NTP_response => Outlasts("NTP_TIME_SYNC_TICK", "NTP", MaxPass)

\* An attempt to join is over before the reconnect timer begins the next one.
JoinOutlasted ==
  once /\ wifi_connecting => Outlasts("WIFI_RECONNECT_TICK", "WIFI", MaxPass)

\* A wait is over before a timer begins the next one, although the timers are
\* restarted in the middle of passes that take time themselves (setTimer,
\* reloadTimer, updateTimers).
WaitsOutlasted == FirstJoinOnly /\ RequestOutlasted /\ JoinOutlasted

\* The inductive invariant of the timing proofs: sockets, buffers and timers in
\* order, and no wait in danger from a timer.
TimedInv == IInv /\ WaitsOutlasted

\* How long the passes may be for that, the other values being given.
RequestsFit ==
  WIFI_CONNECTION_TIMEOUT + NTP_RESPONSE_WAIT_TIME + 4 * MaxPass
    <= DEFAULT_TIME_SYNC_INTERVAL + 1
JoinsFit == WIFI_CONNECTION_TIMEOUT + 3 * MaxPass <= WIFI_RECONNECT_INTERVAL

\* While an answer from the time server is due, no second request is sent.
NoSecondRequest ==
  [][waiting_on_NTP_response => left'["NTP"] <= left["NTP"]]_vars

\* An attempt to join is never cut short by the next one: the radio is not
\* rebooted while checkWifiConnecting still waits for it.
JoinNotCutShort ==
  [][wifi_connecting => left'["WIFI"] <= left["WIFI"]]_vars

\* Seen from outside the remote part is a RemoteSession: one conversation at a
\* time, readings only once the clock was set, and every conversation ends.
Session ==
  INSTANCE RemoteSession WITH
    talk <- IF OneConversation
              THEN IF waiting_on_NTP_response THEN "time"
                   ELSE IF waiting_on_BE_response THEN "reading" ELSE "none"
              ELSE "both",
    clockSet <- rtc # "unset"

\* The handlers of Remote.c never leave that protocol ...
ImplementsSession == Session!SafeSpec

\* ... and each conversation they begin they also end, answered or not.
ImplementsFairSession == Session!Spec

\* An attempt to join the network is resolved one way or the other.
JoinEnds == wifi_connecting ~> ~wifi_connecting

\* Once it has been on the network, the device goes on trying to return to it.
RejoinsForEver == once /\ ~wifi_connected /\ ~wifi_connecting ~> wifi_connecting

\* Sockets lost to failed connections are not lost for ever: the connection
\* check reboots the radio, which frees them all.
SocketsRecovered ==
  once /\ (\A s \in Sockets : rsock[s] # "free") ~> \E s \in Sockets : rsock[s] = "free"

\* Application.h says of the reconnect timer that it is the "interval between
\* retrying to connect to wifi": a device off the network tries again.
KeepsTrying == pc # "remoteInit" /\ ~wifi_connected ~> wifi_connecting

\* Application.c says that wifiCheckConnectionStatus is to "verify we're still
\* connected": it gives up the link only for a link that is down or a client
\* connection that is closed, not for want of a client.
LinkLostForCause ==
  [][pc = "wifiCheck" /\ wifi_connected /\ ~wifi_connected' =>
       link # "CONNECTED" \/ sock # NoSock]_vars

=============================================================================
