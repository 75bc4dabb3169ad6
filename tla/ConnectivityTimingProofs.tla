---------------------- MODULE ConnectivityTimingProofs ----------------------
(***************************************************************************)
(* Machine-checked proofs about module Connectivity that depend on how     *)
(* long things take: a wait is over before a timer begins the next one.    *)
(* They hold where RequestsFit or JoinsFit does, and need no other bound   *)
(* on intervals, deadlines or the length of a pass.                        *)
(***************************************************************************)
EXTENDS ConnectivityProofs

NTP == "NTP_TIME_SYNC_TICK"
REC == "WIFI_RECONNECT_TICK"

(* What a visit by updateTimers leaves on a timer. *)

\* A remainder is no greater than the number divided.
LEMMA ModAtMost ==
  ASSUME NEW a \in Nat, NEW m \in Positive
  PROVE  a % m <= a
<1>. DEFINE q == a \div m
            r == a % m
<1>1. q \in Int /\ r \in 0 .. m - 1 /\ a = m * q + r /\ m \in Int
  BY DEF Positive
<1>. HIDE DEF q, r
<1>2. q <= -1 => m * q <= -m
  BY <1>1 DEF Positive
<1>3. q >= 0 => m * q >= 0
  BY <1>1 DEF Positive
<1>. QED
  BY <1>1, <1>2, <1>3 DEF Positive, r

\* A timer that does not run out is charged the time of the pass.
LEMMA SteppedOn ==
  ASSUME NEW t \in {Stopped} \cup Positive, NEW e \in Nat, NEW i \in Positive, ~Due(t, e)
  PROVE  IF t = Stopped THEN Stepped(t, e, i) = Stopped ELSE Stepped(t, e, i) = t - e
BY DEF Due, Stepped, Stopped, Positive

\* One that runs out begins a new period, less the overshoot.
LEMMA SteppedOver ==
  ASSUME NEW t \in {Stopped} \cup Positive, NEW e \in Nat, NEW i \in Positive, Due(t, e)
  PROVE  Stepped(t, e, i) > i - e
<1>1. t \in Positive /\ e - t \in Nat /\ t <= e
  BY DEF Due, Stopped, Positive
<1>2. (e - t) % i <= e - t /\ (e - t) % i \in Int
  BY <1>1, ModAtMost DEF Positive
<1>3. Stepped(t, e, i) = i - ((e - t) % i)
  BY <1>1 DEF Stepped, Reloaded, Stopped, Positive
<1>. QED
  BY <1>1, <1>2, <1>3 DEF Positive

-----------------------------------------------------------------------------
(* The steps of a timer and a wait it must outlast. *)

\* The numbers that the steps below compare.
LEMMA Numbers ==
  ASSUME TypeOK
  PROVE  /\ \A t \in Timers : timers[t] \in Int /\ timers[t] \in {Stopped} \cup Positive
         /\ \A w \in Waits : left[w] \in Nat
         /\ since \in Nat /\ since <= MaxPass /\ elapsed \in Nat /\ elapsed <= MaxPass
         /\ MaxPass \in Nat /\ MaxPass >= 1
BY BoundAssumption DEF TypeOK, Positive, Stopped

\* As long as a timer outlasts a wait it does not run out.
LEMMA OutlastingRuns ==
  ASSUME TypeOK, NEW t \in Timers, NEW w \in Waits, NEW m \in Nat, m >= MaxPass,
         Outlasts(t, w, m)
  PROVE  RunsFor(t) > 0
BY Numbers DEF Outlasts, RunsFor

\* A handler that leaves the timer and the wait alone.
LEMMA OutlastsKept ==
  ASSUME TypeOK, NEW t \in Timers, NEW w \in Waits, NEW m \in Nat, Outlasts(t, w, m),
         RunsFor(t)' = RunsFor(t), left'[w] = left[w], since' = since,
         JustLookedAt(w)' => JustLookedAt(w) \/ left[w] > 0
  PROVE  Outlasts(t, w, m)'
<1>1. RunsFor(t) \in Int
  BY Numbers DEF RunsFor
<1>2. left[w] > 0 => RunsFor(t) > m
  BY <1>1, Numbers DEF Outlasts
<1>3. RunsFor(t) > m - MaxPass
  BY <1>1, Numbers DEF Outlasts
<1>. QED
  BY <1>1, <1>2, <1>3, Numbers DEF Outlasts

\* The deadline comes closer, and the pass has to charge more.
LEMMA OutlastsTick ==
  ASSUME TypeOK, NEW t \in Timers, NEW w \in Waits, NEW m \in Nat, Outlasts(t, w, m), SysTick
  PROVE  Outlasts(t, w, m)'
<1>1. /\ RunsFor(t)' = RunsFor(t) /\ RunsFor(t) \in Int
      /\ (JustLookedAt(w)' <=> JustLookedAt(w))
  BY Numbers DEF RunsFor, SysTick, JustLookedAt
<1>2. left'[w] = (IF left[w] > 0 THEN left[w] - 1 ELSE 0) /\ since' = since + 1
  BY DEF SysTick
<1>3. left[w] > 0 => RunsFor(t) > m
  BY <1>1, Numbers DEF Outlasts
<1>4. RunsFor(t) > m - (IF JustLookedAt(w) THEN 0 ELSE MaxPass)
  BY DEF Outlasts
<1>5. left[w] > 0 => RunsFor(t) - since >= left[w] + m
  BY DEF Outlasts
<1>6. left'[w] > 0 => RunsFor(t)' - since' >= left'[w] + m
  BY <1>1, <1>2, <1>5, Numbers
<1>7. RunsFor(t)' > m - (IF JustLookedAt(w)' THEN 0 ELSE MaxPass)
  BY <1>1, <1>4
<1>. QED
  BY <1>6, <1>7 DEF Outlasts

\* updateTimers reads the clock: what was to come is now to be charged.
LEMMA OutlastsUpdate ==
  ASSUME TypeOK, NEW t \in Timers, NEW w \in Waits, NEW m \in Nat, Outlasts(t, w, m),
         UpdateTimers
  PROVE  Outlasts(t, w, m)'
<1>1. RunsFor(t) = timers[t] /\ JustLookedAt(w)
  BY Numbers DEF UpdateTimers, RunsFor, JustLookedAt
<1>2. /\ timers'[t] = timers[t] /\ left'[w] = left[w] /\ since' = 0 /\ elapsed' = since
      /\ pc' = (IF since = 0 THEN "checkNtpResponse" ELSE "remoteSync")
  BY DEF UpdateTimers
<1>3. RunsFor(t)' = timers[t] - since /\ ~JustLookedAt(w)'
  BY <1>2, Numbers DEF RunsFor, JustLookedAt
<1>4. timers[t] > m /\ (left[w] > 0 => timers[t] - since >= left[w] + m)
  BY <1>1 DEF Outlasts
<1>. QED
  BY <1>2, <1>3, <1>4, Numbers DEF Outlasts

\* The visit of the timer by updateTimers: it does not run out, and nothing
\* remains to be charged.
LEMMA OutlastsVisit ==
  ASSUME TypeOK, NEW t \in Timers, NEW w \in Waits, NEW m \in Nat, m >= MaxPass,
         Outlasts(t, w, m),
         RunsFor(t) = timers[t] - elapsed, RunsFor(t)' = timers'[t], left'[w] = left[w],
         since' = since, ~JustLookedAt(w)'
  PROVE  /\ ~RunsOut(t)
         /\ timers'[t] = Visited(t)[t] => Outlasts(t, w, m)'
<1>1. timers[t] > elapsed /\ timers[t] \in {Stopped} \cup Positive
  BY OutlastingRuns, Numbers
<1>2. ~Due(timers[t], elapsed) /\ timers[t] # Stopped
  BY <1>1, Numbers DEF Due, Stopped
<1>3. Visited(t)[t] = timers[t] - elapsed
  BY <1>1, <1>2, IntervalType, Numbers, SteppedOn, VisitedOthers
<1>4. timers'[t] = Visited(t)[t] => RunsFor(t)' = RunsFor(t)
  BY <1>3
<1>. QED
  BY <1>2, <1>4, OutlastsKept DEF RunsOut

\* The margin of the first join.
LEMMA FirstMargin ==
  NTP_RESPONSE_WAIT_TIME + 3 * MaxPass - 1 \in Nat
    /\ NTP_RESPONSE_WAIT_TIME + 3 * MaxPass - 1 >= MaxPass
BY TimeAssumption, BoundAssumption DEF Positive

LEMMA TimerNames == NTP \in Timers /\ REC \in Timers /\ "NTP" \in Waits /\ "WIFI" \in Waits
BY DEF NTP, REC, Timers, Waits

-----------------------------------------------------------------------------
(* What the handlers do to the timers and the waits. *)

\* What setWifiConnectionState comes down to.
LEMMA SetWifiConnectionStateCases ==
  ASSUME TypeOK, NEW tm \in TimerTables, NEW c \in BOOLEAN, NEW j,
         SetWifiConnectionState(c, j, tm)
  PROVE  \/ /\ wifi_connected /\ ~c /\ ConnectToWifi /\ timers' = ReloadTimer(tm, REC)
            /\ UNCHANGED <<sessionVars, sockVars>> /\ once' = once /\ wifi_connected' = FALSE
         \/ /\ c /\ ~wifi_connected /\ ~once /\ GetTime(StopTimer(tm, REC))
            /\ wifi_connecting' = j /\ once' = TRUE
         \/ /\ c /\ ~wifi_connected /\ once /\ once' = TRUE /\ wifi_connecting' = j
            /\ UNCHANGED <<left, sessionVars, sockVars>> /\ timers' = StopTimer(tm, REC)
         \/ /\ c = wifi_connected /\ wifi_connected' = wifi_connected /\ once' = once
            /\ wifi_connecting' = j /\ UNCHANGED <<left, sessionVars, sockVars>> /\ timers' = tm
<1>. wifi_connected \in BOOLEAN /\ once \in BOOLEAN
  BY DEF TypeOK
<1>1. CASE wifi_connected /\ ~c
  BY <1>1 DEF SetWifiConnectionState, REC
<1>2. CASE c /\ ~wifi_connected /\ ~once
  BY <1>2 DEF SetWifiConnectionState, FirstConnection, REC
<1>3. CASE c /\ ~wifi_connected /\ once
  BY <1>3 DEF SetWifiConnectionState, FirstConnection, REC
<1>4. CASE c = wifi_connected
  BY <1>4 DEF SetWifiConnectionState
<1>. QED
  BY <1>1, <1>2, <1>3, <1>4

\* wifiCheckConnectionStatus finds the link lost or leaves all as it is.
LEMMA WifiCheckCases ==
  ASSUME TypeOK, NEW tm \in TimerTables, WifiCheck(tm)
  PROVE  \/ /\ wifi_connected /\ ConnectToWifi /\ timers' = ReloadTimer(tm, REC)
            /\ UNCHANGED <<sessionVars, sockVars>> /\ once' = once
         \/ UNCHANGED <<left, sessionVars, sockVars, wifiVars>> /\ timers' = tm
<1>1. CASE wifi_connected
  <2>1. PICK up \in IsWifiConnected, status \in ClientStatus :
          SetWifiConnectionState(up /\ status # "CLOSED", wifi_connecting, tm)
    BY <1>1 DEF WifiCheck
  <2>. DEFINE c == up /\ status # "CLOSED"
  <2>2. c \in BOOLEAN /\ SetWifiConnectionState(c, wifi_connecting, tm)
    BY <2>1
  <2>. HIDE DEF c
  <2>. QED
    BY <1>1, <2>2, SetWifiConnectionStateCases DEF wifiVars
<1>. QED
  BY <1>1 DEF WifiCheck

\* checkWifiConnecting ends the attempt to join, or leaves all as it is
\* because the attempt still has time.
LEMMA CheckWifiConnectingCases ==
  ASSUME TypeOK, ReconnectArmed, CheckWifiConnecting
  PROVE  \/ /\ wifi_connecting /\ ~once /\ GetTime(StopTimer(timers, REC))
            /\ wifi_connecting' = FALSE /\ once' = TRUE
         \/ /\ wifi_connecting /\ wifi_connecting' = FALSE /\ UNCHANGED <<left, sessionVars, sockVars>>
            /\ \/ once /\ once' = TRUE /\ timers' = StopTimer(timers, REC)
               \/ once' = once /\ timers' = timers /\ UNCHANGED wifi_connected
         \/ /\ wifi_connecting => left["WIFI"] > 0
            /\ UNCHANGED <<timers, left, sessionVars, sockVars, wifiVars>>
<1>. wifi_connecting \in BOOLEAN /\ timers \in TimerTables /\ left["WIFI"] \in Nat
  BY DEF TypeOK, TimerTables, Waits
<1>1. PICK up \in IsWifiConnected :
        IF JoinOver(up)
          THEN SetWifiConnectionState(up, FALSE, timers)
          ELSE UNCHANGED <<timers, left, sessionVars, wifiVars, errors, sockVars, radioVars>>
  BY DEF CheckWifiConnecting
<1>2. up \in BOOLEAN
  BY DEF IsWifiConnected
<1>3. CASE JoinOver(up)
  <2>1. wifi_connecting /\ ~wifi_connected
    BY <1>3 DEF JoinOver, ReconnectArmed
  <2>. QED
    BY <1>1, <1>2, <1>3, <2>1, SetWifiConnectionStateCases
<1>4. CASE ~JoinOver(up)
  <2>1. wifi_connecting => left["WIFI"] # 0
    BY <1>4 DEF JoinOver
  <2>2. left["WIFI"] # 0 => left["WIFI"] > 0
    OBVIOUS
  <2>. QED
    BY <1>1, <1>4, <2>1, <2>2
<1>. QED
  BY <1>3, <1>4

\* Of the deadlines getTime sets that of its answer only, and connectToWifi
\* that of the join only.
LEMMA GetTimeLeft ==
  ASSUME TypeOK, NEW tm, GetTime(tm)
  PROVE  left'["WIFI"] = left["WIFI"] /\ left'["BE"] = left["BE"]
BY DEF GetTime, TypeOK, Waits

LEMMA ConnectToWifiLeft ==
  ASSUME TypeOK, ConnectToWifi
  PROVE  /\ left'["WIFI"] = WIFI_CONNECTION_TIMEOUT /\ left'["NTP"] = left["NTP"]
         /\ wifi_connecting' = TRUE
BY DEF ConnectToWifi, TypeOK, Waits

\* remoteSync and checkBEResponse set neither.
LEMMA RemoteSyncLeft ==
  ASSUME TypeOK, RemoteSync
  PROVE  /\ left'["WIFI"] = left["WIFI"] /\ left'["NTP"] = left["NTP"]
         /\ UNCHANGED waiting_on_NTP_response
BY DEF RemoteSync, ConnectAndPost, TypeOK, Waits, sessionVars

LEMMA CheckBEResponseLeft ==
  ASSUME TypeOK, CheckBEResponse
  PROVE  /\ left'["WIFI"] = left["WIFI"] /\ left'["NTP"] = left["NTP"]
         /\ UNCHANGED <<waiting_on_NTP_response, timers, wifiVars, since, elapsed>>
         /\ pc = "checkBEResponse" /\ pc' = "checkWifiConnecting"
BY DEF CheckBEResponse, BETimeout, DrainBEResponse, TypeOK, Waits, sessionVars, Goto

-----------------------------------------------------------------------------
(* The first join: until it has succeeded nothing else is going on. *)

\* A visit leaves a stopped timer stopped.
LEMMA VisitStopped ==
  ASSUME TypeOK, NEW t \in Timers, NEW u \in Timers, timers[u] = Stopped
  PROVE  Visited(t)[u] = Stopped
BY IntervalType, Numbers, SteppedType, VisitedOthers

LEMMA FirstJoinStep ==
  ASSUME TypeOK, ReconnectArmed, FirstJoinOnly, [Next]_vars
  PROVE  FirstJoinOnly'
<1>. DEFINE Boot == pc = "remoteInit" => ~wifi_connecting /\ ~waiting_on_NTP_response
            Rest == ~once => ~wifi_connected /\ timers[REC] = Stopped
<1>0. Rest /\ Boot
  BY DEF FirstJoinOnly, REC
<1>1. ASSUME RemoteInit PROVE FirstJoinOnly'
  BY <1>1 DEF RemoteInit, Goto, FirstJoinOnly, StopTimer, Interval
<1>2. ASSUME RemoteSyncTick PROVE FirstJoinOnly'
  <2>1. /\ pc' # "remoteInit" /\ UNCHANGED wifiVars
        /\ timers' = Visited("REMOTE_SYNC_TICK")
    BY <1>2 DEF RemoteSyncTick, Goto, Skip
  <2>2. timers[REC] = Stopped => timers'[REC] = Stopped
    BY <2>1, VisitStopped, TimerNames DEF Timers
  <2>. QED
    BY <1>0, <2>1, <2>2 DEF FirstJoinOnly, wifiVars, REC
<1>3. ASSUME GetTimeTick PROVE FirstJoinOnly'
  <2>1. /\ pc' # "remoteInit" /\ UNCHANGED wifiVars
        /\ timers' = Visited(NTP) \/ GetTime(Visited(NTP))
    BY <1>3 DEF GetTimeTick, Goto, Skip, NTP
  <2>2. Visited(NTP) \in TimerTables /\ Visited(NTP)[REC] = timers[REC] /\ REC # NTP
    BY VisitedType, VisitedOthers, TimerNames DEF NTP, REC
  <2>3. timers'[REC] = timers[REC]
    BY <2>1, <2>2, GetTimeTimers, TimerNames DEF NTP
  <2>. QED
    BY <1>0, <2>1, <2>3 DEF FirstJoinOnly, wifiVars, REC
<1>4. ASSUME WifiCheckTick PROVE FirstJoinOnly'
  <2>. DEFINE tm == Visited("WIFI_CHECK_STAT_TICK")
  <2>1. tm \in TimerTables /\ (timers[REC] = Stopped => tm[REC] = Stopped)
    BY VisitedType, VisitStopped, TimerNames DEF Timers
  <2>. HIDE DEF tm
  <2>2. /\ pc' # "remoteInit"
        /\ (UNCHANGED wifiVars /\ timers' = tm) \/ WifiCheck(tm)
    BY <1>4 DEF WifiCheckTick, Goto, Skip, tm
  <2>3. \/ UNCHANGED wifiVars /\ timers' = tm
        \/ wifi_connected /\ once' = once
    BY <2>1, <2>2, WifiCheckCases
  <2>. QED
    BY <1>0, <2>1, <2>2, <2>3 DEF FirstJoinOnly, wifiVars, REC
<1>5. ASSUME WifiReconnectTick PROVE FirstJoinOnly'
  <2>1. /\ pc' # "remoteInit" /\ UNCHANGED <<wifi_connected, once>> /\ timers' = Visited(REC)
    BY <1>5 DEF WifiReconnectTick, Goto, Skip, wifiVars, REC
  <2>2. timers[REC] = Stopped => timers'[REC] = Stopped
    BY <2>1, VisitStopped, TimerNames
  <2>. QED
    BY <1>0, <2>1, <2>2 DEF FirstJoinOnly, REC
<1>6. ASSUME CheckNtpResponse PROVE FirstJoinOnly'
  <2>1. pc' # "remoteInit" /\ UNCHANGED wifiVars /\ timers'[REC] = timers[REC]
    BY <1>6 DEF CheckNtpResponse, Goto, TypeOK, Timers, REC
  <2>. QED
    BY <1>0, <2>1 DEF FirstJoinOnly, wifiVars, REC
<1>7. ASSUME CheckWifiConnecting PROVE FirstJoinOnly'
  <2>1. pc' # "remoteInit"
    BY <1>7 DEF CheckWifiConnecting, Goto
  <2>2. \/ once' = TRUE
        \/ timers' = timers /\ once' = once /\ UNCHANGED wifi_connected
    BY <1>7, CheckWifiConnectingCases DEF wifiVars
  <2>. QED
    BY <1>0, <2>1, <2>2 DEF FirstJoinOnly, REC
<1>8. ASSUME CheckBEResponse \/ UpdateTimers PROVE FirstJoinOnly'
  <2>1. pc' # "remoteInit" /\ UNCHANGED <<wifiVars, timers>>
    BY <1>8 DEF UpdateTimers, CheckBEResponse, Goto
  <2>. QED
    BY <1>0, <2>1 DEF FirstJoinOnly, wifiVars, REC
<1>9. ASSUME SysTick \/ Environment \/ UNCHANGED vars PROVE FirstJoinOnly'
  <2>1. UNCHANGED <<pc, timers, wifiVars, sessionVars>>
    BY <1>9 DEF SysTick, Environment, LinkChanges, DatagramArrives, ChunkArrives,
       PeerCloses, RadioReclaims, vars, loopVars
  <2>. QED
    BY <1>0, <2>1 DEF FirstJoinOnly, wifiVars, sessionVars, REC
<1>. QED
  BY <1>1, <1>2, <1>3, <1>4, <1>5, <1>6, <1>7, <1>8, <1>9 DEF Next, Superloop

-----------------------------------------------------------------------------
(* The request for the time and its timer. *)

FirstWait == NTP_RESPONSE_WAIT_TIME + 3 * MaxPass - 1

\* The two halves of RequestOutlasted, by the wait they are about.
FirstJoinOutlasted ==
  ~once /\ wifi_connecting => ~waiting_on_NTP_response /\ Outlasts(NTP, "WIFI", FirstWait)
AnswerOutlasted == waiting_on_NTP_response => Outlasts(NTP, "NTP", MaxPass)

LEMMA RequestHalves == RequestOutlasted <=> FirstJoinOutlasted /\ AnswerOutlasted
BY DEF RequestOutlasted, FirstJoinOutlasted, AnswerOutlasted, FirstWait, NTP

LEMMA RequestHalvesNext ==
  ASSUME FirstJoinOutlasted', AnswerOutlasted'
  PROVE  RequestOutlasted'
BY DEF RequestOutlasted, FirstJoinOutlasted, AnswerOutlasted, FirstWait, NTP

LEMMA FirstWaitType == FirstWait \in Nat /\ FirstWait >= MaxPass
BY FirstMargin DEF FirstWait

\* A step that begins neither wait and leaves the time timer alone.
LEMMA RequestKept ==
  ASSUME TypeOK, RequestOutlasted,
         RunsFor(NTP)' = RunsFor(NTP), since' = since, left'["NTP"] = left["NTP"],
         waiting_on_NTP_response' => waiting_on_NTP_response,
         waiting_on_NTP_response' /\ JustLookedAt("NTP")'
           => JustLookedAt("NTP") \/ left["NTP"] > 0,
         ~once' /\ wifi_connecting' =>
           /\ ~once /\ wifi_connecting /\ left'["WIFI"] = left["WIFI"]
           /\ JustLookedAt("WIFI")' => JustLookedAt("WIFI") \/ left["WIFI"] > 0
  PROVE  RequestOutlasted'
<1>1. FirstJoinOutlasted /\ AnswerOutlasted /\ MaxPass \in Nat
  BY RequestHalves, BoundAssumption DEF Positive
<1>2. AnswerOutlasted'
  <2>1. SUFFICES ASSUME waiting_on_NTP_response' PROVE Outlasts(NTP, "NTP", MaxPass)'
    BY DEF AnswerOutlasted
  <2>. QED
    BY <1>1, <2>1, OutlastsKept, TimerNames DEF AnswerOutlasted
<1>3. FirstJoinOutlasted'
  <2>1. SUFFICES ASSUME ~once', wifi_connecting'
                 PROVE  ~waiting_on_NTP_response' /\ Outlasts(NTP, "WIFI", FirstWait)'
    BY DEF FirstJoinOutlasted, FirstWait
  <2>2. ~waiting_on_NTP_response /\ Outlasts(NTP, "WIFI", FirstWait)
    BY <1>1, <2>1 DEF FirstJoinOutlasted
  <2>3. Outlasts(NTP, "WIFI", FirstWait)'
    BY <2>1, <2>2, OutlastsKept, TimerNames, FirstWaitType
  <2>. QED
    BY <2>2, <2>3
<1>. QED
  BY <1>2, <1>3, RequestHalvesNext

\* What a handler that does not visit it leaves the time timer to run for.
LEMMA RunsForNTP ==
  ASSUME timers'[NTP] = timers[NTP], elapsed' = elapsed,
         (pc \in {"remoteSync", "getTime"}) = (pc' \in {"remoteSync", "getTime"})
  PROVE  RunsFor(NTP)' = RunsFor(NTP)
BY DEF RunsFor, NTP

\* When the time timer runs out, no answer is awaited and no first join goes on.
LEMMA NoOverlap ==
  ASSUME TypeOK, RequestOutlasted, pc = "getTime", RunsOut(NTP)
  PROVE  ~waiting_on_NTP_response /\ ~(~once /\ wifi_connecting)
<1>1. MaxPass \in Nat /\ MaxPass >= MaxPass
  BY Numbers
<1>2. ~(RunsFor(NTP) > 0)
  BY Numbers, TimerNames DEF RunsFor, RunsOut, Due, NTP
<1>. QED
  BY <1>1, <1>2, RequestHalves, OutlastingRuns, FirstWaitType, TimerNames
     DEF FirstJoinOutlasted, AnswerOutlasted

LEMMA RequestStep ==
  ASSUME RequestsFit, TypeOK, NothingBeforeBoot, ReconnectArmed, FirstJoinOnly,
         RequestOutlasted, [Next]_vars
  PROVE  RequestOutlasted'
<1>0. /\ FirstJoinOutlasted /\ AnswerOutlasted
      /\ MaxPass \in Nat /\ MaxPass >= 1 /\ MaxPass >= MaxPass
      /\ timers \in TimerTables
  BY RequestHalves, Numbers DEF TypeOK, TimerTables
<1>1. ASSUME RemoteInit PROVE RequestOutlasted'
  <2>1. /\ pc = "remoteInit" /\ pc' = "updateTimers" /\ since' = since /\ ConnectToWifi
        /\ timers' = StopTimer(Interval, REC) /\ UNCHANGED <<elapsed, sessionVars>>
    BY <1>1 DEF RemoteInit, Goto, REC
  <2>2. timers'[NTP] = DEFAULT_TIME_SYNC_INTERVAL /\ left'["WIFI"] = WIFI_CONNECTION_TIMEOUT
    BY <2>1, ConnectToWifiLeft DEF StopTimer, Interval, NTP, REC
  <2>3. RunsFor(NTP)' = DEFAULT_TIME_SYNC_INTERVAL /\ JustLookedAt("WIFI")'
    BY <2>1, <2>2, TimeAssumption DEF RunsFor, JustLookedAt, Positive
  <2>4. Outlasts(NTP, "WIFI", FirstWait)'
    BY <1>0, <2>1, <2>2, <2>3, Numbers, TimeAssumption
       DEF Outlasts, RequestsFit, FirstWait, Positive
  <2>5. ~waiting_on_NTP_response'
    BY <2>1 DEF FirstJoinOnly, sessionVars
  <2>. QED
    BY <2>4, <2>5, RequestHalvesNext DEF FirstJoinOutlasted, AnswerOutlasted
<1>2. ASSUME UpdateTimers \/ SysTick PROVE RequestOutlasted'
  <2>1. UNCHANGED <<sessionVars, wifiVars>>
    BY <1>2 DEF UpdateTimers, SysTick
  <2>2. AnswerOutlasted'
    BY <1>0, <1>2, <2>1, OutlastsUpdate, OutlastsTick, TimerNames
       DEF AnswerOutlasted, sessionVars
  <2>3. Outlasts(NTP, "WIFI", FirstWait) => Outlasts(NTP, "WIFI", FirstWait)'
    BY <1>2, OutlastsUpdate, OutlastsTick, TimerNames, FirstWaitType
  <2>4. FirstJoinOutlasted'
    BY <1>0, <2>1, <2>3 DEF FirstJoinOutlasted, sessionVars, wifiVars, FirstWait
  <2>. QED
    BY <2>2, <2>4, RequestHalvesNext
<1>3. ASSUME RemoteSyncTick PROVE RequestOutlasted'
  <2>1. /\ pc = "remoteSync" /\ pc' = "getTime" /\ UNCHANGED <<since, elapsed, wifiVars>>
        /\ timers' = Visited("REMOTE_SYNC_TICK")
        /\ UNCHANGED <<left, sessionVars>> \/ RemoteSync
    BY <1>3 DEF RemoteSyncTick, Goto, Skip
  <2>2. /\ left'["WIFI"] = left["WIFI"] /\ left'["NTP"] = left["NTP"]
        /\ UNCHANGED waiting_on_NTP_response
    BY <2>1, RemoteSyncLeft DEF sessionVars
  <2>3. timers'[NTP] = timers[NTP]
    BY <2>1, VisitedOthers, TimerNames DEF Timers, NTP
  <2>4. RunsFor(NTP)' = RunsFor(NTP)
    BY <2>1, <2>3, RunsForNTP
  <2>5. ~JustLookedAt("NTP")' /\ ~JustLookedAt("WIFI")'
    BY <2>1 DEF JustLookedAt
  <2>. QED
    BY <2>1, <2>2, <2>4, <2>5, RequestKept DEF wifiVars
<1>4. ASSUME GetTimeTick PROVE RequestOutlasted'
  <2>. DEFINE tm == Visited(NTP)
  <2>1. /\ pc = "getTime" /\ pc' = "wifiCheck" /\ UNCHANGED <<since, elapsed, wifiVars>>
        /\ \/ ~RunsOut(NTP) /\ timers' = tm /\ UNCHANGED <<left, sessionVars>>
           \/ RunsOut(NTP) /\ GetTime(tm)
    BY <1>4 DEF GetTimeTick, Goto, Skip, NTP, wifiVars
  <2>2. /\ RunsFor(NTP) = timers[NTP] - elapsed
        /\ ~JustLookedAt("NTP")' /\ ~JustLookedAt("WIFI")'
    BY <2>1 DEF RunsFor, JustLookedAt, NTP
  <2>3. RunsFor(NTP)' = timers'[NTP] - 0
    BY <2>1 DEF RunsFor, NTP
  <2>4. tm \in TimerTables /\ tm[NTP] = Stepped(timers[NTP], elapsed, DEFAULT_TIME_SYNC_INTERVAL)
    BY VisitedType, VisitedOthers, TimerNames DEF NTP, Interval
  <2>. HIDE DEF tm
  <2>5. CASE timers' = tm /\ UNCHANGED <<left, sessionVars>> /\ ~RunsOut(NTP)
    <3>1. timers'[NTP] \in Int /\ timers'[NTP] = Visited(NTP)[NTP]
      BY <2>4, <2>5, TimerNames DEF tm, TimerTables, Positive, Stopped
    <3>2. RunsFor(NTP)' = timers'[NTP]
      BY <2>3, <3>1
    <3>3. AnswerOutlasted'
      <4>1. SUFFICES ASSUME waiting_on_NTP_response' PROVE Outlasts(NTP, "NTP", MaxPass)'
        BY DEF AnswerOutlasted
      <4>2. Outlasts(NTP, "NTP", MaxPass)
        BY <1>0, <2>5, <4>1 DEF AnswerOutlasted, sessionVars
      <4>. QED
        BY <1>0, <2>1, <2>2, <2>5, <3>1, <3>2, <4>2, OutlastsVisit, TimerNames
    <3>4. FirstJoinOutlasted'
      <4>1. Outlasts(NTP, "WIFI", FirstWait) => Outlasts(NTP, "WIFI", FirstWait)'
        BY <1>0, <2>1, <2>2, <2>5, <3>1, <3>2, OutlastsVisit, TimerNames, FirstWaitType
      <4>. QED
        BY <1>0, <2>1, <2>5, <4>1 DEF FirstJoinOutlasted, sessionVars, wifiVars, FirstWait
    <3>. QED
      BY <3>3, <3>4, RequestHalvesNext
  <2>6. CASE RunsOut(NTP) /\ GetTime(tm)
    <3>1. ~waiting_on_NTP_response /\ ~(~once /\ wifi_connecting)
      BY <2>1, <2>6, NoOverlap
    <3>2. FirstJoinOutlasted'
      BY <2>1, <3>1 DEF FirstJoinOutlasted, wifiVars
    <3>3. AnswerOutlasted'
      <4>1. SUFFICES ASSUME waiting_on_NTP_response' PROVE Outlasts(NTP, "NTP", MaxPass)'
        BY DEF AnswerOutlasted
      <4>2. timers' = tm /\ left'["NTP"] = NTP_RESPONSE_WAIT_TIME
        BY <2>6, <3>1, <4>1 DEF GetTime, sessionVars, TypeOK, Waits
      <4>3. tm[NTP] > DEFAULT_TIME_SYNC_INTERVAL - elapsed /\ tm[NTP] \in Int
        BY <2>4, <2>6, SteppedOver, Numbers, TimerNames, TimeAssumption
           DEF RunsOut, TimerTables, Positive, Stopped
      <4>4. RunsFor(NTP)' = tm[NTP] /\ RunsFor(NTP)' > DEFAULT_TIME_SYNC_INTERVAL - elapsed
        BY <2>3, <4>2, <4>3
      <4>. QED
        BY <1>0, <2>1, <2>2, <4>2, <4>3, <4>4, Numbers, TimeAssumption
           DEF Outlasts, RequestsFit, Positive
    <3>. QED
      BY <3>2, <3>3, RequestHalvesNext
  <2>. QED
    BY <2>1, <2>5, <2>6
<1>5. ASSUME WifiCheckTick PROVE RequestOutlasted'
  <2>. DEFINE tm == Visited("WIFI_CHECK_STAT_TICK")
  <2>1. tm \in TimerTables /\ tm[NTP] = timers[NTP]
    BY VisitedType, VisitedOthers, TimerNames DEF Timers, NTP
  <2>. HIDE DEF tm
  <2>2. /\ pc = "wifiCheck" /\ pc' = "wifiReconnect" /\ UNCHANGED <<since, elapsed>>
        /\ (UNCHANGED <<left, sessionVars, wifiVars>> /\ timers' = tm) \/ WifiCheck(tm)
    BY <1>5 DEF WifiCheckTick, Goto, Skip, tm
  <2>3. \/ /\ wifi_connected /\ ConnectToWifi /\ timers' = ReloadTimer(tm, REC)
           /\ UNCHANGED sessionVars /\ once' = once
        \/ UNCHANGED <<left, sessionVars, wifiVars>> /\ timers' = tm
    BY <2>1, <2>2, WifiCheckCases
  <2>4. timers'[NTP] = timers[NTP] /\ left'["NTP"] = left["NTP"] /\ UNCHANGED sessionVars
    BY <2>1, <2>3, ConnectToWifiLeft, TimerNames DEF ReloadTimer, TimerTables, NTP, REC
  <2>5. RunsFor(NTP)' = RunsFor(NTP) /\ ~JustLookedAt("NTP")' /\ ~JustLookedAt("WIFI")'
    BY <2>2, <2>4, RunsForNTP DEF JustLookedAt
  <2>6. ~once' /\ wifi_connecting' =>
          ~once /\ wifi_connecting /\ left'["WIFI"] = left["WIFI"]
    BY <2>3 DEF FirstJoinOnly, wifiVars
  <2>. QED
    BY <2>2, <2>4, <2>5, <2>6, RequestKept DEF sessionVars
<1>6. ASSUME WifiReconnectTick PROVE RequestOutlasted'
  <2>1. /\ pc = "wifiReconnect" /\ pc' = "checkNtpResponse" /\ since' = since
        /\ timers' = Visited(REC) /\ UNCHANGED sessionVars /\ once' = once
        /\ \/ UNCHANGED <<left, wifiVars>>
           \/ RunsOut(REC) /\ ConnectToWifi
    BY <1>6 DEF WifiReconnectTick, Goto, Skip, REC, wifiVars
  <2>2. timers'[NTP] = timers[NTP] /\ left'["NTP"] = left["NTP"]
    BY <2>1, VisitedOthers, TimerNames, ConnectToWifiLeft DEF NTP, REC
  <2>3. RunsFor(NTP)' = RunsFor(NTP) /\ ~JustLookedAt("NTP")' /\ ~JustLookedAt("WIFI")'
    BY <2>1, <2>2 DEF RunsFor, JustLookedAt, NTP
  <2>4. RunsOut(REC) => once
    BY DEF RunsOut, Due, FirstJoinOnly, REC
  <2>5. ~once' /\ wifi_connecting' =>
          ~once /\ wifi_connecting /\ left'["WIFI"] = left["WIFI"]
    BY <2>1, <2>4 DEF wifiVars
  <2>. QED
    BY <2>1, <2>2, <2>3, <2>5, RequestKept DEF sessionVars
<1>7. ASSUME CheckNtpResponse PROVE RequestOutlasted'
  <2>1. /\ pc = "checkNtpResponse" /\ pc' = "checkBEResponse"
        /\ UNCHANGED <<since, elapsed, left, wifiVars>>
        /\ \/ waiting_on_NTP_response /\ ~waiting_on_NTP_response'
           \/ /\ waiting_on_NTP_response => left["NTP"] > 0
              /\ UNCHANGED <<timers, waiting_on_NTP_response>>
    BY <1>7 DEF CheckNtpResponse, Goto
  <2>2. ~JustLookedAt("WIFI")'
    BY <2>1 DEF JustLookedAt
  <2>3. CASE waiting_on_NTP_response /\ ~waiting_on_NTP_response'
    <3>1. ~(~once' /\ wifi_connecting')
      BY <1>0, <2>1, <2>3 DEF FirstJoinOutlasted, wifiVars
    <3>. QED
      BY <2>3, <3>1, RequestHalvesNext DEF FirstJoinOutlasted, AnswerOutlasted
  <2>4. CASE /\ waiting_on_NTP_response => left["NTP"] > 0
             /\ UNCHANGED <<timers, waiting_on_NTP_response>>
    <3>1. RunsFor(NTP)' = RunsFor(NTP)
      BY <2>1, <2>4, RunsForNTP
    <3>. QED
      BY <2>1, <2>2, <2>4, <3>1, RequestKept DEF wifiVars
  <2>. QED
    BY <2>1, <2>3, <2>4
<1>8. ASSUME CheckBEResponse PROVE RequestOutlasted'
  <2>1. /\ pc = "checkBEResponse" /\ pc' = "checkWifiConnecting"
        /\ left'["WIFI"] = left["WIFI"] /\ left'["NTP"] = left["NTP"]
        /\ UNCHANGED <<waiting_on_NTP_response, timers, wifiVars, since, elapsed>>
    BY <1>8, CheckBEResponseLeft
  <2>2. RunsFor(NTP)' = RunsFor(NTP) /\ JustLookedAt("NTP") /\ ~JustLookedAt("WIFI")'
    BY <2>1, RunsForNTP DEF JustLookedAt
  <2>. QED
    BY <2>1, <2>2, RequestKept DEF wifiVars
<1>9. ASSUME CheckWifiConnecting PROVE RequestOutlasted'
  <2>1. pc = "checkWifiConnecting" /\ pc' = "updateTimers" /\ UNCHANGED <<since, elapsed>>
    BY <1>9 DEF CheckWifiConnecting, Goto
  <2>2. JustLookedAt("NTP") /\ ~JustLookedAt("WIFI")
    BY <2>1 DEF JustLookedAt
  <2>3. CASE /\ wifi_connecting /\ ~once /\ GetTime(StopTimer(timers, REC))
             /\ wifi_connecting' = FALSE /\ once' = TRUE
    <3>1. ~waiting_on_NTP_response /\ Outlasts(NTP, "WIFI", FirstWait)
      BY <1>0, <2>3 DEF FirstJoinOutlasted
    <3>2. StopTimer(timers, REC)[NTP] = timers[NTP] /\ timers[NTP] \in Int
      BY <1>0, Numbers, TimerNames DEF StopTimer, TimerTables, NTP, REC
    <3>3. RunsFor(NTP) = timers[NTP] - 0
      BY <2>1 DEF RunsFor, NTP
    <3>4. timers[NTP] > FirstWait - MaxPass
      BY <1>0, <2>2, <3>1, <3>2, <3>3 DEF Outlasts
    <3>5. AnswerOutlasted'
      <4>1. SUFFICES ASSUME waiting_on_NTP_response' PROVE Outlasts(NTP, "NTP", MaxPass)'
        BY DEF AnswerOutlasted
      <4>2. timers' = StopTimer(timers, REC) /\ left'["NTP"] = NTP_RESPONSE_WAIT_TIME
        BY <2>3, <3>1, <4>1 DEF GetTime, sessionVars, TypeOK, Waits
      <4>3. RunsFor(NTP)' = timers[NTP] - 0
        BY <2>1, <3>2, <4>2 DEF RunsFor, NTP
      <4>4. RunsFor(NTP)' = timers[NTP]
        BY <3>2, <4>3
      <4>. QED
        BY <1>0, <2>1, <3>2, <3>4, <4>2, <4>4, Numbers, TimeAssumption
           DEF Outlasts, FirstWait, Positive
    <3>. QED
      BY <2>3, <3>5, RequestHalvesNext DEF FirstJoinOutlasted
  <2>4. CASE /\ wifi_connecting /\ wifi_connecting' = FALSE /\ UNCHANGED <<left, sessionVars>>
             /\ timers' = StopTimer(timers, REC) \/ timers' = timers
    <3>1. timers'[NTP] = timers[NTP]
      BY <1>0, <2>4, TimerNames DEF StopTimer, TimerTables, NTP, REC
    <3>2. RunsFor(NTP)' = RunsFor(NTP)
      BY <2>1, <3>1, RunsForNTP
    <3>. QED
      BY <2>1, <2>2, <2>4, <3>2, RequestKept DEF sessionVars
  <2>5. CASE /\ wifi_connecting => left["WIFI"] > 0
             /\ UNCHANGED <<timers, left, sessionVars, wifiVars>>
    <3>1. RunsFor(NTP)' = RunsFor(NTP)
      BY <2>1, <2>5, RunsForNTP
    <3>. QED
      BY <2>1, <2>2, <2>5, <3>1, RequestKept DEF sessionVars, wifiVars
  <2>. QED
    BY <1>9, <2>3, <2>4, <2>5, CheckWifiConnectingCases
<1>10. ASSUME Environment \/ UNCHANGED vars PROVE RequestOutlasted'
  <2>1. UNCHANGED <<pc, since, elapsed, timers, left, sessionVars, wifiVars>>
    BY <1>10 DEF Environment, LinkChanges, DatagramArrives, ChunkArrives,
       PeerCloses, RadioReclaims, vars, loopVars
  <2>. QED
    BY <2>1 DEF RequestOutlasted, Outlasts, RunsFor, JustLookedAt, sessionVars, wifiVars
<1>. QED
  BY <1>1, <1>2, <1>3, <1>4, <1>5, <1>6, <1>7, <1>8, <1>9, <1>10 DEF Next, Superloop

-----------------------------------------------------------------------------
(* The attempt to join and the reconnect timer. *)

\* A step that begins no attempt and leaves the reconnect timer alone.
LEMMA JoinKept ==
  ASSUME TypeOK, JoinOutlasted,
         once' /\ wifi_connecting' => once /\ wifi_connecting,
         RunsFor(REC)' = RunsFor(REC), since' = since, left'["WIFI"] = left["WIFI"],
         once' /\ wifi_connecting' /\ JustLookedAt("WIFI")'
           => JustLookedAt("WIFI") \/ left["WIFI"] > 0
  PROVE  JoinOutlasted'
<1>1. SUFFICES ASSUME once', wifi_connecting' PROVE Outlasts(REC, "WIFI", MaxPass)'
  BY DEF JoinOutlasted, REC
<1>2. MaxPass \in Nat /\ Outlasts(REC, "WIFI", MaxPass)
  BY <1>1, Numbers DEF JoinOutlasted, REC
<1>. QED
  BY <1>1, <1>2, OutlastsKept, TimerNames

\* What a handler that does not visit it leaves the reconnect timer to run for.
LEMMA RunsForREC ==
  ASSUME timers'[REC] = timers[REC], elapsed' = elapsed,
         (pc \in {"remoteSync", "getTime", "wifiCheck", "wifiReconnect"})
           = (pc' \in {"remoteSync", "getTime", "wifiCheck", "wifiReconnect"})
  PROVE  RunsFor(REC)' = RunsFor(REC)
BY DEF RunsFor, REC

\* When the reconnect timer runs out, no attempt to join is in progress.
LEMMA NoJoinCut ==
  ASSUME TypeOK, FirstJoinOnly, JoinOutlasted, pc = "wifiReconnect", RunsOut(REC)
  PROVE  ~wifi_connecting /\ once
<1>1. MaxPass \in Nat /\ MaxPass >= MaxPass
  BY Numbers
<1>2. ~(RunsFor(REC) > 0)
  BY Numbers, TimerNames DEF RunsFor, RunsOut, Due, REC
<1>3. once
  BY DEF RunsOut, Due, FirstJoinOnly, REC
<1>4. ~Outlasts(REC, "WIFI", MaxPass)
  BY <1>1, <1>2, OutlastingRuns, TimerNames
<1>. QED
  BY <1>3, <1>4 DEF JoinOutlasted, REC

LEMMA JoinStep ==
  ASSUME JoinsFit, TypeOK, NothingBeforeBoot, ReconnectArmed, FirstJoinOnly,
         JoinOutlasted, [Next]_vars
  PROVE  JoinOutlasted'
<1>0. MaxPass \in Nat /\ MaxPass >= 1 /\ MaxPass >= MaxPass /\ timers \in TimerTables
  BY Numbers DEF TypeOK, TimerTables
<1>1. ASSUME RemoteInit PROVE JoinOutlasted'
  BY <1>1 DEF RemoteInit, Goto, NothingBeforeBoot, JoinOutlasted
<1>2. ASSUME UpdateTimers \/ SysTick PROVE JoinOutlasted'
  <2>1. UNCHANGED wifiVars
    BY <1>2 DEF UpdateTimers, SysTick
  <2>2. Outlasts(REC, "WIFI", MaxPass) => Outlasts(REC, "WIFI", MaxPass)'
    BY <1>0, <1>2, OutlastsUpdate, OutlastsTick, TimerNames
  <2>. QED
    BY <2>1, <2>2 DEF JoinOutlasted, wifiVars, REC
<1>3. ASSUME RemoteSyncTick PROVE JoinOutlasted'
  <2>1. /\ pc = "remoteSync" /\ pc' = "getTime" /\ UNCHANGED <<since, elapsed, wifiVars>>
        /\ timers' = Visited("REMOTE_SYNC_TICK")
        /\ UNCHANGED left \/ RemoteSync
    BY <1>3 DEF RemoteSyncTick, Goto, Skip
  <2>2. left'["WIFI"] = left["WIFI"]
    BY <2>1, RemoteSyncLeft
  <2>3. timers'[REC] = timers[REC]
    BY <2>1, VisitedOthers, TimerNames DEF Timers, REC
  <2>4. RunsFor(REC)' = RunsFor(REC) /\ ~JustLookedAt("WIFI")'
    BY <2>1, <2>3, RunsForREC DEF JustLookedAt
  <2>. QED
    BY <2>1, <2>2, <2>4, JoinKept DEF wifiVars
<1>4. ASSUME GetTimeTick PROVE JoinOutlasted'
  <2>1. /\ pc = "getTime" /\ pc' = "wifiCheck" /\ UNCHANGED <<since, elapsed, wifiVars>>
        /\ (timers' = Visited(NTP) /\ UNCHANGED left) \/ GetTime(Visited(NTP))
    BY <1>4 DEF GetTimeTick, Goto, Skip, NTP
  <2>2. Visited(NTP) \in TimerTables /\ Visited(NTP)[REC] = timers[REC] /\ REC # NTP
    BY VisitedType, VisitedOthers, TimerNames DEF NTP, REC
  <2>3. timers'[REC] = timers[REC] /\ left'["WIFI"] = left["WIFI"]
    BY <2>1, <2>2, GetTimeTimers, GetTimeLeft, TimerNames DEF NTP
  <2>4. RunsFor(REC)' = RunsFor(REC) /\ ~JustLookedAt("WIFI")'
    BY <2>1, <2>3, RunsForREC DEF JustLookedAt
  <2>. QED
    BY <2>1, <2>3, <2>4, JoinKept DEF wifiVars
<1>5. ASSUME WifiCheckTick PROVE JoinOutlasted'
  <2>. DEFINE tm == Visited("WIFI_CHECK_STAT_TICK")
  <2>1. tm \in TimerTables /\ tm[REC] = timers[REC]
    BY VisitedType, VisitedOthers, TimerNames DEF Timers, REC
  <2>. HIDE DEF tm
  <2>2. /\ pc = "wifiCheck" /\ pc' = "wifiReconnect" /\ UNCHANGED <<since, elapsed>>
        /\ (UNCHANGED <<left, sessionVars, wifiVars>> /\ timers' = tm) \/ WifiCheck(tm)
    BY <1>5 DEF WifiCheckTick, Goto, Skip, tm
  <2>3. ~JustLookedAt("WIFI")'
    BY <2>2 DEF JustLookedAt
  <2>4. CASE UNCHANGED <<left, wifiVars>> /\ timers' = tm
    <3>1. RunsFor(REC)' = RunsFor(REC)
      BY <2>1, <2>2, <2>4, RunsForREC
    <3>. QED
      BY <2>2, <2>3, <2>4, <3>1, JoinKept DEF wifiVars
  <2>5. CASE ConnectToWifi /\ timers' = ReloadTimer(tm, REC)
    <3>1. left'["WIFI"] = WIFI_CONNECTION_TIMEOUT /\ timers'[REC] = WIFI_RECONNECT_INTERVAL
      BY <2>1, <2>5, ConnectToWifiLeft, TimerNames DEF ReloadTimer, Interval, TimerTables, REC
    <3>2. RunsFor(REC)' = WIFI_RECONNECT_INTERVAL - elapsed
      BY <2>2, <3>1 DEF RunsFor, REC
    <3>3. Outlasts(REC, "WIFI", MaxPass)'
      BY <2>2, <2>3, <3>1, <3>2, Numbers, TimeAssumption DEF Outlasts, JoinsFit, Positive
    <3>. QED
      BY <3>3 DEF JoinOutlasted, REC
  <2>. QED
    BY <2>1, <2>2, <2>4, <2>5, WifiCheckCases
<1>6. ASSUME WifiReconnectTick PROVE JoinOutlasted'
  <2>1. /\ pc = "wifiReconnect" /\ pc' = "checkNtpResponse" /\ since' = since
        /\ timers' = Visited(REC) /\ once' = once
        /\ \/ UNCHANGED <<left, wifiVars>> /\ ~RunsOut(REC)
           \/ RunsOut(REC) /\ ConnectToWifi
    BY <1>6 DEF WifiReconnectTick, Goto, Skip, REC, wifiVars
  <2>2. /\ timers'[REC] = Stepped(timers[REC], elapsed, WIFI_RECONNECT_INTERVAL)
        /\ timers'[REC] \in Int /\ timers'[REC] = Visited(REC)[REC]
    <3>1. Visited(REC) \in TimerTables
      BY VisitedType, TimerNames
    <3>. QED
      BY <2>1, <3>1, VisitedOthers, TimerNames
         DEF REC, Interval, TimerTables, Positive, Stopped
  <2>3. RunsFor(REC) = timers[REC] - elapsed /\ ~JustLookedAt("WIFI")'
    BY <2>1 DEF RunsFor, JustLookedAt, REC
  <2>4. RunsFor(REC)' = timers'[REC] - 0
    BY <2>1 DEF RunsFor, REC
  <2>5. RunsFor(REC)' = timers'[REC]
    BY <2>2, <2>4
  <2>6. CASE UNCHANGED <<left, wifiVars>>
    <3>1. Outlasts(REC, "WIFI", MaxPass) => Outlasts(REC, "WIFI", MaxPass)'
      BY <1>0, <2>1, <2>2, <2>3, <2>5, <2>6, OutlastsVisit, TimerNames
    <3>. QED
      BY <2>6, <3>1 DEF JoinOutlasted, wifiVars, REC
  <2>7. CASE RunsOut(REC) /\ ConnectToWifi
    <3>1. left'["WIFI"] = WIFI_CONNECTION_TIMEOUT
      BY <2>7, ConnectToWifiLeft
    <3>2. timers'[REC] > WIFI_RECONNECT_INTERVAL - elapsed
      BY <2>2, <2>7, SteppedOver, Numbers, TimerNames, TimeAssumption DEF RunsOut
    <3>3. Outlasts(REC, "WIFI", MaxPass)'
      BY <2>1, <2>2, <2>3, <2>5, <3>1, <3>2, Numbers, TimeAssumption
         DEF Outlasts, JoinsFit, Positive
    <3>. QED
      BY <3>3 DEF JoinOutlasted, REC
  <2>. QED
    BY <2>1, <2>6, <2>7
<1>7. ASSUME CheckNtpResponse PROVE JoinOutlasted'
  <2>1. /\ pc = "checkNtpResponse" /\ pc' = "checkBEResponse"
        /\ UNCHANGED <<since, elapsed, left, wifiVars>> /\ timers'[REC] = timers[REC]
    BY <1>7 DEF CheckNtpResponse, Goto, TypeOK, Timers, REC
  <2>2. RunsFor(REC)' = RunsFor(REC) /\ ~JustLookedAt("WIFI")'
    BY <2>1, RunsForREC DEF JustLookedAt
  <2>. QED
    BY <2>1, <2>2, JoinKept DEF wifiVars
<1>8. ASSUME CheckBEResponse PROVE JoinOutlasted'
  <2>1. /\ pc = "checkBEResponse" /\ pc' = "checkWifiConnecting"
        /\ left'["WIFI"] = left["WIFI"] /\ UNCHANGED <<timers, wifiVars, since, elapsed>>
    BY <1>8, CheckBEResponseLeft
  <2>2. RunsFor(REC)' = RunsFor(REC) /\ ~JustLookedAt("WIFI")'
    BY <2>1, RunsForREC DEF JustLookedAt
  <2>. QED
    BY <2>1, <2>2, JoinKept DEF wifiVars
<1>9. ASSUME CheckWifiConnecting PROVE JoinOutlasted'
  <2>1. pc = "checkWifiConnecting" /\ pc' = "updateTimers" /\ UNCHANGED <<since, elapsed>>
    BY <1>9 DEF CheckWifiConnecting, Goto
  <2>2. CASE ~wifi_connecting'
    BY <2>2 DEF JoinOutlasted
  <2>3. CASE /\ wifi_connecting => left["WIFI"] > 0
             /\ UNCHANGED <<timers, left, wifiVars>>
    <3>1. RunsFor(REC)' = RunsFor(REC)
      BY <2>1, <2>3, RunsForREC
    <3>. QED
      BY <2>1, <2>3, <3>1, JoinKept DEF wifiVars
  <2>. QED
    BY <1>9, <2>2, <2>3, CheckWifiConnectingCases
<1>10. ASSUME Environment \/ UNCHANGED vars PROVE JoinOutlasted'
  <2>1. UNCHANGED <<pc, since, elapsed, timers, left, wifiVars>>
    BY <1>10 DEF Environment, LinkChanges, DatagramArrives, ChunkArrives,
       PeerCloses, RadioReclaims, vars, loopVars
  <2>. QED
    BY <2>1 DEF JoinOutlasted, Outlasts, RunsFor, JustLookedAt, wifiVars
<1>. QED
  BY <1>1, <1>2, <1>3, <1>4, <1>5, <1>6, <1>7, <1>8, <1>9, <1>10 DEF Next, Superloop

-----------------------------------------------------------------------------
(* What follows for the conversations and the attempts to join. *)

\* The socket a request was sent on is kept until the request is over.
RequestHasSocket == waiting_on_NTP_response => sock # NoSock

\* No step sends a request while one is waited for, so none puts its deadline
\* off or leaves it without its socket.
LEMMA RequestAlone ==
  ASSUME TypeOK, Ownership, ReconnectArmed, FirstJoinOnly, RequestOutlasted, RequestHasSocket,
         [Next]_vars
  PROVE  /\ RequestHasSocket'
         /\ waiting_on_NTP_response => left'["NTP"] <= left["NTP"]
<1>. DEFINE Goal == /\ RequestHasSocket'
                    /\ waiting_on_NTP_response => left'["NTP"] <= left["NTP"]
<1>0. left["NTP"] \in Nat /\ ~(waiting_on_NTP_response /\ waiting_on_BE_response)
  BY Numbers, TimerNames DEF Ownership, OneConversation
<1>1. ASSUME UNCHANGED <<sock, waiting_on_NTP_response>>, left'["NTP"] = left["NTP"]
      PROVE  Goal
  BY <1>0, <1>1 DEF RequestHasSocket
<1>2. ASSUME NEW tm, GetTime(tm), ~waiting_on_NTP_response PROVE Goal
  <2>1. waiting_on_NTP_response' => sock' # NoSock
    BY <1>2 DEF GetTime, BeginUDP, sessionVars
  <2>. QED
    BY <1>2, <2>1 DEF RequestHasSocket
<1>3. ASSUME RemoteInit PROVE Goal
  <2>1. UNCHANGED <<sockVars, sessionVars>> /\ ConnectToWifi
    BY <1>3 DEF RemoteInit
  <2>. QED
    BY <1>1, <2>1, ConnectToWifiLeft DEF sockVars, sessionVars
<1>4. ASSUME UpdateTimers PROVE Goal
  BY <1>1, <1>4 DEF UpdateTimers, sockVars, sessionVars
<1>5. ASSUME RemoteSyncTick PROVE Goal
  <2>1. UNCHANGED <<left, sessionVars, sockVars>> \/ RemoteSync
    BY <1>5 DEF RemoteSyncTick, Skip
  <2>2. CASE UNCHANGED <<left, sessionVars, sockVars>>
    BY <1>1, <2>2 DEF sockVars, sessionVars
  <2>3. CASE RemoteSync
    <3>1. left'["NTP"] = left["NTP"] /\ UNCHANGED waiting_on_NTP_response
      BY <2>3, RemoteSyncLeft
    <3>2. ~waiting_on_NTP_response \/ UNCHANGED sock
      BY <2>3 DEF RemoteSync, CannotPost, sockVars
    <3>. QED
      BY <1>0, <3>1, <3>2 DEF RequestHasSocket
  <2>. QED
    BY <2>1, <2>2, <2>3
<1>6. ASSUME GetTimeTick PROVE Goal
  <2>1. /\ pc = "getTime"
        /\ \/ UNCHANGED <<left, sessionVars, sockVars>>
           \/ RunsOut(NTP) /\ GetTime(Visited(NTP))
    BY <1>6 DEF GetTimeTick, Goto, Skip, NTP
  <2>. QED
    BY <1>1, <1>2, <2>1, NoOverlap DEF sockVars, sessionVars
<1>7. ASSUME WifiCheckTick PROVE Goal
  <2>1. PICK tm \in TimerTables :
          \/ UNCHANGED <<left, sessionVars, sockVars>>
          \/ WifiCheck(tm)
    BY <1>7, VisitedType DEF WifiCheckTick, Skip, Timers
  <2>2. /\ UNCHANGED <<sessionVars, sockVars>>
        /\ UNCHANGED left \/ ConnectToWifi
    BY <2>1, WifiCheckCases
  <2>. QED
    BY <1>1, <2>2, ConnectToWifiLeft DEF sessionVars, sockVars
<1>8. ASSUME WifiReconnectTick PROVE Goal
  <2>1. /\ UNCHANGED <<sessionVars, sockVars>>
        /\ UNCHANGED left \/ ConnectToWifi
    BY <1>8 DEF WifiReconnectTick, Skip
  <2>. QED
    BY <1>1, <2>1, ConnectToWifiLeft DEF sessionVars, sockVars
<1>9. ASSUME CheckNtpResponse PROVE Goal
  <2>1. /\ UNCHANGED left
        /\ ~waiting_on_NTP_response' \/ UNCHANGED <<waiting_on_NTP_response, sockVars>>
    BY <1>9 DEF CheckNtpResponse
  <2>. QED
    BY <1>0, <2>1 DEF RequestHasSocket, sockVars
<1>10. ASSUME CheckBEResponse PROVE Goal
  <2>1. left'["NTP"] = left["NTP"] /\ UNCHANGED waiting_on_NTP_response
    BY <1>10, CheckBEResponseLeft
  <2>2. waiting_on_BE_response \/ UNCHANGED sock
    BY <1>10 DEF CheckBEResponse, sockVars
  <2>. QED
    BY <1>0, <2>1, <2>2 DEF RequestHasSocket
<1>11. ASSUME CheckWifiConnecting PROVE Goal
  <2>1. CASE wifi_connecting /\ ~once /\ GetTime(StopTimer(timers, REC))
    <3>1. ~waiting_on_NTP_response
      BY <2>1, RequestHalves DEF FirstJoinOutlasted
    <3>. QED
      BY <1>2, <2>1, <3>1
  <2>2. CASE UNCHANGED <<left, sessionVars, sockVars>>
    BY <1>1, <2>2 DEF sessionVars, sockVars
  <2>. QED
    BY <1>11, <2>1, <2>2, CheckWifiConnectingCases
<1>12. ASSUME SysTick PROVE Goal
  <2>1. /\ UNCHANGED <<sockVars, sessionVars>>
        /\ left'["NTP"] = (IF left["NTP"] > 0 THEN left["NTP"] - 1 ELSE 0)
    BY <1>12, TimerNames DEF SysTick
  <2>2. left'["NTP"] <= left["NTP"]
    BY <1>0, <2>1
  <2>. QED
    BY <2>1, <2>2 DEF RequestHasSocket, sockVars, sessionVars
<1>13. ASSUME Environment \/ UNCHANGED vars PROVE Goal
  <2>1. UNCHANGED <<left, sessionVars, sockVars>>
    BY <1>13 DEF Environment, LinkChanges, DatagramArrives, ChunkArrives,
       PeerCloses, RadioReclaims, vars
  <2>. QED
    BY <1>1, <2>1 DEF sockVars, sessionVars
<1>. QED
  BY <1>3, <1>4, <1>5, <1>6, <1>7, <1>8, <1>9, <1>10, <1>11, <1>12, <1>13 DEF Next, Superloop

LEMMA FirstJoinInvariant == Spec => []FirstJoinOnly
<1>1. Init => FirstJoinOnly
  BY DEF Init, FirstJoinOnly, Timers
<1>2. TypeOK /\ IInv /\ FirstJoinOnly /\ [Next]_vars => FirstJoinOnly'
  BY FirstJoinStep DEF IInv
<1>. QED
  BY <1>1, <1>2, TypeCorrect, InductiveInvariant, PTL DEF Spec

LEMMA RequestInvariant ==
  ASSUME RequestsFit
  PROVE  Spec => []RequestOutlasted
<1>1. Init => RequestOutlasted
  BY DEF Init, RequestOutlasted
<1>2. TypeOK /\ IInv /\ FirstJoinOnly /\ RequestOutlasted /\ [Next]_vars => RequestOutlasted'
  BY RequestStep DEF IInv
<1>. QED
  BY <1>1, <1>2, TypeCorrect, InductiveInvariant, FirstJoinInvariant, PTL DEF Spec

LEMMA JoinInvariant ==
  ASSUME JoinsFit
  PROVE  Spec => []JoinOutlasted
<1>1. Init => JoinOutlasted
  BY DEF Init, JoinOutlasted
<1>2. TypeOK /\ IInv /\ FirstJoinOnly /\ JoinOutlasted /\ [Next]_vars => JoinOutlasted'
  BY JoinStep DEF IInv
<1>. QED
  BY <1>1, <1>2, TypeCorrect, InductiveInvariant, FirstJoinInvariant, PTL DEF Spec

\* Every wait is over before a timer begins the next one (updateTimers, getTime,
\* connectToWifi), with all that IInv says.
THEOREM WaitsEndInTime ==
  ASSUME RequestsFit, JoinsFit
  PROVE  Spec => []TimedInv
<1>1. IInv /\ FirstJoinOnly /\ RequestOutlasted /\ JoinOutlasted => TimedInv
  BY DEF WaitsOutlasted, TimedInv
<1>. QED
  BY <1>1, InductiveInvariant, FirstJoinInvariant, RequestInvariant, JoinInvariant, PTL

\* Whoever waits for an answer has a socket to hear it on: no second request
\* takes the socket of the first away.
THEOREM WaitsAreHeard ==
  ASSUME RequestsFit
  PROVE  Spec => []WaitHasSocket
<1>1. Init => RequestHasSocket
  BY DEF Init, RequestHasSocket
<1>2. /\ TypeOK /\ IInv /\ FirstJoinOnly /\ RequestOutlasted /\ RequestHasSocket
      /\ [Next]_vars
      => RequestHasSocket'
  BY RequestAlone DEF IInv
<1>3. IInv /\ RequestHasSocket => WaitHasSocket
  BY DEF IInv, Ownership, PostHasSocket, RequestHasSocket, WaitHasSocket
<1>. QED
  BY <1>1, <1>2, <1>3, TypeCorrect, InductiveInvariant, FirstJoinInvariant,
     RequestInvariant, PTL DEF Spec

\* No request for the time is sent while the answer to one is awaited.
THEOREM OneRequestAtATime ==
  ASSUME RequestsFit
  PROVE  Spec => NoSecondRequest
<1>1. TypeOK /\ IInv /\ FirstJoinOnly /\ RequestOutlasted /\ WaitHasSocket /\ [Next]_vars
        => [waiting_on_NTP_response => left'["NTP"] <= left["NTP"]]_vars
  BY RequestAlone DEF IInv, RequestHasSocket, WaitHasSocket
<1>. QED
  BY <1>1, TypeCorrect, InductiveInvariant, FirstJoinInvariant, RequestInvariant,
     WaitsAreHeard, PTL DEF Spec, NoSecondRequest

\* No step begins an attempt to join while one is in progress.
LEMMA JoinAlone ==
  ASSUME TypeOK, ReconnectArmed, FirstJoinOnly, JoinOutlasted, wifi_connecting, [Next]_vars
  PROVE  left'["WIFI"] <= left["WIFI"]
<1>0. left["WIFI"] \in Nat
  BY Numbers, TimerNames
<1>1. CASE left'["WIFI"] = left["WIFI"]
  BY <1>0, <1>1
<1>2. ASSUME RemoteInit PROVE FALSE
  BY <1>2 DEF RemoteInit, Goto, FirstJoinOnly
<1>3. ASSUME UpdateTimers \/ CheckNtpResponse PROVE left' = left
  BY <1>3 DEF UpdateTimers, CheckNtpResponse
<1>4. ASSUME RemoteSyncTick \/ CheckBEResponse PROVE left'["WIFI"] = left["WIFI"]
  <2>1. UNCHANGED left \/ RemoteSync \/ CheckBEResponse
    BY <1>4 DEF RemoteSyncTick, Skip
  <2>. QED
    BY <2>1, RemoteSyncLeft, CheckBEResponseLeft
<1>5. ASSUME GetTimeTick PROVE left'["WIFI"] = left["WIFI"]
  <2>1. UNCHANGED left \/ GetTime(Visited(NTP))
    BY <1>5 DEF GetTimeTick, Skip, NTP
  <2>. QED
    BY <2>1, GetTimeLeft
<1>6. ASSUME WifiCheckTick PROVE left' = left
  <2>1. ~wifi_connected
    BY DEF ReconnectArmed
  <2>. QED
    BY <1>6, <2>1 DEF WifiCheckTick, WifiCheck, Skip
<1>7. ASSUME WifiReconnectTick PROVE left' = left
  <2>1. pc = "wifiReconnect" /\ (UNCHANGED left \/ RunsOut(REC))
    BY <1>7 DEF WifiReconnectTick, Goto, Skip, REC
  <2>. QED
    BY <2>1, NoJoinCut
<1>8. ASSUME CheckWifiConnecting PROVE left'["WIFI"] = left["WIFI"]
  BY <1>8, CheckWifiConnectingCases, GetTimeLeft
<1>9. ASSUME SysTick PROVE left'["WIFI"] <= left["WIFI"]
  <2>1. left'["WIFI"] = (IF left["WIFI"] > 0 THEN left["WIFI"] - 1 ELSE 0)
    BY <1>9, TimerNames DEF SysTick
  <2>. QED
    BY <1>0, <2>1
<1>10. ASSUME Environment \/ UNCHANGED vars PROVE left' = left
  BY <1>10 DEF Environment, LinkChanges, DatagramArrives, ChunkArrives, PeerCloses,
     RadioReclaims, vars
<1>. QED
  BY <1>1, <1>2, <1>3, <1>4, <1>5, <1>6, <1>7, <1>8, <1>9, <1>10 DEF Next, Superloop

\* The reconnect timer never reboots the radio under an attempt to join.
THEOREM JoinsNotCutShort ==
  ASSUME JoinsFit
  PROVE  Spec => JoinNotCutShort
<1>1. TypeOK /\ IInv /\ FirstJoinOnly /\ JoinOutlasted /\ [Next]_vars
        => [wifi_connecting => left'["WIFI"] <= left["WIFI"]]_vars
  BY JoinAlone DEF IInv
<1>. QED
  BY <1>1, TypeCorrect, InductiveInvariant, FirstJoinInvariant, JoinInvariant, PTL
     DEF Spec, JoinNotCutShort

=============================================================================
