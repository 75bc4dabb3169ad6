------------------------------ MODULE MsClock ------------------------------
(***************************************************************************)
(* The machine arithmetic of time: the 32-bit millisecond counter of       *)
(* millis.c, its 16-bit reader elapsedMS, which charges the software       *)
(* timers, and the absolute deadlines of Remote.c.  Module Connectivity    *)
(* counts the time left to a deadline and the ticks since the last pass;   *)
(* here is what the code computes in their place, with its word lengths.   *)
(***************************************************************************)
EXTENDS TimerTable

CONSTANTS
  WORD,       \* 2^32, the values of a uint32_t
  HALF,       \* 2^16, the values of a uint16_t
  INTERVAL,   \* app.timer_intervals of one timer
  WAIT,       \* the length of one wait, as WIFI_CONNECTION_TIMEOUT
  MaxGap      \* bound: ticks between two passes of the super-loop

ASSUME WordAssumption ==
  /\ HALF \in Nat \ {0} /\ WORD \in Nat \ {0} /\ WORD % HALF = 0
  /\ INTERVAL \in 1 .. HALF - 1
  /\ WAIT \in 1 .. WORD - 1
  /\ MaxGap \in 1 .. WORD - 1

VARIABLES
  pc,                   \* half of the super-loop that comes next: the timers
                        \* of runApp or the waits of runRemote
  MS_Timer,             \* counted by SysTick_Handler
  time_last_checked,    \* what elapsedMS read last
  timer,                \* app.timers[i] of a periodic timer
  waiting, end_time,    \* a wait of Remote.c and its deadline
  gap,                  \* history: ticks since the last pass
  age,                  \* history: ticks since the timer was loaded, up to the
                        \* last pass, modulo INTERVAL
  waited,               \* history: ticks since the wait began, up to WORD
  wrapped               \* history: the counter wrapped in the wait, or will
                        \* before the deadline

clockVars == <<MS_Timer, time_last_checked, timer, gap, age>>
waitVars  == <<waiting, end_time, waited, wrapped>>
vars      == <<pc, clockVars, waitVars>>

TypeOK ==
  /\ pc \in {"timers", "waits"}
  /\ MS_Timer \in 0 .. WORD - 1 /\ time_last_checked \in 0 .. HALF - 1
  /\ timer \in 1 .. INTERVAL
  /\ waiting \in BOOLEAN /\ end_time \in 0 .. WORD - 1
  /\ gap \in 0 .. MaxGap /\ age \in 0 .. INTERVAL - 1
  /\ waited \in 0 .. WORD /\ wrapped \in BOOLEAN

Init ==
  /\ pc = "timers"
  /\ MS_Timer = 0 /\ time_last_checked = 0 /\ timer = INTERVAL
  /\ waiting = FALSE /\ end_time = 0
  /\ gap = 0 /\ age = 0 /\ waited = 0 /\ wrapped = FALSE

-----------------------------------------------------------------------------

\* Faulty variant: the difference is not cut back to 16 bits.
Elapsed_Signed == (MS_Timer % HALF) - time_last_checked

\* The ticks elapsedMS finds to have gone by.
Elapsed == ((MS_Timer % HALF) - time_last_checked) % HALF

\* SysTick_Handler
SysTick ==
  /\ gap < MaxGap
  /\ MS_Timer' = (MS_Timer + 1) % WORD
  /\ gap' = gap + 1
  /\ waited' = IF waiting /\ waited < WORD THEN waited + 1 ELSE waited
  /\ wrapped' = (wrapped \/ (waiting /\ MS_Timer' = 0))
  /\ UNCHANGED <<pc, time_last_checked, timer, age, waiting, end_time>>

\* updateTimers for one timer
UpdateTimers ==
  /\ pc = "timers" /\ pc' = "waits"
  /\ timer' = IF Elapsed = 0 THEN timer ELSE Stepped(timer, Elapsed, INTERVAL)
  /\ time_last_checked' = MS_Timer % HALF
  /\ gap' = 0
  /\ age' = (age + gap) % INTERVAL
  /\ UNCHANGED <<MS_Timer, waitVars>>

\* Faulty variant: a tick is lost.
Deadline_Short == (MS_Timer + WAIT - 1) % WORD

\* millis() + WAIT, in 32 bits
Deadline == (MS_Timer + WAIT) % WORD

\* connectToWifi, getTime and remoteSync begin a wait, and checkBEResponse
\* begins it anew when data came.
Start ==
  /\ waiting' = TRUE
  /\ end_time' = Deadline
  /\ waited' = 0
  /\ wrapped' = (MS_Timer + WAIT >= WORD)
  /\ UNCHANGED <<pc, clockVars>>

Over == MS_Timer >= end_time

\* checkWifiConnecting, checkNtpResponse and checkBEResponse look at a wait and
\* give it up once it is over.
Look ==
  /\ pc = "waits" /\ pc' = "timers"
  /\ IF waiting /\ Over
       THEN waiting' = FALSE /\ waited' = 0 /\ wrapped' = FALSE
       ELSE UNCHANGED <<waiting, waited, wrapped>>
  /\ UNCHANGED <<clockVars, end_time>>

Next == SysTick \/ UpdateTimers \/ Start \/ Look

Spec == Init /\ [][Next]_vars

-----------------------------------------------------------------------------
(* Properties. *)

\* However late the passes come, and across both wraps, a periodic timer stays
\* on the schedule it started on: what is left of it at a pass is what is left
\* of the current period (the remainder that updateTimers takes off a reload).
OnSchedule == timer = INTERVAL - age

\* The comparison `millis() >= end_time` means what Connectivity takes it for,
\* that the wait has lasted long enough, as long as the counter does not wrap
\* before or during the wait's last look.
DeadlineTrue == waiting /\ ~wrapped => (Over <=> waited >= WAIT)

\* Remote.c says of a wait: "if we haven't waited long enough, don't do
\* anything": no wait is given up early.
NotGivenUpEarly == waiting /\ Over => waited >= WAIT

=============================================================================
