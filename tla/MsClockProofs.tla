---------------------------- MODULE MsClockProofs ----------------------------
(***************************************************************************)
(* Machine-checked proofs about module MsClock, for words of every length, *)
(* every interval and every wait.                                          *)
(***************************************************************************)
EXTENDS MsClock, TLAPS

(* Remainders. *)

LEMMA ModDef ==
  ASSUME NEW a \in Int, NEW m \in Nat \ {0}
  PROVE  a % m \in 0 .. m - 1 /\ a \div m \in Int /\ a = m * (a \div m) + (a % m)
OBVIOUS

LEMMA ModUnique ==
  ASSUME NEW a \in Int, NEW m \in Nat \ {0}, NEW q \in Int, NEW r \in 0 .. m - 1,
         a = m * q + r
  PROVE  a % m = r
<1>. DEFINE q2 == a \div m
            r2 == a % m
<1>1. q2 \in Int /\ r2 \in 0 .. m - 1 /\ m * q + r = m * q2 + r2
  BY ModDef
<1>. HIDE DEF q2, r2
<1>2. m * (q - q2) = r2 - r /\ q - q2 \in Int /\ r2 - r \in -(m - 1) .. m - 1
  BY <1>1
<1>3. q - q2 >= 1 => m * (q - q2) >= m
  BY <1>1
<1>4. q - q2 <= -1 => m * (q - q2) <= -m
  BY <1>1
<1>5. q - q2 = 0 => r2 = r
  BY <1>1, <1>2
<1>6. r2 = r
  BY <1>1, <1>2, <1>3, <1>4, <1>5
<1>. QED
  BY <1>6 DEF r2

LEMMA ModSmall ==
  ASSUME NEW m \in Nat \ {0}, NEW r \in 0 .. m - 1
  PROVE  r % m = r
<1>1. r = m * 0 + r
  OBVIOUS
<1>. QED
  BY <1>1, ModUnique

\* Whole periods make no difference.
LEMMA ModAdd ==
  ASSUME NEW a \in Int, NEW m \in Nat \ {0}, NEW k \in Int
  PROVE  (a + m * k) % m = a % m
<1>. DEFINE q == a \div m
            r == a % m
<1>1. q \in Int /\ r \in 0 .. m - 1 /\ a = m * q + r
  BY ModDef
<1>. HIDE DEF q, r
<1>2. a + m * k = m * (q + k) + r /\ q + k \in Int /\ a + m * k \in Int
  BY <1>1
<1>3. (a + m * k) % m = r
  BY <1>1, <1>2, ModUnique
<1>. QED
  BY <1>3 DEF r

LEMMA ModPlus ==
  ASSUME NEW a \in Int, NEW m \in Nat \ {0}
  PROVE  (a + m) % m = a % m
<1>. DEFINE k == 1
<1>1. k \in Int /\ a + m = a + m * k
  OBVIOUS
<1>. HIDE DEF k
<1>. QED
  BY <1>1, ModAdd

LEMMA ModMinus ==
  ASSUME NEW a \in Int, NEW b \in Int, NEW m \in Nat \ {0}
  PROVE  ((a % m) - b) % m = (a - b) % m
<1>. DEFINE k == -(a \div m)
<1>1. k \in Int /\ (a % m) - b = (a - b) + m * k
  BY ModDef
<1>. HIDE DEF k
<1>2. a - b \in Int
  OBVIOUS
<1>. QED
  BY <1>1, <1>2, ModAdd

\* A remainder by a multiple of m is as good as the number itself.
LEMMA ModMod ==
  ASSUME NEW a \in Int, NEW m \in Nat \ {0}, NEW w \in Nat \ {0}, w % m = 0
  PROVE  (a % w) % m = a % m
<1>. DEFINE j == w \div m
            k == a \div w
<1>1. j \in Int /\ w = m * j
  <2>1. w = m * (w \div m) + (w % m) /\ w \div m \in Int
    BY ModDef
  <2>. QED
    BY <2>1
<1>2. k \in Int /\ a % w \in Int /\ a = w * k + (a % w)
  BY ModDef
<1>. HIDE DEF j, k
<1>. DEFINE t == -(j * k)
<1>3. t \in Int /\ a % w = a + m * t
  <2>1. w * k = m * (j * k)
    BY <1>1, <1>2
  <2>. QED
    BY <1>1, <1>2, <2>1
<1>. HIDE DEF t
<1>4. (a + m * t) % m = a % m
  BY <1>3, ModAdd
<1>. QED
  BY <1>3, <1>4

-----------------------------------------------------------------------------
(* Type correctness. *)

LEMMA Words ==
  /\ HALF \in Nat \ {0} /\ WORD \in Nat \ {0} /\ WORD % HALF = 0
  /\ INTERVAL \in Nat \ {0} /\ WAIT \in Nat \ {0} /\ MaxGap \in Nat
BY WordAssumption

\* What a visit leaves of a timer that runs.
LEMMA SteppedType ==
  ASSUME NEW left \in 1 .. INTERVAL, NEW elapsed \in Nat
  PROVE  Stepped(left, elapsed, INTERVAL) \in 1 .. INTERVAL
<1>1. (elapsed - left) % INTERVAL \in 0 .. INTERVAL - 1
  BY Words, ModDef
<1>2. CASE left > elapsed
  BY <1>2, Words DEF Stepped
<1>3. CASE ~(left > elapsed)
  <2>1. Stepped(left, elapsed, INTERVAL) = INTERVAL - ((elapsed - left) % INTERVAL)
    BY <1>3, Words DEF Stepped, Reloaded, Stopped
  <2>. HIDE DEF Stepped
  <2>. QED
    BY <1>1, <2>1, Words
<1>. QED
  BY <1>2, <1>3

LEMMA ElapsedType ==
  ASSUME TypeOK
  PROVE  Elapsed \in 0 .. HALF - 1
<1>1. MS_Timer % HALF \in Int /\ time_last_checked \in Int
  BY Words, ModDef DEF TypeOK
<1>2. (MS_Timer % HALF) - time_last_checked \in Int
  BY <1>1
<1>. QED
  BY <1>2, Words, ModDef DEF Elapsed

LEMMA TypeStep ==
  ASSUME TypeOK, [Next]_vars
  PROVE  TypeOK'
<1>. USE Words
<1>1. ASSUME SysTick PROVE TypeOK'
  <2>1. MS_Timer' \in 0 .. WORD - 1
    <3>1. MS_Timer + 1 \in Int
      BY DEF TypeOK
    <3>. QED
      BY <1>1, <3>1, ModDef DEF SysTick
  <2>2. waited' \in 0 .. WORD /\ gap' \in 0 .. MaxGap
    BY <1>1 DEF SysTick, TypeOK
  <2>3. wrapped' \in BOOLEAN
    BY <1>1 DEF SysTick
  <2>. QED
    BY <1>1, <2>1, <2>2, <2>3 DEF SysTick, TypeOK
<1>2. ASSUME UpdateTimers PROVE TypeOK'
  <2>1. timer' \in 1 .. INTERVAL
    <3>1. Elapsed \in Nat
      BY ElapsedType
    <3>2. timer \in 1 .. INTERVAL
      BY DEF TypeOK
    <3>3. Stepped(timer, Elapsed, INTERVAL) \in 1 .. INTERVAL
      BY <3>1, <3>2, SteppedType
    <3>. QED
      BY <1>2, <3>2, <3>3 DEF UpdateTimers
  <2>2. time_last_checked' \in 0 .. HALF - 1 /\ age' \in 0 .. INTERVAL - 1
    <3>1. MS_Timer \in Int /\ age + gap \in Int
      BY DEF TypeOK
    <3>. QED
      BY <1>2, <3>1, ModDef DEF UpdateTimers
  <2>. QED
    BY <1>2, <2>1, <2>2 DEF UpdateTimers, waitVars, TypeOK
<1>3. ASSUME Start PROVE TypeOK'
  <2>1. end_time' \in 0 .. WORD - 1
    <3>1. MS_Timer + WAIT \in Int
      BY DEF TypeOK
    <3>. QED
      BY <1>3, <3>1, ModDef DEF Start, Deadline
  <2>2. wrapped' \in BOOLEAN
    BY <1>3 DEF Start
  <2>. QED
    BY <1>3, <2>1, <2>2 DEF Start, clockVars, TypeOK
<1>4. ASSUME Look PROVE TypeOK'
  <2>1. waiting' \in BOOLEAN /\ waited' \in {0, waited} /\ wrapped' \in {FALSE, wrapped}
    BY <1>4, Zenon DEF Look, TypeOK
  <2>2. UNCHANGED <<clockVars, end_time>> /\ pc' = "timers"
    BY <1>4 DEF Look
  <2>3. waited' \in 0 .. WORD
    BY <2>1 DEF TypeOK
  <2>4. wrapped' \in BOOLEAN
    BY <2>1, Zenon DEF TypeOK
  <2>. QED
    BY <2>1, <2>2, <2>3, <2>4 DEF clockVars, TypeOK
<1>5. CASE UNCHANGED vars
  BY <1>5 DEF vars, clockVars, waitVars, TypeOK
<1>. QED
  BY <1>1, <1>2, <1>3, <1>4, <1>5 DEF Next

\* All values stay within their words, and a periodic timer is never left at 0.
THEOREM TypeCorrect == Spec => []TypeOK
<1>1. Init => TypeOK
  <2>. SUFFICES ASSUME Init PROVE TypeOK
    OBVIOUS
  <2>1. waiting \in BOOLEAN /\ wrapped \in BOOLEAN /\ pc = "timers"
    BY DEF Init
  <2>2. /\ MS_Timer = 0 /\ time_last_checked = 0 /\ timer = INTERVAL
        /\ end_time = 0 /\ gap = 0 /\ age = 0 /\ waited = 0
    BY DEF Init
  <2>. QED
    BY <2>1, <2>2, Words DEF TypeOK
<1>2. TypeOK /\ [Next]_vars => TypeOK'
  BY TypeStep
<1>. QED
  BY <1>1, <1>2, PTL DEF Spec

-----------------------------------------------------------------------------
(* The periodic timers. *)

\* elapsedMS finds exactly the ticks since the last pass.
ElapsedInv == Elapsed = gap

LEMMA ElapsedStep ==
  ASSUME MaxGap < HALF, TypeOK, ElapsedInv, [Next]_vars
  PROVE  ElapsedInv'
<1>. USE Words
<1>. /\ MS_Timer \in Int /\ time_last_checked \in Int /\ gap \in 0 .. MaxGap
     /\ (MS_Timer % HALF) \in Int
  BY ModDef DEF TypeOK
<1>1. ASSUME SysTick PROVE ElapsedInv'
  <2>. DEFINE d == MS_Timer - time_last_checked
              q == d \div HALF
  <2>1. d % HALF = gap
    BY ModMinus DEF ElapsedInv, Elapsed
  <2>2. d \in Int /\ q \in Int /\ d = HALF * q + gap
    BY <2>1, ModDef
  <2>3. MS_Timer' % HALF = (MS_Timer + 1) % HALF
    <3>. DEFINE b == MS_Timer + 1
    <3>1. b \in Int /\ MS_Timer' = b % WORD
      BY <1>1 DEF SysTick
    <3>. HIDE DEF b
    <3>2. (b % WORD) % HALF = b % HALF
      BY <3>1, ModMod
    <3>. QED
      BY <3>1, <3>2 DEF b
  <2>4. Elapsed' = (MS_Timer + 1 - time_last_checked) % HALF
    <3>. DEFINE b == MS_Timer + 1
    <3>1. b \in Int /\ Elapsed' = ((b % HALF) - time_last_checked) % HALF
      BY <1>1, <2>3 DEF SysTick, Elapsed
    <3>. HIDE DEF b
    <3>2. Elapsed' = (b - time_last_checked) % HALF
      BY <3>1, ModMinus
    <3>. QED
      BY <3>2 DEF b
  <2>5. (MS_Timer + 1 - time_last_checked) % HALF = gap + 1
    <3>1. MS_Timer + 1 - time_last_checked = HALF * q + (gap + 1)
      BY <2>2
    <3>2. gap + 1 \in 0 .. HALF - 1
      BY <1>1 DEF SysTick
    <3>3. q \in Int /\ MS_Timer + 1 - time_last_checked \in Int
      BY <2>2
    <3>. HIDE DEF q, d
    <3>. QED
      BY <3>1, <3>2, <3>3, ModUnique
  <2>. QED
    BY <1>1, <2>4, <2>5 DEF SysTick, ElapsedInv
<1>2. ASSUME UpdateTimers PROVE ElapsedInv'
  <2>1. Elapsed' = 0 % HALF
    BY <1>2 DEF UpdateTimers, Elapsed
  <2>. QED
    BY <1>2, <2>1, ModSmall DEF UpdateTimers, ElapsedInv
<1>3. ASSUME Start \/ Look \/ UNCHANGED vars PROVE ElapsedInv'
  BY <1>3 DEF Start, Look, vars, clockVars, ElapsedInv, Elapsed
<1>. QED
  BY <1>1, <1>2, <1>3 DEF Next

LEMMA ScheduleStep ==
  ASSUME TypeOK, ElapsedInv, OnSchedule, [Next]_vars
  PROVE  OnSchedule'
<1>. USE Words
<1>. timer \in 1 .. INTERVAL /\ age \in 0 .. INTERVAL - 1 /\ gap \in Nat /\ timer = INTERVAL - age
  BY DEF TypeOK, OnSchedule
<1>1. ASSUME UpdateTimers PROVE OnSchedule'
  <2>1. /\ timer' = IF gap = 0 THEN timer ELSE Stepped(timer, gap, INTERVAL)
        /\ age' = (age + gap) % INTERVAL
    BY <1>1 DEF UpdateTimers, ElapsedInv
  <2>2. CASE gap = 0
    <3>1. age' = age
      BY <2>1, <2>2, ModSmall
    <3>. QED
      BY <2>1, <2>2, <3>1 DEF OnSchedule
  <2>3. CASE gap # 0 /\ timer > gap
    <3>1. timer' = timer - gap
      BY <2>1, <2>3 DEF Stepped
    <3>2. age' = age + gap
      BY <2>1, <2>3, ModSmall
    <3>. QED
      BY <3>1, <3>2 DEF OnSchedule
  <2>4. CASE gap # 0 /\ ~(timer > gap)
    <3>1. timer' = INTERVAL - ((gap - timer) % INTERVAL)
      BY <2>1, <2>4 DEF Stepped, Reloaded, Stopped
    <3>2. (age + gap) % INTERVAL = (gap - timer) % INTERVAL
      <4>. DEFINE late == gap - timer
      <4>1. age + gap = late + INTERVAL /\ late \in Int
        OBVIOUS
      <4>. HIDE DEF late
      <4>2. (age + gap) % INTERVAL = late % INTERVAL
        BY <4>1, ModPlus
      <4>. QED
        BY <4>2 DEF late
    <3>3. age' = (gap - timer) % INTERVAL
      BY <2>1, <3>2
    <3>. QED
      BY <1>1, <3>1, <3>3 DEF UpdateTimers, OnSchedule
  <2>. QED
    BY <2>2, <2>3, <2>4
<1>2. ASSUME SysTick \/ Start \/ Look \/ UNCHANGED vars PROVE OnSchedule'
  BY <1>2 DEF SysTick, Start, Look, vars, clockVars, OnSchedule
<1>. QED
  BY <1>1, <1>2 DEF Next

\* A periodic timer stays on the schedule it started on, across every wrap of
\* both words, as long as no pass of the super-loop comes so late that elapsedMS
\* loses a turn of its 16 bits.
THEOREM TimersKeepSchedule ==
  ASSUME MaxGap < HALF
  PROVE  Spec => []OnSchedule
<1>1. Init => ElapsedInv /\ OnSchedule
  BY Words, ModSmall DEF Init, ElapsedInv, Elapsed, OnSchedule
<1>2. TypeOK /\ ElapsedInv /\ OnSchedule /\ [Next]_vars => ElapsedInv' /\ OnSchedule'
  BY ElapsedStep, ScheduleStep
<1>. QED
  BY <1>1, <1>2, TypeCorrect, PTL DEF Spec

-----------------------------------------------------------------------------
(* The deadlines. *)

\* A deadline that the counter reaches without a wrap lies as far from it as
\* the wait has yet to last.
WaitInv ==
  waiting /\ ~wrapped => end_time = MS_Timer - waited + WAIT /\ waited <= MS_Timer

LEMMA WaitStep ==
  ASSUME TypeOK, WaitInv, [Next]_vars
  PROVE  WaitInv'
<1>. USE Words
<1>. /\ MS_Timer \in 0 .. WORD - 1 /\ waited \in 0 .. WORD /\ end_time \in Int
     /\ waiting \in BOOLEAN /\ wrapped \in BOOLEAN
  BY DEF TypeOK
<1>1. ASSUME SysTick PROVE WaitInv'
  <2>. SUFFICES ASSUME waiting', ~wrapped'
                PROVE  end_time' = MS_Timer' - waited' + WAIT /\ waited' <= MS_Timer'
    BY DEF WaitInv
  <2>1. waiting /\ ~wrapped /\ MS_Timer' # 0 /\ end_time' = end_time
    BY <1>1 DEF SysTick
  <2>2. MS_Timer' = MS_Timer + 1
    <3>1. CASE MS_Timer + 1 = WORD
      <4>1. WORD = WORD * 1 + 0
        OBVIOUS
      <4>2. WORD % WORD = 0
        BY <4>1, ModUnique
      <4>. QED
        BY <1>1, <2>1, <3>1, <4>2 DEF SysTick
    <3>2. CASE MS_Timer + 1 # WORD
      BY <1>1, <3>2, ModSmall DEF SysTick
    <3>. QED
      BY <3>1, <3>2
  <2>3. waited' = waited + 1
    BY <1>1, <2>1 DEF SysTick, WaitInv
  <2>. QED
    BY <2>1, <2>2, <2>3 DEF WaitInv
<1>2. ASSUME Start PROVE WaitInv'
  <2>. SUFFICES ASSUME ~wrapped'
                PROVE  end_time' = MS_Timer' - waited' + WAIT /\ waited' <= MS_Timer'
    BY DEF WaitInv
  <2>1. MS_Timer + WAIT < WORD /\ MS_Timer' = MS_Timer /\ waited' = 0
    <3>1. ~(MS_Timer + WAIT >= WORD)
      BY <1>2, Zenon DEF Start
    <3>. QED
      BY <1>2, <3>1 DEF Start, clockVars
  <2>2. end_time' = MS_Timer + WAIT
    BY <1>2, <2>1, ModSmall DEF Start, Deadline
  <2>. QED
    BY <2>1, <2>2
<1>3. ASSUME Look PROVE WaitInv'
  BY <1>3 DEF Look, clockVars, WaitInv
<1>4. ASSUME UpdateTimers \/ UNCHANGED vars PROVE WaitInv'
  BY <1>4 DEF UpdateTimers, waitVars, vars, clockVars, WaitInv
<1>. QED
  BY <1>1, <1>2, <1>3, <1>4 DEF Next

\* The comparison of millis() with a deadline tells truly whether the wait was
\* long enough, unless the counter wraps on the way.
THEOREM DeadlinesTrue == Spec => []DeadlineTrue
<1>1. Init => WaitInv
  BY DEF Init, WaitInv
<1>2. TypeOK /\ WaitInv /\ [Next]_vars => WaitInv'
  BY WaitStep
<1>3. TypeOK /\ WaitInv => DeadlineTrue
  BY Words DEF TypeOK, WaitInv, DeadlineTrue, Over
<1>. QED
  BY <1>1, <1>2, <1>3, TypeCorrect, PTL DEF Spec

=============================================================================
