----------------------------- MODULE PanelProofs -----------------------------
(***************************************************************************)
(* Machine-checked proofs about module Panel, for every build, every       *)
(* length of the two periods, every bound and every light of the room.     *)
(***************************************************************************)
EXTENDS Panel, TLAPS

D == DEFAULT_SCREEN_ON_DURATION
L == DEFAULT_FAST_LT_SENSE_POLL_INTERVAL

-----------------------------------------------------------------------------
(* The driver. *)

\* The bits of every gain and time fit their field.
LEMMA BitsType ==
  /\ \A g \in Gains : GainBits[g] \in 0 .. 3
  /\ \A t \in Times : IntegBits[t] \in {0, 1, 2, 3, 8, 12}
BY DEF Gains, Times, GainBits, IntegBits

\* Whatever a register says, a gain and a time are read from it.
LEMMA ReadType ==
  ASSUME NEW reg \in Settings
  PROVE  ReadGain(reg) \in Gains /\ ReadIntegTime(reg) \in Times
<1>1. \E g \in Gains : GainBits[g] = reg.gain
  <2>1. reg.gain \in 0 .. 3
    BY DEF Settings
  <2>2. GainBits[8] = 0 /\ GainBits[16] = 1 /\ GainBits[1] = 2 /\ GainBits[2] = 3
    BY DEF GainBits, Gains
  <2>3. 8 \in Gains /\ 16 \in Gains /\ 1 \in Gains /\ 2 \in Gains
    BY DEF Gains
  <2>. QED
    BY <2>1, <2>2, <2>3
<1>2. \E t \in Times : IntegBits[t] = reg.integ
  <2>1. reg.integ \in {0, 1, 2, 3, 8, 12}
    BY DEF Settings
  <2>2. /\ IntegBits[100] = 0 /\ IntegBits[200] = 1 /\ IntegBits[400] = 2
        /\ IntegBits[800] = 3 /\ IntegBits[50] = 8 /\ IntegBits[25] = 12
    BY DEF IntegBits, Times
  <2>3. {25, 50, 100, 200, 400, 800} = Times
    BY DEF Times
  <2>. QED
    BY <2>1, <2>2, <2>3
<1>. QED
  BY <1>1, <1>2 DEF ReadGain, ReadIntegTime

\* The light is a whole number of lux.
LEMMA ReadLightType ==
  ASSUME NEW bits \in Int, NEW dataRead \in BOOLEAN,
         NEW gainReg \in Settings, NEW integReg \in Settings
  PROVE  ReadLight(bits, dataRead, gainReg, integReg) \in Int
<1>. DEFINE b   == IF dataRead THEN bits ELSE 0
            g   == ReadGain(gainReg)
            t   == ReadIntegTime(integReg)
<1>1. g \in Gains /\ t \in Times
  BY ReadType
<1>2. ConvPos(g) \in 1 .. 4
  BY <1>1 DEF Gains, ConvPos
<1>3. Factors[t][ConvPos(g)] \in Int
  <2>. HIDE DEF g, t
  <2>1. \A p \in 1 .. 4 : Factors[t][p] \in Int
    BY <1>1 DEF Times, Factors
  <2>. QED
    BY <1>2, <2>1
<1>4. CalculateLux(b, g, t) \in Int
  <2>. HIDE DEF g, t
  <2>. QED
    BY <1>3 DEF CalculateLux, Lux
<1>5. \A lux_ \in Int : LuxCompensation(lux_) \in Int
  BY DEF LuxCompensation
<1>. QED
  BY <1>4, <1>5 DEF ReadLight

LEMMA CountType ==
  ASSUME NEW light \in Nat, NEW reg \in Settings
  PROVE  Count(light, reg) \in Int
<1>. DEFINE g == ReadGain(reg)
            t == ReadIntegTime(reg)
<1>1. g \in Gains /\ t \in Times
  BY ReadType
<1>2. 16 \div g \in Nat \ {0} /\ 800 \div t \in Nat \ {0}
  <2>. HIDE DEF g, t
  <2>. QED
    BY <1>1 DEF Gains, Times
<1>3. Quantum(reg) \in Nat \ {0}
  <2>. HIDE DEF g, t
  <2>1. \A m, n \in Nat \ {0} : 36 * m * n \in Nat \ {0}
    OBVIOUS
  <2>2. 36 * (16 \div g) * (800 \div t) \in Nat \ {0}
    BY <1>2, <2>1
  <2>. QED
    BY <2>2 DEF Quantum, g, t
<1>4. light \div Quantum(reg) \in Int
  BY <1>3
<1>. QED
  BY <1>4 DEF Count

LEMMA BrightnessType ==
  ASSUME NEW l \in UInt16
  PROVE  Brightness(l) \in 20 .. 50
BY DEF Brightness, UInt16

\* What the setters leave is a register again.
LEMMA WrittenType ==
  ASSUME NEW reg \in Settings, NEW read \in BOOLEAN, NEW write \in BOOLEAN
  PROVE  /\ Register(reg, read) \in Settings
         /\ Written(reg, "sd", 0, read, write) \in Settings
         /\ \A bits \in 0 .. 3 : Written(reg, "gain", bits, read, write) \in Settings
         /\ \A bits \in {0, 1, 2, 3, 8, 12} :
              Written(reg, "integ", bits, read, write) \in Settings
BY DEF Written, Register, Zero, Settings

-----------------------------------------------------------------------------
(* Type correctness. *)

\* A timer that runs keeps running between 1 and its interval.
LEMMA SteppedRange ==
  ASSUME NEW n \in Nat \ {0}, NEW t \in {Stopped} \cup 1 .. n, NEW e \in Nat
  PROVE  /\ Stepped(t, e, n) \in {Stopped} \cup 1 .. n
         /\ t # Stopped => Stepped(t, e, n) # Stopped
<1>1. (e - t) % n \in 0 .. n - 1
  BY DEF Stopped
<1>. QED
  BY <1>1 DEF Stepped, Reloaded, Stopped


\* A step of the start leaves a register, and notes its own trouble.
LEMMA ConfigureType ==
  ASSUME TypeOK, NEW from \in {"begin", "gain", "time"}, NEW to, NEW field, NEW bits,
         Configure(from, to, field, bits),
         \A read, write \in BOOLEAN : Written(setting, field, bits, read, write) \in Settings
  PROVE  /\ setting' \in Settings
         /\ trouble' \subseteq {"begin", "gain", "time"} \X {"read", "write"}
<1>. trouble \subseteq {"begin", "gain", "time"} \X {"read", "write"}
  BY DEF TypeOK
<1>1. PICK read \in BOOLEAN, write \in BOOLEAN :
        /\ setting' = Written(setting, field, bits, read, write)
        /\ trouble' = trouble \cup (IF read THEN {} ELSE {<<from, "read">>})
                              \cup (IF write THEN {} ELSE {<<from, "write">>})
  BY DEF Configure
<1>2. /\ <<from, "read">> \in {"begin", "gain", "time"} \X {"read", "write"}
      /\ <<from, "write">> \in {"begin", "gain", "time"} \X {"read", "write"}
  OBVIOUS
<1>. QED
  BY <1>1, <1>2

\* The part of TypeOK that a poll changes.
LedTypeOK ==
  /\ lux \in UInt16 /\ brightness \in 20 .. 50
  /\ led \in [DOMAIN White -> 0 .. 255]
  /\ shown \in Lights \cup {NoLight}

\* The rest of it.
RestTypeOK ==
  /\ build \in Builds
  /\ pc \in {"begin", "gain", "time", "timers", "run"}
  /\ setting \in Settings
  /\ lt \in {Stopped} \cup 1 .. L
  /\ screen \in {Stopped} \cup 1 .. D
  /\ on \in BOOLEAN
  /\ trouble \subseteq {"begin", "gain", "time"} \X {"read", "write"}
  /\ idle \in 0 .. D

LEMMA TypeSplit == ASSUME TypeOK PROVE LedTypeOK /\ RestTypeOK
BY DEF TypeOK, LedTypeOK, RestTypeOK, L, D

LEMMA TypeJoin == ASSUME LedTypeOK', RestTypeOK' PROVE TypeOK'
BY DEF TypeOK, LedTypeOK, RestTypeOK, L, D

LEMMA LedKept ==
  ASSUME LedTypeOK, UNCHANGED ledVars
  PROVE  LedTypeOK'
BY DEF LedTypeOK, ledVars

\* The LED can be sent what is computed for it.
LEMMA OutputType ==
  ASSUME NEW percent \in 0 .. 100
  PROVE  Output(percent) \in [DOMAIN White -> 0 .. 255]
<1>1. \A c \in DOMAIN White : White[c] \in 0 .. 255
  BY DEF White
<1>2. ASSUME NEW w \in 0 .. 255 PROVE (percent * w) \div 100 \in 0 .. 255
  <2>. DEFINE n == percent * w
  <2>1. n \in Nat /\ n <= 100 * w
    OBVIOUS
  <2>. HIDE DEF n
  <2>2. n \div 100 \in 0 .. 255
    BY <2>1
  <2>. QED
    BY <2>2 DEF n
<1>. QED
  BY <1>1, <1>2 DEF Output

LEMMA LedSet ==
  ASSUME lux' \in UInt16, brightness' \in 20 .. 50, led' = Output(brightness'),
         shown' \in Lights \cup {NoLight}
  PROVE  LedTypeOK'
<1>1. brightness' \in 0 .. 100
  OBVIOUS
<1>2. Output(brightness') \in [DOMAIN White -> 0 .. 255]
  BY <1>1, OutputType
<1>. QED
  BY <1>2 DEF LedTypeOK

LEMMA TypeInit == Init => TypeOK
<1>1. Output(0) \in [DOMAIN White -> 0 .. 255]
  BY OutputType
<1>2. PoweredUp \in Settings
  BY DEF Settings, PoweredUp, Zero
<1>3. 65535 \in UInt16
  BY DEF UInt16
<1>4. 0 \in 0 .. D
  BY PanelAssumption DEF D
<1>. QED
  BY <1>1, <1>2, <1>3, <1>4 DEF Init, TypeOK, D

LEMMA PollType ==
  ASSUME setting \in Settings, NEW light \in Lights, NEW failed, PollLightSensor(light, failed)
  PROVE  LedTypeOK'
<1>. DEFINE G == Register(setting, "gain" \notin failed)
            T == Register(setting, "time" \notin failed)
            R == ReadLight(Count(light, setting), "data" \notin failed, G, T)
<1>1. G \in Settings /\ T \in Settings /\ setting \in Settings
  BY WrittenType
<1>2. Count(light, setting) \in Int
  BY <1>1, CountType, PanelAssumption
<1>3. R \in Int
  <2>. HIDE DEF G, T
  <2>1. ("data" \notin failed) \in BOOLEAN
    OBVIOUS
  <2>. QED
    BY <1>1, <1>2, <2>1, ReadLightType DEF R
<1>4. lux' \in UInt16
  <2>1. lux' = R % 65536
    BY DEF PollLightSensor
  <2>. HIDE DEF R
  <2>. QED
    BY <1>3, <2>1 DEF UInt16
<1>5. brightness' = Brightness(lux')
  BY DEF PollLightSensor
<1>6. brightness' \in 20 .. 50
  <2>. HIDE DEF R, G, T
  <2>. QED
    BY <1>4, <1>5, BrightnessType
<1>7. led' = Output(brightness') /\ shown' \in Lights \cup {NoLight}
  BY DEF PollLightSensor
<1>. QED
  BY <1>4, <1>6, <1>7, LedSet

LEMMA TypeStep ==
  ASSUME TypeOK, [Next]_vars
  PROVE  TypeOK'
<1>. L \in Nat \ {0} /\ D \in Nat \ {0} /\ MaxPass \in Nat
  BY PanelAssumption DEF L, D
<1>. LedTypeOK /\ RestTypeOK
  BY TypeSplit
<1>. build \in Gains \X Times /\ setting \in Settings
  BY PanelAssumption DEF RestTypeOK
<1>1. ASSUME PowerOn PROVE TypeOK'
  <2>1. /\ setting' \in Settings
        /\ trouble' \subseteq {"begin", "gain", "time"} \X {"read", "write"}
    BY <1>1, ConfigureType, WrittenType DEF PowerOn
  <2>2. RestTypeOK'
    BY <1>1, <2>1 DEF PowerOn, Configure, RestTypeOK, timerVars
  <2>. QED
    BY <1>1, <2>2, LedKept, TypeJoin DEF PowerOn
<1>2. ASSUME SetGain PROVE TypeOK'
  <2>1. GainBits[build[1]] \in 0 .. 3
    BY BitsType
  <2>2. /\ setting' \in Settings
        /\ trouble' \subseteq {"begin", "gain", "time"} \X {"read", "write"}
    BY <1>2, <2>1, ConfigureType, WrittenType DEF SetGain
  <2>3. RestTypeOK'
    BY <1>2, <2>2 DEF SetGain, Configure, RestTypeOK, timerVars
  <2>. QED
    BY <1>2, <2>3, LedKept, TypeJoin DEF SetGain
<1>3. ASSUME SetIntegTime PROVE TypeOK'
  <2>1. IntegBits[build[2]] \in {0, 1, 2, 3, 8, 12}
    BY BitsType
  <2>2. /\ setting' \in Settings
        /\ trouble' \subseteq {"begin", "gain", "time"} \X {"read", "write"}
    BY <1>3, <2>1, ConfigureType, WrittenType DEF SetIntegTime
  <2>3. RestTypeOK'
    BY <1>3, <2>2 DEF SetIntegTime, Configure, RestTypeOK, timerVars
  <2>4. led' = Output(brightness') /\ UNCHANGED <<lux, brightness, shown>>
    BY <1>3 DEF SetIntegTime
  <2>5. lux' \in UInt16 /\ brightness' \in 20 .. 50 /\ shown' \in Lights \cup {NoLight}
    BY <2>4 DEF LedTypeOK
  <2>6. LedTypeOK'
    BY <2>4, <2>5, LedSet
  <2>. QED
    BY <2>3, <2>6, TypeJoin
<1>4. ASSUME LoadTimers PROVE TypeOK'
  <2>1. lt' = L /\ screen' = D
    BY <1>4 DEF LoadTimers, L, D
  <2>2. RestTypeOK'
    BY <1>4, <2>1 DEF LoadTimers, RestTypeOK
  <2>. QED
    BY <1>4, <2>2, LedKept, TypeJoin DEF LoadTimers
<1>5. ASSUME NEW elapsed \in 1 .. MaxPass, NEW motion \in BOOLEAN, Pass(elapsed, motion)
      PROVE  TypeOK'
  <2>1. lt' \in {Stopped} \cup 1 .. L
    <3>1. lt' = L \/ lt' = Stepped(lt, elapsed, L)
      BY <1>5 DEF Pass, VisitLight, L
    <3>2. lt \in {Stopped} \cup 1 .. L /\ elapsed \in Nat
      BY DEF RestTypeOK
    <3>3. Stepped(lt, elapsed, L) \in {Stopped} \cup 1 .. L
      BY <3>2, SteppedRange
    <3>. QED
      BY <3>1, <3>3
  <2>2. screen' \in {Stopped} \cup 1 .. D
    <3>1. screen' = D \/ screen' = Stepped(screen, elapsed, D)
      BY <1>5 DEF Pass, VisitScreen, D
    <3>2. screen \in {Stopped} \cup 1 .. D /\ elapsed \in Nat
      BY DEF RestTypeOK
    <3>3. Stepped(screen, elapsed, D) \in {Stopped} \cup 1 .. D
      BY <3>2, SteppedRange
    <3>. QED
      BY <3>1, <3>3
  <2>3. LedTypeOK'
    <3>1. \/ UNCHANGED ledVars
          \/ \E light \in Lights, failed \in SUBSET {"data", "gain", "time"} :
               PollLightSensor(light, failed)
      BY <1>5 DEF Pass, VisitLight
    <3>. QED
      BY <3>1, LedKept, PollType
  <2>4. on' \in BOOLEAN
    BY <1>5 DEF Pass, VisitScreen
  <2>5. idle' \in 0 .. D
    <3>1. idle' = 0 \/ (idle' = idle + elapsed /\ idle + elapsed < D) \/ idle' = D
      BY <1>5 DEF Pass, D
    <3>. QED
      BY <3>1 DEF RestTypeOK
  <2>6. RestTypeOK'
    BY <1>5, <2>1, <2>2, <2>4, <2>5 DEF Pass, RestTypeOK
  <2>. QED
    BY <2>3, <2>6, TypeJoin
<1>6. ASSUME UNCHANGED vars PROVE TypeOK'
  <2>1. RestTypeOK' /\ UNCHANGED ledVars
    BY <1>6 DEF vars, timerVars, RestTypeOK
  <2>. QED
    BY <2>1, LedKept, TypeJoin
<1>. QED
  BY <1>1, <1>2, <1>3, <1>4, <1>5, <1>6 DEF Next, Start

\* All variables keep their types, the brightness of the LED among them: it
\* never leaves 20 to 50 percent, in whatever light and on whatever bus.
THEOREM TypeCorrect == Spec => []TypeOK
<1>1. TypeOK /\ [Next]_vars => TypeOK'
  BY TypeStep
<1>. QED
  BY TypeInit, <1>1, PTL DEF Spec

-----------------------------------------------------------------------------
(* The screen. *)

\* While the screen is on, its timer holds the rest of the period since motion
\* was seen.  When it is off, the timer may stand anywhere.
ScreenInv ==
  /\ pc # "run" => on /\ idle = 0
  /\ pc = "run" =>
       /\ screen # Stopped
       /\ idle < D => on /\ screen = D - idle
       /\ idle = D => ~on

LEMMA ScreenStep ==
  ASSUME TypeOK, ScreenInv, [Next]_vars
  PROVE  ScreenInv'
<1>. D \in Nat \ {0} /\ MaxPass \in Nat
  BY PanelAssumption DEF D
<1>1. ASSUME PowerOn \/ SetGain \/ SetIntegTime PROVE ScreenInv'
  BY <1>1 DEF PowerOn, SetGain, SetIntegTime, Configure, timerVars, ScreenInv
<1>2. ASSUME LoadTimers PROVE ScreenInv'
  BY <1>2 DEF LoadTimers, ScreenInv, D, Stopped
<1>3. ASSUME NEW elapsed \in 1 .. MaxPass, NEW motion \in BOOLEAN, Pass(elapsed, motion)
      PROVE  ScreenInv'
  <2>. screen \in 1 .. D /\ idle \in 0 .. D /\ on \in BOOLEAN
    BY <1>3 DEF Pass, TypeOK, ScreenInv, D
  <2>. pc = "run" /\ pc' = "run"
    BY <1>3 DEF Pass
  <2>1. CASE motion
    <3>1. screen' = D /\ idle' = 0 /\ on' = TRUE
      BY <1>3, <2>1 DEF Pass, VisitScreen, D
    <3>. QED
      BY <3>1 DEF ScreenInv, Stopped
  <2>2. CASE ~motion /\ idle < D /\ idle + elapsed < D
    <3>1. screen = D - idle /\ on
      BY <2>2 DEF ScreenInv
    <3>2. ~Due(screen, elapsed) /\ Stepped(screen, elapsed, D) = screen - elapsed
      BY <2>2, <3>1 DEF Due, Stepped
    <3>3. screen' = screen - elapsed /\ on' = on /\ idle' = idle + elapsed
      BY <1>3, <2>2, <3>2 DEF Pass, VisitScreen, D
    <3>. QED
      BY <2>2, <3>1, <3>3 DEF ScreenInv, Stopped
  <2>3. CASE ~motion /\ ~(idle < D /\ idle + elapsed < D)
    <3>1. idle' = D
      BY <1>3, <2>3 DEF Pass, D
    <3>2. ~on \/ Due(screen, elapsed)
      BY <2>3 DEF ScreenInv, Due, Stopped
    <3>3. on' = FALSE
      BY <1>3, <2>3, <3>2 DEF Pass, VisitScreen
    <3>4. screen' # Stopped
      <4>1. screen' = Stepped(screen, elapsed, D)
        BY <1>3, <2>3 DEF Pass, VisitScreen, D
      <4>. QED
        BY <4>1, SteppedRange DEF Stopped
    <3>. QED
      BY <3>1, <3>3, <3>4 DEF ScreenInv
  <2>. QED
    BY <2>1, <2>2, <2>3
<1>4. ASSUME UNCHANGED vars PROVE ScreenInv'
  BY <1>4 DEF vars, timerVars, ScreenInv
<1>. QED
  BY <1>1, <1>2, <1>3, <1>4 DEF Next, Start

\* The screen is lit exactly while less than the period has been charged since
\* motion was seen, however late the passes come.
THEOREM ScreenLitForThePeriod == Spec => []ScreenFollowsMotion
<1>1. Init => ScreenInv
  BY DEF Init, ScreenInv
<1>2. TypeOK /\ ScreenInv /\ [Next]_vars => ScreenInv'
  BY ScreenStep
<1>3. TypeOK /\ ScreenInv => ScreenFollowsMotion
  <2>1. D \in Nat \ {0}
    BY PanelAssumption DEF D
  <2>. QED
    BY <2>1 DEF TypeOK, ScreenInv, ScreenFollowsMotion, D
<1>. QED
  BY <1>1, <1>2, <1>3, TypeCorrect, PTL DEF Spec

-----------------------------------------------------------------------------
(* The settings of the light sensor. *)

\* What each step of an untroubled start has left, and what only a failed
\* write of the first one can leave.
SetUpInv ==
  /\ pc # "begin" /\ setting.sd = 1 => <<"begin", "write">> \in trouble
  /\ trouble = {} =>
       /\ pc # "begin" => setting.sd = 0
       /\ pc \notin {"begin", "gain"} => setting.gain = GainBits[build[1]]
       /\ pc \in {"timers", "run"} => setting.integ = IntegBits[build[2]]

LEMMA SetUpStep ==
  ASSUME TypeOK, SetUpInv, [Next]_vars
  PROVE  SetUpInv'
<1>. setting \in Settings
  BY DEF TypeOK
<1>1. ASSUME PowerOn PROVE SetUpInv'
  <2>1. PICK read \in BOOLEAN, write \in BOOLEAN :
          /\ setting' = Written(setting, "sd", 0, read, write)
          /\ trouble' = trouble \cup (IF read THEN {} ELSE {<<"begin", "read">>})
                                \cup (IF write THEN {} ELSE {<<"begin", "write">>})
    BY <1>1 DEF PowerOn, Configure
  <2>2. write => setting'.sd = 0
    BY <2>1 DEF Written, Register, Zero, Settings
  <2>3. pc' = "gain"
    BY <1>1 DEF PowerOn, Configure
  <2>. QED
    BY <2>1, <2>2, <2>3 DEF SetUpInv, Settings
<1>2. ASSUME SetGain PROVE SetUpInv'
  <2>1. PICK read \in BOOLEAN, write \in BOOLEAN :
          /\ setting' = Written(setting, "gain", GainBits[build[1]], read, write)
          /\ trouble' = trouble \cup (IF read THEN {} ELSE {<<"gain", "read">>})
                                \cup (IF write THEN {} ELSE {<<"gain", "write">>})
    BY <1>2 DEF SetGain, Configure
  <2>2. setting'.sd = setting.sd \/ setting'.sd = 0
    BY <2>1 DEF Written, Register, Zero, Settings
  <2>3. read /\ write => setting'.sd = setting.sd /\ setting'.gain = GainBits[build[1]]
    BY <2>1 DEF Written, Register, Zero, Settings
  <2>4. pc = "gain" /\ pc' = "time" /\ build' = build
    BY <1>2 DEF SetGain, Configure
  <2>5. trouble \subseteq trouble' /\ (trouble' = {} => trouble = {} /\ read /\ write)
    BY <2>1
  <2>6. setting'.sd = 1 => <<"begin", "write">> \in trouble'
    BY <2>2, <2>4, <2>5 DEF SetUpInv
  <2>. QED
    BY <2>3, <2>4, <2>5, <2>6 DEF SetUpInv
<1>3. ASSUME SetIntegTime PROVE SetUpInv'
  <2>1. PICK read \in BOOLEAN, write \in BOOLEAN :
          /\ setting' = Written(setting, "integ", IntegBits[build[2]], read, write)
          /\ trouble' = trouble \cup (IF read THEN {} ELSE {<<"time", "read">>})
                                \cup (IF write THEN {} ELSE {<<"time", "write">>})
    BY <1>3 DEF SetIntegTime, Configure
  <2>2. setting'.sd = setting.sd \/ setting'.sd = 0
    BY <2>1 DEF Written, Register, Zero, Settings
  <2>3. read /\ write => /\ setting'.sd = setting.sd /\ setting'.gain = setting.gain
                         /\ setting'.integ = IntegBits[build[2]]
    BY <2>1 DEF Written, Register, Zero, Settings
  <2>4. pc = "time" /\ pc' = "timers" /\ build' = build
    BY <1>3 DEF SetIntegTime, Configure
  <2>5. trouble \subseteq trouble' /\ (trouble' = {} => trouble = {} /\ read /\ write)
    BY <2>1
  <2>6. setting'.sd = 1 => <<"begin", "write">> \in trouble'
    BY <2>2, <2>4, <2>5 DEF SetUpInv
  <2>. QED
    BY <2>3, <2>4, <2>5, <2>6 DEF SetUpInv
<1>4. ASSUME LoadTimers PROVE SetUpInv'
  BY <1>4 DEF LoadTimers, SetUpInv
<1>5. ASSUME \/ \E elapsed \in 1 .. MaxPass, motion \in BOOLEAN : Pass(elapsed, motion)
             \/ UNCHANGED vars
      PROVE  SetUpInv'
  BY <1>5 DEF Pass, vars, SetUpInv
<1>. QED
  BY <1>1, <1>2, <1>3, <1>4, <1>5 DEF Next, Start

\* Three setters on one register leave what the build wants unless the bus
\* fails, and no failure but one leaves the sensor dark.
THEOREM SettingsSetUp == Spec => []SetUp
<1>1. Init => SetUpInv
  BY DEF Init, SetUpInv
<1>2. TypeOK /\ SetUpInv /\ [Next]_vars => SetUpInv'
  BY SetUpStep
<1>3. TypeOK /\ SetUpInv => SetUp
  BY DEF TypeOK, Settings, SetUpInv, SetUp
<1>. QED
  BY <1>1, <1>2, <1>3, TypeCorrect, PTL DEF Spec

-----------------------------------------------------------------------------
(* The light. *)

\* A name for what the provers need not multiply out.
Product(x, y) == x * y

LEMMA ProductBound ==
  ASSUME NEW x \in Nat, NEW y \in Int, NEW h \in Nat, NEW k \in Nat, x <= h, y <= k
  PROVE  Product(x, y) \in Int /\ Product(x, y) <= Product(h, k)
<1>1. \A m, n \in Int, z \in Nat : m <= n => z * m <= z * n
  OBVIOUS
<1>2. x * y <= x * k
  BY <1>1
<1>3. k * x <= k * h
  BY <1>1
<1>. QED
  BY <1>2, <1>3 DEF Product

LEMMA ProductNat ==
  ASSUME NEW x \in Nat, NEW y \in Nat
  PROVE  Product(x, y) \in Nat
BY DEF Product

\* Up to 19199 lux the compensation makes light above 1000 lux no darker than
\* that, and its result fits app.lux.
LEMMA CompensationBound ==
  ASSUME NEW l \in Nat, 1001 <= l, l <= 19199
  PROVE  /\ LuxCompensation(l) \in Nat
         /\ 1000 <= LuxCompensation(l) /\ LuxCompensation(l) <= 65535
<1>. DEFINE e == (60135 * l) \div 10000
            a == (93924 - e) \div 10
            p == Product(l, a)
            b == (81488 - p \div 1000) \div 100
            s == Product(l, b)
            c == (10023 + s \div 1000) \div 10
            r == Product(l, c)
<1>1. LuxCompensation(l) = r \div 1000
  BY SMT DEF LuxCompensation, Product
<1>2. /\ e \in Int /\ 0 <= e /\ e <= 115453
      /\ 8000 <= l => 48108 <= e
      /\ 15000 <= l => 90202 <= e
  <2>. DEFINE m == 60135 * l
  <2>1. /\ m \in Nat /\ m <= 1154531865
        /\ 8000 <= l => 481080000 <= m
        /\ 15000 <= l => 902025000 <= m
    BY SMT
  <2>. HIDE DEF m
  <2>2. m \div 10000 \in Int /\ 10000 * (m \div 10000) <= m /\ m < 10000 * (m \div 10000) + 10000
    BY SMT, <2>1
  <2>. DEFINE n == m \div 10000
  <2>3. e = n
    BY DEF m
  <2>. HIDE DEF n, e
  <2>. QED
    BY SMT, <2>1, <2>2, <2>3 DEF n
<1>. HIDE DEF e
<1>3. /\ a \in Int /\ -2153 <= a /\ a <= 9392
      /\ 8000 <= l => a <= 4581
      /\ 15000 <= l => a <= 372
  BY SMT, <1>2
<1>. HIDE DEF a
<1>4. p \in Int /\ p <= 81488999
  <2>1. l \in Nat /\ l <= 19199
    BY SMT
  <2>2. CASE l < 8000
    <3>1. p \in Int /\ p <= Product(8000, 9392)
      BY SMT, <1>3, <2>1, <2>2, ProductBound
    <3>. QED
      BY SMT, <3>1 DEF Product
  <2>3. CASE 8000 <= l /\ l < 15000
    <3>1. p \in Int /\ p <= Product(15000, 4581)
      BY SMT, <1>3, <2>1, <2>3, ProductBound
    <3>. QED
      BY SMT, <3>1 DEF Product
  <2>4. CASE 15000 <= l
    <3>1. p \in Int /\ p <= Product(19199, 372)
      BY SMT, <1>3, <2>1, <2>4, ProductBound
    <3>. QED
      BY SMT, <3>1 DEF Product
  <2>. QED
    BY SMT, <2>1, <2>2, <2>3, <2>4
<1>5. -41335447 <= p
  <2>1. -a \in Int /\ -a <= 2153 /\ l \in Nat /\ l <= 19199
    BY SMT, <1>3
  <2>2. Product(l, -a) \in Int /\ Product(l, -a) <= Product(19199, 2153)
    BY SMT, <2>1, ProductBound
  <2>3. Product(l, -a) = -p
    BY SMT, <1>3 DEF Product
  <2>4. Product(19199, 2153) = 41335447
    BY SMT DEF Product
  <2>. HIDE DEF p
  <2>. QED
    BY SMT, <1>4, <2>2, <2>3, <2>4
<1>. HIDE DEF p
<1>6. b \in Int /\ 0 <= b /\ b <= 1228
  BY SMT, <1>4, <1>5
<1>. HIDE DEF b
<1>7. s \in Nat /\ s <= 23576372
  <2>1. l \in Nat /\ l <= 19199 /\ b \in Nat
    BY SMT, <1>6
  <2>2. s \in Nat
    BY <2>1, ProductNat
  <2>3. s <= Product(19199, 1228)
    BY SMT, <1>6, <2>1, ProductBound
  <2>. QED
    BY SMT, <2>2, <2>3 DEF Product
<1>. HIDE DEF s
<1>8. c \in Int /\ 1002 <= c /\ c <= 3359
  BY SMT, <1>7
<1>. HIDE DEF c
<1>9. r \in Int /\ 1003002 <= r /\ r <= 64489441
  <2>1. /\ l \in Nat /\ l <= 19199 /\ c \in Nat
        /\ 1001 \in Nat /\ 1001 <= l /\ 1002 \in Int /\ 1002 <= c
    BY SMT, <1>8
  <2>2. r \in Int /\ r <= Product(19199, 3359)
    BY SMT, <1>8, <2>1, ProductBound
  <2>3. Product(1001, 1002) <= r
    BY SMT, <2>1, ProductBound
  <2>4. Product(19199, 3359) = 64489441 /\ Product(1001, 1002) = 1003002
    BY SMT DEF Product
  <2>. HIDE DEF r
  <2>. QED
    BY SMT, <2>2, <2>3, <2>4
<1>. HIDE DEF r
<1>. QED
  BY SMT, <1>1, <1>9

\* The table holds, for every gain and time, what a count of the sensor is worth.
LEMMA TableRight ==
  ASSUME NEW reg \in Settings
  PROVE  /\ Factors[ReadIntegTime(reg)][ConvPos(ReadGain(reg))] = Quantum(reg)
         /\ Quantum(reg) \in Nat \ {0} /\ Quantum(reg) <= 18432
<1>. DEFINE g == ReadGain(reg)
            t == ReadIntegTime(reg)
            n == 800 \div t
            m == 16 \div g
<1>1. g \in Gains /\ t \in Times
  BY ReadType
<1>2. Quantum(reg) = 36 * m * n
  BY DEF Quantum
<1>. HIDE DEF g, t
<1>3. \/ m = 1 /\ ConvPos(g) = 1
      \/ m = 2 /\ ConvPos(g) = 2
      \/ m = 8 /\ ConvPos(g) = 3
      \/ m = 16 /\ ConvPos(g) = 4
  BY <1>1 DEF Gains, ConvPos
<1>4. \/ n = 1 /\ Factors[t] = <<36, 72, 288, 576>>
      \/ n = 2 /\ Factors[t] = <<72, 144, 576, 1152>>
      \/ n = 4 /\ Factors[t] = <<144, 288, 1152, 2304>>
      \/ n = 8 /\ Factors[t] = <<288, 576, 2304, 4608>>
      \/ n = 16 /\ Factors[t] = <<576, 1152, 4608, 9216>>
      \/ n = 32 /\ Factors[t] = <<1152, 2304, 9216, 18432>>
  BY <1>1 DEF Times, Factors
<1>. HIDE DEF m, n
<1>5. Factors[t][ConvPos(g)] = 36 * m * n /\ 36 * m * n \in Nat \ {0} /\ 36 * m * n <= 18432
  BY <1>3, <1>4
<1>. QED
  BY <1>2, <1>5 DEF g, t

LEMMA Division ==
  ASSUME NEW n \in Nat, NEW u \in Nat \ {0}
  PROVE  n \div u \in Nat /\ u * (n \div u) \in Nat /\ u * (n \div u) <= n /\ n < u * (n \div u) + u
<1>1. n \div u \in Nat
  OBVIOUS
<1>2. n = u * (n \div u) + (n % u) /\ n % u \in 0 .. u - 1
  OBVIOUS
<1>. DEFINE q == n \div u
<1>3. \A a, b \in Nat : a * b \in Nat
  OBVIOUS
<1>. HIDE DEF q
<1>4. u * q \in Nat
  BY <1>1, <1>3 DEF q
<1>. DEFINE m == u * q
            k == n % u
<1>. HIDE DEF m, k
<1>5. m \in Nat /\ n = m + k /\ k \in 0 .. u - 1
  BY <1>2, <1>4 DEF m, k, q
<1>6. m <= n /\ n < m + u
  BY <1>5
<1>. QED
  BY <1>1, <1>5, <1>6 DEF m, q

LEMMA Lost ==
  ASSUME NEW light \in Nat, NEW p \in Nat, p <= light, light < p + 18432
  PROVE  p \div 10000 \in Nat /\ (p \div 10000) - (light \div 10000) \in -2 .. 0
OBVIOUS

\* Counting a light and converting the count loses less than two lux.
LEMMA LuxOfCount ==
  ASSUME NEW light \in Nat, NEW reg \in Settings, reg.sd = 0, InRange(light, reg)
  PROVE  LET l == CalculateLux(Count(light, reg), ReadGain(reg), ReadIntegTime(reg))
         IN l \in Nat /\ l - (light \div 10000) \in -2 .. 0
<1>. DEFINE u == Quantum(reg)
            p == u * (light \div u)
            l == CalculateLux(Count(light, reg), ReadGain(reg), ReadIntegTime(reg))
<1>1. u \in Nat \ {0} /\ u <= 18432
  BY TableRight
<1>2. Count(light, reg) = light \div u
  BY DEF Count
<1>3. l = p \div 10000
  BY <1>2, TableRight DEF CalculateLux, Lux
<1>4. p \in Nat /\ p <= light /\ light < p + u
  <2>. HIDE DEF u
  <2>. QED
    BY <1>1, Division
<1>. SUFFICES l \in Nat /\ l - (light \div 10000) \in -2 .. 0
  OBVIOUS
<1>. HIDE DEF p, u, l
<1>5. light < p + 18432
  BY <1>1, <1>4
<1>6. p \div 10000 \in Nat /\ (p \div 10000) - (light \div 10000) \in -2 .. 0
  BY <1>4, <1>5, Lost
<1>. QED
  BY <1>3, <1>6

\* The same once more, of what pollLightSensor is given of k lux.
LEMMA Compensated ==
  ASSUME NEW k \in Nat, k <= 19199, NEW l \in Nat, l - k \in -2 .. 0
  PROVE  LET r == IF l > 1000 THEN LuxCompensation(l) ELSE l
         IN /\ r \in Nat /\ r <= 65535
            /\ k <= 1000 => r - k \in -2 .. 0
            /\ k >= 1000 => r >= 998
<1>1. CASE l > 1000
  <2>1. 1001 <= l /\ l <= 19199 /\ k > 1000
    BY <1>1
  <2>2. PICK r \in Nat : r = LuxCompensation(l) /\ 1000 <= r /\ r <= 65535
    BY <2>1, CompensationBound
  <2>. QED
    BY SMT, <1>1, <2>1, <2>2
<1>2. CASE l <= 1000
  BY <1>2
<1>. QED
  BY SMT, <1>1, <1>2

\* The share of the LED's scale that belongs to a light of k lux.
LEMMA ScaledDim ==
  ASSUME NEW k \in Nat, k <= 1000, NEW l \in Nat, l - k \in -2 .. 0
  PROVE  Brightness(l) - (20 + (k * 30) \div 1200) \in -1 .. 0
BY DEF Brightness

LEMMA ScaledBright ==
  ASSUME NEW l \in Nat, l >= 998
  PROVE  Brightness(l) >= 44
BY DEF Brightness

\* A poll in which the bus did not fail, of a light in the sensor's range.
LEMMA PollShows ==
  ASSUME setting \in Settings, NEW light \in Lights, NEW failed,
         PollLightSensor(light, failed)
  PROVE  LightShown'
<1>. SUFFICES ASSUME shown' # NoLight, shown' < Wraps
              PROVE  \E b \in 20 .. 50 :
                       /\ led' = Output(b)
                       /\ IF shown' <= 1000 * Lux
                            THEN b - (20 + ((shown' \div Lux) * 30) \div 1200) \in -1 .. 0
                            ELSE b >= 44
  BY DEF LightShown
<1>. DEFINE k == light \div 10000
            l == CalculateLux(Count(light, setting), ReadGain(setting), ReadIntegTime(setting))
            r == ReadLight(Count(light, setting), TRUE, setting, setting)
<1>1. light \in Nat
  BY PanelAssumption
<1>2. /\ failed = {} /\ setting.sd = 0 /\ InRange(light, setting)
      /\ shown' = light
  BY DEF PollLightSensor
<1>3. l \in Nat /\ l - k \in -2 .. 0
  BY <1>1, <1>2, LuxOfCount
<1>4. lux' = r % 65536
  <2>1. /\ Register(setting, "gain" \notin failed) = setting
        /\ Register(setting, "time" \notin failed) = setting
        /\ ("data" \notin failed) = TRUE
    BY <1>2 DEF Register
  <2>. DEFINE v == ReadLight(Count(light, setting), "data" \notin failed,
                             Register(setting, "gain" \notin failed),
                             Register(setting, "time" \notin failed))
  <2>2. lux' = v % 65536
    BY DEF PollLightSensor
  <2>3. v = r
    BY <2>1
  <2>. HIDE DEF v, r
  <2>. QED
    BY SMT, <2>2, <2>3
<1>5. r = IF l > 1000 THEN LuxCompensation(l) ELSE l
  BY DEF ReadLight
<1>6. brightness' = Brightness(lux') /\ led' = Output(brightness')
  BY DEF PollLightSensor
<1>. HIDE DEF l, r
<1>7. k \in Nat /\ k <= 19199 /\ IF light <= 10000000 THEN k <= 1000 ELSE k >= 1000
  <2>1. light < 192000000
    BY SMT, <1>2 DEF Wraps, Lux
  <2>2. \A n \in Nat : n < 192000000 =>
          /\ n \div 10000 \in Nat /\ n \div 10000 <= 19199
          /\ IF n <= 10000000 THEN n \div 10000 <= 1000 ELSE n \div 10000 >= 1000
    BY SMT
  <2>. QED
    BY SMT, <1>1, <2>1, <2>2
<1>. HIDE DEF k
<1>8. /\ r \in Nat /\ r <= 65535
      /\ k <= 1000 => r - k \in -2 .. 0
      /\ k >= 1000 => r >= 998
  BY <1>3, <1>5, <1>7, Compensated
<1>9. lux' = r
  <2>1. \A n \in Nat : n <= 65535 => n % 65536 = n
    BY SMT
  <2>. QED
    BY <1>4, <1>8, <2>1
<1>10. Brightness(r) \in 20 .. 50 /\ r \in Nat
  <2>1. \A n \in Nat : n <= 65535 => n \in UInt16
    BY SMT DEF UInt16
  <2>. QED
    BY <1>8, <2>1, BrightnessType
<1>11. IF light <= 10000000
         THEN Brightness(r) - (20 + (k * 30) \div 1200) \in -1 .. 0
         ELSE Brightness(r) >= 44
  <2>1. CASE light <= 10000000
    <3>1. k <= 1000
      BY SMT, <1>7, <2>1
    <3>2. r - k \in -2 .. 0
      BY SMT, <1>7, <1>8, <2>1
    <3>. QED
      BY <1>7, <1>10, <2>1, <3>1, <3>2, ScaledDim
  <2>2. CASE ~(light <= 10000000)
    <3>1. r >= 998
      BY SMT, <1>7, <1>8, <2>2
    <3>. QED
      BY <1>10, <2>2, <3>1, ScaledBright
  <2>. QED
    BY <2>1, <2>2
<1>12. 1000 * Lux = 10000000 /\ shown' \div Lux = k
  BY SMT, <1>2 DEF Lux, k
<1>. QED
  BY <1>2, <1>6, <1>9, <1>10, <1>11, <1>12

\* Nothing is claimed of the light before the first poll, and then of the last.
LightInv ==
  /\ pc # "run" => shown = NoLight
  /\ LightShown

LEMMA LightStep ==
  ASSUME TypeOK, LightInv, [Next]_vars
  PROVE  LightInv'
<1>1. ASSUME PowerOn \/ SetGain \/ LoadTimers PROVE LightInv'
  <2>1. UNCHANGED ledVars /\ pc # "run"
    BY <1>1 DEF PowerOn, SetGain, LoadTimers, Configure
  <2>2. shown' = NoLight
    BY <2>1 DEF LightInv, ledVars
  <2>. QED
    BY <2>2 DEF LightInv, LightShown
<1>2. ASSUME SetIntegTime PROVE LightInv'
  <2>1. shown' = NoLight
    BY <1>2 DEF SetIntegTime, Configure, LightInv
  <2>. QED
    BY <2>1 DEF LightInv, LightShown
<1>3. ASSUME NEW elapsed \in 1 .. MaxPass, NEW motion \in BOOLEAN, Pass(elapsed, motion)
      PROVE  LightInv'
  <2>1. pc' = "run" /\ VisitLight(elapsed)
    BY <1>3 DEF Pass
  <2>2. CASE UNCHANGED ledVars
    BY <2>1, <2>2 DEF LightInv, LightShown, ledVars
  <2>3. CASE \E light \in Lights, failed \in SUBSET {"data", "gain", "time"} :
               PollLightSensor(light, failed)
    <3>1. LightShown'
      BY <2>3, PollShows DEF TypeOK
    <3>. QED
      BY <2>1, <3>1 DEF LightInv
  <2>. QED
    BY <2>1, <2>2, <2>3 DEF VisitLight
<1>4. ASSUME UNCHANGED vars PROVE LightInv'
  BY <1>4 DEF vars, ledVars, LightInv, LightShown
<1>. QED
  BY <1>1, <1>2, <1>3, <1>4 DEF Next, Start

\* Where the sensor can see the light, the LED shows it, for every light and for
\* each of the settings that a disturbed start may leave: the table of factors,
\* the compensation and the 16 bits of app.lux together lose no more than one
\* percent of the LED's scale (VEML6030_readLight, pollLightSensor).
THEOREM LedShowsLight == Spec => []LightShown
<1>1. Init => LightInv
  BY DEF Init, LightInv, LightShown
<1>2. TypeOK /\ LightInv /\ [Next]_vars => LightInv'
  BY LightStep
<1>3. LightInv => LightShown
  BY DEF LightInv
<1>. QED
  BY <1>1, <1>2, <1>3, TypeCorrect, PTL DEF Spec

=============================================================================
