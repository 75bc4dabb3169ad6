-------------------------------- MODULE Panel --------------------------------
(***************************************************************************)
(* What a person in front of the device sees of it: the light that follows *)
(* the brightness of the room, and the screen that follows the motion      *)
(* sensor.  Configuration at the start (main.c, Sensors.c), then the two   *)
(* timers of Application.c and pollMotionSensor, in passes that charge any *)
(* number of milliseconds, on an I2C bus that may fail at any time.        *)
(***************************************************************************)
EXTENDS LightSensor, TimerTable, FiniteSets

CONSTANTS
  Builds,                               \* <<GAIN, INTEG_TIME>> of Sensors.c
  DEFAULT_FAST_LT_SENSE_POLL_INTERVAL,  \* 35 in the code
  DEFAULT_SCREEN_ON_DURATION,           \* 20000 in the code
  MaxPass,                              \* bound: ms that one pass charges
  Lights                                \* the brightness of the room

ASSUME PanelAssumption ==
  /\ Builds \subseteq Gains \X Times
  /\ DEFAULT_FAST_LT_SENSE_POLL_INTERVAL \in Nat \ {0}
  /\ DEFAULT_SCREEN_ON_DURATION \in Nat \ {0}
  /\ MaxPass \in Nat /\ Lights \subseteq Nat

NoLight == -1

VARIABLES
  build,
  pc,         \* the step of the start that comes next, or "run"
  setting,    \* SETTING_REG of the sensor
  lux,        \* app.lux
  brightness, \* app.brightness
  led,        \* the colour that apa102_setleds sent
  lt,         \* app.timers[LT_SENSE_TICK]
  screen,     \* app.timers[SCREEN_ON_TICK]
  on,         \* state.on
  trouble,    \* history: the steps of the start at which the bus failed
  shown,      \* history: the light at the last poll, if it could be read
  idle        \* history: ms charged since motion was last seen, or a bound

ledVars   == <<lux, brightness, led, shown>>
timerVars == <<lt, screen, on, idle>>
vars      == <<build, pc, setting, trouble, ledVars, timerVars>>

White == [r |-> 210, g |-> 255, b |-> 205]

\* calculateOutputBrightness
Output(percent) == [c \in DOMAIN White |-> (percent * White[c]) \div 100]

\* The values of a uint16_t.
UInt16 == {n \in Nat : n < 65536}

TypeOK ==
  /\ build \in Builds
  /\ pc \in {"begin", "gain", "time", "timers", "run"}
  /\ setting \in Settings
  /\ lux \in UInt16
  /\ brightness \in 20 .. 50
  /\ led \in [DOMAIN White -> 0 .. 255]
  /\ lt \in {Stopped} \cup 1 .. DEFAULT_FAST_LT_SENSE_POLL_INTERVAL
  /\ screen \in {Stopped} \cup 1 .. DEFAULT_SCREEN_ON_DURATION
  /\ on \in BOOLEAN
  /\ trouble \subseteq {"begin", "gain", "time"} \X {"read", "write"}
  /\ shown \in Lights \cup {NoLight}
  /\ idle \in 0 .. DEFAULT_SCREEN_ON_DURATION

\* initApp, and a sensor that was just powered.
Init ==
  /\ build \in Builds /\ pc = "begin"
  /\ setting = PoweredUp /\ trouble = {} /\ shown = NoLight
  /\ lux = 65535 /\ brightness = 40 /\ led = Output(0)
  /\ lt = Stopped /\ screen = Stopped /\ on = TRUE /\ idle = 0

-----------------------------------------------------------------------------
(* The start. *)

\* One call of _VEML6030_writeRegister, with whatever the bus makes of it.
Configure(from, to, field, bits) ==
  /\ pc = from /\ pc' = to
  /\ \E read, write \in BOOLEAN :
       /\ setting' = Written(setting, field, bits, read, write)
       /\ trouble' = trouble \cup (IF read THEN {} ELSE {<<from, "read">>})
                             \cup (IF write THEN {} ELSE {<<from, "write">>})

\* VEML6030_begin, from Hardware.c
PowerOn ==
  /\ Configure("begin", "gain", "sd", 0)
  /\ UNCHANGED <<build, ledVars, timerVars>>

\* configureSensors, from startApp
SetGain ==
  /\ Configure("gain", "time", "gain", GainBits[build[1]])
  /\ UNCHANGED <<build, ledVars, timerVars>>

\* configureSensors, and then setUserLEDColor
SetIntegTime ==
  /\ Configure("time", "timers", "integ", IntegBits[build[2]])
  /\ led' = Output(brightness)
  /\ UNCHANGED <<build, lux, brightness, shown, timerVars>>

\* loadTimers
LoadTimers ==
  /\ pc = "timers" /\ pc' = "run"
  /\ lt' = DEFAULT_FAST_LT_SENSE_POLL_INTERVAL
  /\ screen' = DEFAULT_SCREEN_ON_DURATION
  /\ UNCHANGED <<build, setting, trouble, ledVars, on, idle>>

-----------------------------------------------------------------------------
(* A pass. *)

\* The brightness of the LED for a light, in percent.
Brightness(l) == ((IF l > 1200 THEN 1200 ELSE l) * (50 - 20)) \div 1200 + 20

\* pollLightSensor in a room this light, `failed` being the registers that the
\* bus did not read.
PollLightSensor(light, failed) ==
  /\ lux' = ReadLight(Count(light, setting), "data" \notin failed,
                      Register(setting, "gain" \notin failed),
                      Register(setting, "time" \notin failed)) % 65536
  /\ brightness' = Brightness(lux')
  /\ led' = Output(brightness')
  /\ shown' = IF failed = {} /\ setting.sd = 0 /\ InRange(light, setting) THEN light ELSE NoLight

\* LT_SENSE_TICK in updateTimers.  pollLightSensor loads the timer once more.
VisitLight(elapsed) ==
  IF Due(lt, elapsed)
    THEN /\ \E light \in Lights, failed \in SUBSET {"data", "gain", "time"} :
              /\ Cardinality(failed) <= 1
              /\ PollLightSensor(light, failed)
         /\ lt' = DEFAULT_FAST_LT_SENSE_POLL_INTERVAL
    ELSE /\ lt' = Stepped(lt, elapsed, DEFAULT_FAST_LT_SENSE_POLL_INTERVAL)
         /\ UNCHANGED ledVars

\* Faulty variant: motion switches the screen on and leaves its timer alone.
VisitScreen_NoReload(elapsed, motion) ==
  /\ screen' = Stepped(screen, elapsed, DEFAULT_SCREEN_ON_DURATION)
  /\ on' = (motion \/ (on /\ ~Due(screen, elapsed)))

\* SCREEN_ON_TICK in updateTimers with screenSaver, and then, behind all
\* timers, pollMotionSensor.
VisitScreen(elapsed, motion) ==
  /\ screen' = IF motion THEN DEFAULT_SCREEN_ON_DURATION
               ELSE Stepped(screen, elapsed, DEFAULT_SCREEN_ON_DURATION)
  /\ on' = (motion \/ (on /\ ~Due(screen, elapsed)))

\* updateTimers when `elapsed` ms went by since the last pass.
Pass(elapsed, motion) ==
  /\ pc = "run"
  /\ VisitLight(elapsed)
  /\ VisitScreen(elapsed, motion)
  /\ idle' = IF motion THEN 0
             ELSE IF idle + elapsed < DEFAULT_SCREEN_ON_DURATION THEN idle + elapsed
             ELSE DEFAULT_SCREEN_ON_DURATION
  /\ UNCHANGED <<build, pc, setting, trouble>>

Start == PowerOn \/ SetGain \/ SetIntegTime \/ LoadTimers

Next == Start \/ \E elapsed \in 1 .. MaxPass, motion \in BOOLEAN : Pass(elapsed, motion)

Spec == Init /\ [][Next]_vars

-----------------------------------------------------------------------------
(* Properties. *)

\* The screen is lit if and only if motion was seen, or the device started,
\* less than DEFAULT_SCREEN_ON_DURATION ago, though the timer that switches it
\* off runs for ever, motion or not, on or off, and passes come late.
ScreenFollowsMotion == on <=> idle < DEFAULT_SCREEN_ON_DURATION

\* Nothing reads the settings back after the start.  Yet the sensor is dark
\* only for one cause, that powerOn could not write, and a start without trouble
\* leaves all three fields as the build wants them.
SetUp ==
  pc \in {"timers", "run"} =>
    /\ setting.sd = 1 => <<"begin", "write">> \in trouble
    /\ trouble = {} =>
         setting = [gain |-> GainBits[build[1]], integ |-> IntegBits[build[2]], sd |-> 0]

\* The light from which on app.lux, of 16 bits, wraps.
Wraps == 19200 * Lux

\* Where the sensor can see the light, the LED shows it, whatever settings a
\* disturbed start or a former poll has left: up to 1000 lux within one
\* percent of its scale, and brighter light as bright.
LightShown ==
  shown # NoLight /\ shown < Wraps =>
    \E b \in 20 .. 50 :
      /\ led = Output(b)
      /\ IF shown <= 1000 * Lux
           THEN b - (20 + ((shown \div Lux) * 30) \div 1200) \in -1 .. 0
           ELSE b >= 44

=============================================================================
