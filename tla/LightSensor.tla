----------------------------- MODULE LightSensor -----------------------------
(***************************************************************************)
(* The driver of the light sensor, VEML6030.c, as far as the device uses   *)
(* it.  Gain, integration time and the shut-down bit share one register,   *)
(* and each setter reads it, replaces its field and writes it back; a read *)
(* that fails yields 0, a write that fails goes unnoticed.  The light is   *)
(* read without knowing what the setters left: gain and time are read back *)
(* and choose the factor.                                                  *)
(*                                                                         *)
(* Lux are counted in steps of .0001; a gain is counted in eighths.        *)
(***************************************************************************)
EXTENDS Integers

Lux == 10000

Gains == {1, 2, 8, 16}                     \* .125, .25, 1, 2
Times == {25, 50, 100, 200, 400, 800}      \* in milliseconds

\* The bits that stand for a gain and for a time.
GainBits  == [g \in Gains |-> CASE g = 8 -> 0 [] g = 16 -> 1 [] g = 1 -> 2 [] g = 2 -> 3]
IntegBits == [t \in Times |-> CASE t = 100 -> 0 [] t = 200 -> 1 [] t = 400 -> 2
                                [] t = 800 -> 3 [] t = 50 -> 8 [] t = 25 -> 12]

\* SETTING_REG: the fields the device writes.
Settings == [gain : 0 .. 3, integ : {0, 1, 2, 3, 8, 12}, sd : {0, 1}]

\* What a failed _VEML6030_readRegister returns.
Zero == [gain |-> 0, integ |-> 0, sd |-> 0]

Register(reg, read) == IF read THEN reg ELSE Zero

\* Faulty variant: the register is not read first.
Written_Blindly(reg, field, bits, read, write) ==
  IF write THEN [Zero EXCEPT ![field] = bits] ELSE reg

\* _VEML6030_writeRegister: the register afterwards, when the bus did or did
\* not `read` and `write`.
Written(reg, field, bits, read, write) ==
  IF write THEN [Register(reg, read) EXCEPT ![field] = bits] ELSE reg

\* VEML6030_readGain and VEML6030_readIntegTime.
ReadGain(reg)      == CHOOSE g \in Gains : GainBits[g] = reg.gain
ReadIntegTime(reg) == CHOOSE t \in Times : IntegBits[t] = reg.integ

\* The table of conversion factors: a row for each time, and in it, from the
\* highest gain to the lowest, a column for each gain.
Factors == [t \in Times |->
  CASE t = 800 -> <<36, 72, 288, 576>>
    [] t = 400 -> <<72, 144, 576, 1152>>
    [] t = 200 -> <<144, 288, 1152, 2304>>
    [] t = 100 -> <<288, 576, 2304, 4608>>
    [] t = 50  -> <<576, 1152, 4608, 9216>>
    [] t = 25  -> <<1152, 2304, 9216, 18432>>]

\* Faulty variant: the bits of the gain choose the column.
ConvPos_Bits(gain) == GainBits[gain] + 1

ConvPos(gain) == CASE gain = 16 -> 1 [] gain = 8 -> 2 [] gain = 2 -> 3 [] gain = 1 -> 4

\* _VEML6030_calculateLux, in whole lux.
CalculateLux(bits, gain, time) == (Factors[time][ConvPos(gain)] * bits) \div Lux

\* _VEML6030_luxCompensation: the polynomial of the data sheet, in integers of
\* 32 bits, which is right to 2 in 1000.
LuxCompensation(lux) ==
  LET a == 93924 - (60135 * lux) \div 10000
      b == 81488 - (lux * (a \div 10)) \div 1000
      c == 10023 + (lux * (b \div 100)) \div 1000
  IN (lux * (c \div 10)) \div 1000

\* VEML6030_readLight: the register is read twice for the factor, and may be
\* read differently.
ReadLight(bits, dataRead, gainReg, integReg) ==
  LET lux == CalculateLux(IF dataRead THEN bits ELSE 0, ReadGain(gainReg), ReadIntegTime(integReg))
  IN IF lux > 1000 THEN LuxCompensation(lux) ELSE lux

-----------------------------------------------------------------------------
(* The sensor itself, external: a count is worth 0.0036 lux at gain 2 and 800
   ms, and twice as much whenever gain or time is halved.  A sensor that is
   shut down, as it is after power-up, has no count. *)

Quantum(reg) == 36 * (16 \div ReadGain(reg)) * (800 \div ReadIntegTime(reg))
InRange(light, reg) == light \div Quantum(reg) < 65536
Count(light, reg) ==
  IF reg.sd = 1 THEN 0 ELSE IF InRange(light, reg) THEN light \div Quantum(reg) ELSE 65535

PoweredUp == [Zero EXCEPT !.sd = 1]

=============================================================================
