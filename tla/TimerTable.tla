----------------------------- MODULE TimerTable -----------------------------
(***************************************************************************)
(* The arithmetic of the software timers of Application.c.  A timer holds  *)
(* the milliseconds it still has to run, or -1 when it is stopped.  Every  *)
(* pass of updateTimers charges the time that went by since the last one.  *)
(***************************************************************************)
EXTENDS Integers

\* app.timers[i] = -1: the timer does not run.
Stopped == -1

\* The timer runs out in a pass that charges `elapsed` ms.
Due(left, elapsed) == left # Stopped /\ left <= elapsed

\* Faulty variant: the overshoot is not taken off.
Reloaded_Fresh(left, elapsed, interval) == interval

\* What is left of the reload interval after a timer that had `left` ms ran
\* out in a pass charging `elapsed` >= `left` ms: the overshoot is taken from
\* the new period, so that late passes do not make a periodic timer drift.
Reloaded(left, elapsed, interval) == interval - ((elapsed - left) % interval)

\* Faulty variants: a timer may be left at 0; a timer runs out only once.
Stepped_KeepsZero(left, elapsed, interval) ==
  IF left >= elapsed THEN left - elapsed
  ELSE IF left = Stopped THEN Stopped
  ELSE IF interval = 0 THEN Stopped
  ELSE Reloaded(left, elapsed, interval)

Stepped_OneShot(left, elapsed, interval) ==
  IF left > elapsed THEN left - elapsed ELSE Stopped

\* The value a timer has once the pass has visited it, callback aside.
Stepped(left, elapsed, interval) ==
  IF left > elapsed THEN left - elapsed
  ELSE IF left = Stopped THEN Stopped
  ELSE IF interval = 0 THEN Stopped
  ELSE Reloaded(left, elapsed, interval)

=============================================================================
