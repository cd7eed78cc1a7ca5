------------------------------ MODULE Countdown ------------------------------
(***************************************************************************)
(* The measurement clock: the 16 bit down counter the timer interrupt      *)
(* works on (firmware/timer1-countdown-and-stop.c, and the reloading one   *)
(* of firmware/perso-geiger-time-series.c), and get_duration()             *)
(* (firmware/timer1-get-duration.c), which reads it byte by byte while the *)
(* interrupt is enabled, until two readings agree.                         *)
(*                                                                         *)
(* Ticks are the runs of the interrupt service routine.  The CPU reads two *)
(* bytes much faster than the timer ticks: at most MaxTicks of them fall   *)
(* between the starts of two readings.                                     *)
(***************************************************************************)
EXTENDS Integers

CONSTANTS
  TimerValues, \* the values a measurement can be started with
  Intervals,   \* how often the counter runs down before the measurement ends
  MaxTicks     \* ticks between two readings of the low byte

Byte == 0 .. 255
Word == 0 .. 65535
Low(word)       == word % 256
High(word)      == word \div 256
Join(low, high) == low + 256 * high

ASSUME CountdownAssumption ==
  /\ TimerValues \subseteq Word \ {0, 1}
  /\ Intervals \in Nat \ {0}
  /\ MaxTicks \in Byte

VARIABLES
  timer1_count,      \* what is left of the interval
  orig_timer1_count, \* the length of an interval
  intervals,         \* intervals not over yet
  gf,                \* GF_MEASUREMENT_FINISHED
  at,                \* where get_duration() is: "idle", or about to read "low", "high"
  low,               \* the low byte, once read
  a,                 \* get_duration()'s last reading
  again,             \* whether there was a reading before
  duration,          \* what the call returned
  ticks,             \* ticks since the last reading of the low byte
  ended,             \* history: whether the measurement was over at the call
  held               \* history: the counter when its low byte was read last

clock   == <<timer1_count, orig_timer1_count, intervals, gf>>
reader  == <<at, low, a, again, duration>>
history == <<ended, held>>
vars == <<clock, reader, ticks, history>>

-----------------------------------------------------------------------------
(* timer1_init() has started the timer with the parameters' value.         *)
Init ==
  /\ orig_timer1_count \in TimerValues /\ timer1_count = orig_timer1_count
  /\ intervals = Intervals /\ gf = FALSE
  /\ at = "idle" /\ low = 0 /\ a = 0 /\ again = FALSE /\ duration = 0
  /\ ticks = 0 /\ ended = FALSE /\ held = 0

-----------------------------------------------------------------------------
(* A second has passed; get_duration() may be anywhere.                    *)
DuringCall ==
  IF at = "idle" THEN UNCHANGED ticks ELSE ticks < MaxTicks /\ ticks' = ticks + 1

\* Mutant: the counter runs on after the end of the measurement.
Tick_Forever ==
  /\ timer1_count' = (timer1_count - 1) % 65536
  /\ gf' = (gf \/ timer1_count' = 0)
  /\ DuringCall
  /\ UNCHANGED <<orig_timer1_count, intervals, reader, history>>

(* The routine leaves everything alone once the measurement has finished.  *)
(* It reloads the counter where the personality has another interval.      *)
Tick ==
  /\ ~gf
  /\ LET left == (timer1_count - 1) % 65536 IN
       \/ /\ left # 0
          /\ timer1_count' = left
          /\ UNCHANGED <<intervals, gf>>
       \/ /\ left = 0 /\ intervals > 1
          /\ timer1_count' = orig_timer1_count /\ intervals' = intervals - 1
          /\ UNCHANGED gf
       \/ /\ left = 0 /\ intervals = 1
          /\ timer1_count' = 0 /\ intervals' = 0 /\ gf' = TRUE
  /\ DuringCall
  /\ UNCHANGED <<orig_timer1_count, reader, history>>

-----------------------------------------------------------------------------
(* get_duration() is called for a table packet.                            *)
Call ==
  /\ at = "idle"
  /\ at' = "low" /\ again' = FALSE /\ a' = 0 /\ duration' = 0 /\ ticks' = 0
  /\ ended' = gf
  /\ UNCHANGED <<clock, low, held>>

ReadLow ==
  /\ at = "low"
  /\ low' = Low(timer1_count)
  /\ at' = "high" /\ ticks' = 0 /\ held' = timer1_count
  /\ UNCHANGED <<clock, a, again, duration, ended>>

\* Mutant: the first reading is returned.
Settled_AtOnce(reading) == TRUE

(* The reading agrees with the one before.                                 *)
Settled(reading) == again /\ reading = a

\* Mutant: every reading is compared with the first.
ReadHigh_Stale ==
  /\ at = "high"
  /\ LET reading == Join(low, High(timer1_count)) IN
       /\ a' = IF again THEN a ELSE reading
       /\ at' = IF Settled(reading) THEN "idle" ELSE "low"
  /\ again' = TRUE
  /\ UNCHANGED <<clock, low, duration, ticks, history>>

ReadHigh ==
  /\ at = "high"
  /\ a' = Join(low, High(timer1_count)) /\ again' = TRUE
  /\ \/ /\ Settled(a')
        /\ at' = "idle"
        /\ duration' = (orig_timer1_count - a') % 65536
     \/ /\ ~Settled(a')
        /\ at' = "low"
        /\ UNCHANGED duration
  /\ UNCHANGED <<clock, low, ticks, history>>

Next == Tick \/ Call \/ ReadLow \/ ReadHigh

Spec == Init /\ [][Next]_vars

(* The CPU goes on with a call; calls and ticks may stop coming.           *)
FairSpec == Spec /\ WF_vars(ReadLow \/ ReadHigh)

-----------------------------------------------------------------------------
(* The ranges of the variables.                                            *)
TypeOK ==
  /\ timer1_count \in Word /\ orig_timer1_count \in TimerValues
  /\ intervals \in 0 .. Intervals /\ gf \in BOOLEAN
  /\ at \in {"idle", "low", "high"} /\ low \in Byte
  /\ a \in Word /\ again \in BOOLEAN /\ duration \in Word
  /\ ticks \in 0 .. MaxTicks /\ ended \in BOOLEAN /\ held \in Word

Returned == at = "idle" /\ again

(***************************************************************************)
(* What get_duration() returns is computed from no mixture of two values,  *)
(* but from the value the counter held when its low byte was read for the  *)
(* last time ("the same valid timer1_count value").                        *)
(***************************************************************************)
DurationIsValid == Returned => a = held /\ duration = orig_timer1_count - held

(***************************************************************************)
(* The duration of a measurement that was over when get_duration() was     *)
(* called is exact: a whole interval.                                      *)
(***************************************************************************)
FinishedIsExact == Returned /\ ended => duration = orig_timer1_count

(***************************************************************************)
(* A call that returns in the first interval lags behind the clock by the  *)
(* ticks of its last reading and no more: with at most one of them the     *)
(* duration is "off by one but not by more".                               *)
(***************************************************************************)
LagsByTicks ==
  [][at = "high" /\ at' = "idle" /\ (intervals = Intervals \/ Intervals = 1)
       => a' - timer1_count \in 0 .. ticks]_vars

(***************************************************************************)
(* A call of get_duration() returns, however the ticks fall.               *)
(***************************************************************************)
CallReturns == at # "idle" ~> at = "idle"

=============================================================================
