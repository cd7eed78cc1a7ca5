----------------------------- MODULE GeigerStats -----------------------------
(***************************************************************************)
(* What the Geiger counter shows and lets hear while it measures           *)
(* (firmware/perso-geiger-lcd.c, perso-geiger-lcd.h and the display and    *)
(* loudspeaker of perso-geiger-time-series.c): a ring buffer of the pulses *)
(* of the last seconds, filled by an interrupt and evaluated by the main   *)
(* program, which interrupts in any place.                                 *)
(*                                                                         *)
(* Nobody looks at accu_counts between two seconds: a second brings a      *)
(* number of pulses.  The elements have two bytes, read one by one.        *)
(***************************************************************************)
EXTENDS Beep, LcdNumbers, Integers, Sequences, SequencesExt

CONSTANTS
  NumMax,        \* NUM_BUF_MAX, ELEMENTS_LOW_RATE: seconds in the buffer
  NumShort,      \* NUM_BUF_MIN: seconds of the short measurement
  NumHigh,       \* ELEMENTS_HIGH_RATE: seconds averaged at a high rate
  LowHigh,       \* RATE_LOWHIGH: thresholds of the rates,
  HighLow,       \* RATE_HIGHLOW   in tenths of pulses per minute
  Base,          \* values of a byte
  Counts,        \* pulses in a second
  MaxTicks       \* bound: seconds that pass during an evaluation

ASSUME StatsAssumption ==
  /\ NumMax \in Nat /\ NumShort \in Nat /\ NumHigh \in Nat
  /\ 1 < NumShort /\ NumShort <= NumHigh /\ NumHigh <= NumMax /\ NumShort < NumMax
  /\ LowHigh \in Nat /\ HighLow \in Nat
  /\ Base \in Nat \ {0} /\ Counts \subseteq Nat
  /\ MaxTicks \in Nat

VARIABLES
  interrupts,
  do_count_stats,
  head, count, rbuf,        \* the ring buffer
  head_cpy, count_cpy,      \* what the main program goes by
  pc,                       \* where in display_count_stats()
  num_proceed, i, current_pos,
  low_byte,                 \* the byte of an element read first
  sum_total, sum_short, sum_new2, sum_old2,
  estimator,                \* count_rate_estimator
  state_range,
  recent,                   \* history: pulses of the last second, the last two, ...
  ticks,                    \* history: seconds since the copy
  since                     \* history: seconds since a change was detected

ring    == <<head, count, rbuf>>
copy    == <<head_cpy, count_cpy>>
loop    == <<num_proceed, i, current_pos, low_byte>>
sums    == <<sum_total, sum_short, sum_new2, sum_old2>>
results == <<estimator, state_range>>
history == <<recent, ticks, since>>
vars    == <<interrupts, do_count_stats, ring, copy, pc, loop, sums, results, history, beepVars>>

-----------------------------------------------------------------------------
Place0 == 0 .. NumMax - 1

Count == 0 .. Base * Base - 1

Low(element) == element % Base
High(element) == element \div Base
Join(low, high) == low + (Base * high)

Rate(sum, seconds) == (600 * sum) \div seconds

(* reltol_lg, which nobody reads; of a record without pulses it is divided *)
(* by zero: any value.                                                     *)
Tolerance(sum) == IF sum = 0 THEN {0, 65535} ELSE {6000 \div c_sqrt32(3600 * sum)}

Init ==
  /\ BeepInit
  /\ interrupts = TRUE /\ do_count_stats = FALSE
  /\ head = 0 /\ count = 0 /\ rbuf = [p \in Place0 |-> 0]
  /\ head_cpy = 0 /\ count_cpy = 0
  /\ pc = "poll" /\ num_proceed = 0 /\ i = 0 /\ current_pos = 0 /\ low_byte = 0
  /\ sum_total = 0 /\ sum_short = 0 /\ sum_new2 = 0 /\ sum_old2 = 0
  /\ estimator = 0 /\ state_range = "low"
  /\ recent = <<>> /\ ticks = 0 /\ since = 0

-----------------------------------------------------------------------------
(* The interrupts.                                                         *)
Pulse ==
  /\ interrupts /\ _beep
  /\ UNCHANGED <<interrupts, do_count_stats, ring, copy, pc, loop, sums, results, history>>

GateInterrupt ==
  /\ interrupts /\ GateElapsed
  /\ UNCHANGED <<interrupts, do_count_stats, ring, copy, pc, loop, sums, results, history>>

(* The pulses of the last seconds.                                         *)
Pulses(seconds) == IF seconds = 0 THEN 0 ELSE recent[seconds]

Kept == IF Len(recent) < NumMax + MaxTicks THEN Len(recent) + 1 ELSE NumMax + MaxTicks

update_ringbuffer(accu_counts) ==
  /\ head' = (IF head < NumMax - 1 THEN head + 1 ELSE 0)
  /\ rbuf' = [rbuf EXCEPT ![head'] = accu_counts % (Base * Base)]
  /\ count' = (IF count < NumMax THEN count + 1 ELSE NumMax)

(* TIMER1_COMPA while the measurement goes on.                             *)
Second(accu_counts) ==
  /\ interrupts
  /\ pc = "poll" \/ ticks < MaxTicks
  /\ do_count_stats' = TRUE
  /\ update_ringbuffer(accu_counts)
  /\ recent' = [k \in 1 .. Kept |-> (accu_counts % (Base * Base)) + Pulses(k - 1)]
  /\ ticks' = (IF pc = "poll" THEN 0 ELSE ticks + 1)
  /\ since' = (IF since < NumMax - NumShort THEN since + 1 ELSE since)
  /\ UNCHANGED <<interrupts, copy, pc, loop, sums, results, beepVars>>

-----------------------------------------------------------------------------
(* display_count_stats()                                                   *)
Goto(label) == pc' = label

Display ==
  /\ pc = "poll" /\ do_count_stats /\ Goto("copy")
  /\ do_count_stats' = FALSE /\ ticks' = 0
  /\ UNCHANGED <<interrupts, ring, copy, loop, sums, results, recent, since, beepVars>>

(* avrg_len(): the range has a hysteresis.                                 *)
RangeAt(rate) ==
  CASE state_range = "low" /\ rate > LowHigh -> "high"
    [] state_range = "high" /\ rate < HighLow -> "low"
    [] OTHER -> state_range

avrg_len(range) == IF range = "high" THEN NumHigh ELSE NumMax

(* The copy is atomic, and what begins with it needs no more of the ring   *)
(* than its elements.                                                      *)
Copy ==
  /\ pc = "copy"
  /\ head_cpy' = head /\ count_cpy' = count /\ ticks' = 0
  /\ \/ /\ count < NumShort /\ Goto("poll")
        /\ estimator' = 0 /\ UNCHANGED <<loop, sum_total, state_range>>
     \/ /\ count >= NumShort /\ Goto("low")
        /\ state_range' = RangeAt(estimator)
        /\ num_proceed' = (IF avrg_len(state_range') <= count THEN avrg_len(state_range')
                           ELSE count)
        /\ i' = 0 /\ current_pos' = head /\ sum_total' = 0
        /\ UNCHANGED <<estimator, low_byte>>
  /\ UNCHANGED <<interrupts, do_count_stats, ring, sum_short, sum_new2, sum_old2,
                 recent, since, beepVars>>

(* get_stats(): one element, which the interrupt may write in between.     *)
ReadLow ==
  /\ pc = "low" /\ i < num_proceed /\ Goto("high")
  /\ low_byte' = Low(rbuf[current_pos])
  /\ UNCHANGED <<interrupts, do_count_stats, ring, copy, num_proceed, i, current_pos, sums,
                 results, history, beepVars>>

Half == num_proceed \div 2

\* Mutant: the walk goes by the head itself.
ReadHigh_LiveHead ==
  /\ pc = "high" /\ Goto("low")
  /\ sum_total' = sum_total + Join(low_byte, High(rbuf[current_pos])) /\ low_byte' = 0
  /\ i' = i + 1 /\ current_pos' = (head + NumMax - i') % NumMax
  /\ sum_new2' = (IF i' = Half THEN sum_total' ELSE sum_new2)
  /\ sum_old2' = (IF i' = 2 * Half THEN sum_total' ELSE sum_old2)
  /\ sum_short' = (IF i' = NumShort THEN sum_total' ELSE sum_short)
  /\ UNCHANGED <<interrupts, do_count_stats, ring, copy, num_proceed, results, history, beepVars>>

ReadHigh ==
  /\ pc = "high" /\ Goto("low")
  /\ sum_total' = sum_total + Join(low_byte, High(rbuf[current_pos])) /\ low_byte' = 0
  /\ current_pos' = (IF current_pos > 0 THEN current_pos - 1 ELSE NumMax - 1)
  /\ i' = i + 1
  /\ sum_new2' = (IF i' = Half THEN sum_total' ELSE sum_new2)
  /\ sum_old2' = (IF i' = 2 * Half THEN sum_total' ELSE sum_old2)
  /\ sum_short' = (IF i' = NumShort THEN sum_total' ELSE sum_short)
  /\ UNCHANGED <<interrupts, do_count_stats, ring, copy, num_proceed, results, history, beepVars>>

(* Its end: the second sum becomes the one of the older half.              *)
Estimate ==
  /\ pc = "low" /\ i = num_proceed /\ Goto("short")
  /\ sum_old2' = sum_old2 - sum_new2
  /\ estimator' = Rate(sum_total, num_proceed)
  /\ UNCHANGED <<interrupts, do_count_stats, ring, copy, loop, sum_total, sum_short, sum_new2,
                 state_range, history, beepVars>>

(* test1(): the short measurement is more than sqrt(20) deviations off.    *)
test1 ==
  LET diff == estimator - Rate(sum_short, NumShort)
  IN diff * diff > 20 * ((estimator * 600) \div NumShort)

(* test2(): the halves differ by more than sqrt(7) deviations.             *)
test2 ==
  LET diff == sum_new2 - sum_old2 IN diff * diff > 7 * (sum_old2 + sum_new2)

\* Mutant: the copy starts again, not the record.
Restart_CopyOnly == UNCHANGED count /\ since' = 0

(* A change makes the record start again, with its newest seconds.         *)
Restart == count' = NumShort /\ since' = 0

Keep == UNCHANGED <<count, since>>

Test(label, detected, next) ==
  /\ pc = label /\ Goto(next)
  /\ IF detected THEN Restart ELSE Keep
  /\ UNCHANGED <<interrupts, do_count_stats, head, rbuf, copy, results, recent, ticks, beepVars>>

TestShort == Test("short", test1, "halves") /\ UNCHANGED <<loop, sums>>

(* The numbers shown at the end.                                           *)
Numbers(rate, seconds) ==
  LET doserate == cpm2doserate(rate)
  IN <<IF doserate < 10000 THEN uint_to_ascii(doserate, 3, 4)
       ELSE uint_to_ascii(doserate \div 10, 2, 4),
       uint_to_ascii(rate, 1, 6),
       uint_to_ascii(seconds, 0, 3)>>

\* Mutant: the flag is cleared at the end.
TestHalves_ClearFlag ==
  /\ pc = "halves" /\ Goto("poll") /\ do_count_stats' = FALSE
  /\ IF test2 THEN Restart ELSE Keep
  /\ num_proceed' = 0 /\ i' = 0 /\ current_pos' = 0 /\ sum_total' = 0
  /\ UNCHANGED <<interrupts, head, rbuf, copy, low_byte, sum_short, sum_new2, sum_old2, results,
                 recent, ticks, beepVars>>

(* The end of the function, and of its variables.                          *)
TestHalves ==
  /\ Test("halves", test2, "poll")
  /\ num_proceed' = 0 /\ i' = 0 /\ current_pos' = 0 /\ sum_total' = 0
  /\ UNCHANGED <<low_byte, sum_short, sum_new2, sum_old2>>

-----------------------------------------------------------------------------
(* The main program ends or aborts the measurement: cli() and              *)
(* on_measurement_finished().                                              *)
Over ==
  /\ pc = "poll" /\ interrupts /\ interrupts' = FALSE
  /\ beep_kill_all
  /\ UNCHANGED <<do_count_stats, ring, copy, pc, loop, sums, results, history>>

display_count_stats ==
  \/ Display \/ Copy \/ ReadLow \/ ReadHigh \/ Estimate \/ TestShort \/ TestHalves

Next ==
  \/ display_count_stats \/ Over
  \/ Pulse \/ GateInterrupt \/ \E accu_counts \in Counts : Second(accu_counts)

Spec == Init /\ [][Next]_vars

(* The main program runs, timer0 counts.                                   *)
FairSpec == Spec /\ WF_vars(display_count_stats) /\ WF_vars(GateInterrupt)

-----------------------------------------------------------------------------
(* The values every variable keeps to: all indices lie in the buffer.      *)
TypeOK ==
  /\ pc \in {"poll", "copy", "low", "high", "short", "halves"}
  /\ interrupts \in BOOLEAN /\ do_count_stats \in BOOLEAN
  /\ head \in Place0 /\ count \in 0 .. NumMax /\ rbuf \in [Place0 -> Count]
  /\ head_cpy \in Place0 /\ count_cpy \in 0 .. NumMax
  /\ current_pos \in Place0 /\ i \in 0 .. num_proceed /\ low_byte \in 0 .. Base - 1
  /\ num_proceed \in {0} \cup (NumShort .. NumMax)
  /\ pc # "poll" /\ pc # "copy" => num_proceed > 0
  /\ pc = "high" => i < num_proceed
  /\ state_range \in {"low", "high"}
  /\ ticks \in Nat /\ since \in Nat
  /\ gate \in BOOLEAN /\ tone \in BOOLEAN

Evaluated == pc \in {"short", "halves"}

(* The pulses of the seconds from the first to the last, counted back from *)
(* the one the copy was made after.                                        *)
Total(first, last) == Pulses(ticks + last) - Pulses(ticks + first - 1)

(***************************************************************************)
(* What an evaluation sums up are the pulses of the newest seconds when it *)
(* copied the head, of no more than there have been, whatever the          *)
(* interrupt writes meanwhile: the short measurement, the newer half and   *)
(* all seconds but the oldest the buffer has room for exactly; that one    *)
(* may be overwritten while it is read.                                    *)
(***************************************************************************)
Overwritten == ticks > 0 /\ num_proceed = NumMax

Oldest ==
  LET old == Total(NumMax, NumMax)
      new == Total(0, 0)
  IN {old, new, Join(Low(old), High(new)), Join(Low(new), High(old))}

SumsAreOfNewest ==
  Evaluated =>
    /\ num_proceed + ticks <= Len(recent)
    /\ sum_short = Total(1, NumShort)
    /\ sum_new2 = Total(1, Half)
    /\ IF Overwritten
       THEN \E value \in Oldest :
              /\ sum_total = Total(1, NumMax - 1) + value
              /\ sum_old2 = Total(Half + 1, 2 * Half - 1)
                            + (IF 2 * Half = NumMax THEN value ELSE Total(2 * Half, 2 * Half))
       ELSE sum_total = Total(1, num_proceed) /\ sum_old2 = Total(Half + 1, 2 * Half)

(***************************************************************************)
(* After a change in the count rate no second before it is averaged, those *)
(* of the short measurement apart.                                         *)
(***************************************************************************)
ForgetsBeforeChange == since < NumMax - NumShort => count <= NumShort + since

(***************************************************************************)
(* The error in percent, 100 by the square root of the pulses, is right to *)
(* one percent where there are pulses, and 3600 times as many have 32 bits.*)
(***************************************************************************)
LargestSum == 1193046

ToleranceFits ==
  Evaluated /\ sum_total > 0 /\ sum_total <= LargestSum =>
    \A reltol_lg \in Tolerance(sum_total) :
      /\ (reltol_lg + 1) * (reltol_lg + 1) * sum_total > 10000
      /\ reltol_lg > 0 => (reltol_lg - 1) * (reltol_lg - 1) * sum_total <= 10000

(***************************************************************************)
(* The numbers on the display read back as the ones they were made of,     *)
(* with the point in its place, as long as they have room: blanks stand in *)
(* front of the first digit only, no zeros but the one before the point.   *)
(***************************************************************************)
Worth(character) ==
  IF character = " " THEN 0 ELSE CHOOSE d \in 0 .. 9 : Character(d) = character

Value(digits) ==
  LET value[k \in 0 .. Len(digits)] ==
        IF k = 0 THEN 0 ELSE 10 * value[k - 1] + Worth(digits[k])
  IN value[Len(digits)]

Digits(text, pos) == IF pos = 0 THEN text ELSE RemoveAt(text, Len(text) - pos)

Aligned(digits, pos) ==
  \A k \in DOMAIN digits :
    LET leads == \A j \in 1 .. k - 1 : digits[j] = " "
    IN /\ digits[k] = " " => leads /\ k < Len(digits) - pos
       /\ digits[k] = "0" /\ leads => k >= Len(digits) - pos

ReadsAs(text, value, pos) ==
  /\ Value(Digits(text, pos)) = value /\ Aligned(Digits(text, pos), pos)
  /\ pos > 0 => text[Len(text) - pos] = "."

DisplayReads ==
  Evaluated =>
    LET lcd  == Numbers(estimator, num_proceed)
        rate == cpm2doserate(estimator)
    IN /\ estimator < 1000000 => ReadsAs(lcd[2], estimator, 1)
       /\ num_proceed < 1000 => ReadsAs(lcd[3], num_proceed, 0)
       /\ rate < 100000 => IF rate < 10000 THEN ReadsAs(lcd[1], rate, 3)
                           ELSE ReadsAs(lcd[1], rate \div 10, 2)

(* The numbers of an evaluation, on the display and behind it.             *)
NumbersHold == ToleranceFits /\ DisplayReads

(***************************************************************************)
(* The last second of a measurement is evaluated too: no update is lost    *)
(* between the interrupt that asks for it and the evaluation going on.     *)
(***************************************************************************)
ShowsTheNewest == ~interrupts ~> head_cpy = head /\ ~do_count_stats /\ pc = "poll"

(***************************************************************************)
(* Every tone ends; and there is none once the interrupts that would end   *)
(* it are off ("otherwise the beep would keep on running for a infinite    *)
(* time").                                                                 *)
(***************************************************************************)
ToneEnds == tone ~> ~tone

SilentWhenOver == ~interrupts => ~tone

=============================================================================
