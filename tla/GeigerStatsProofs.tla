-------------------------- MODULE GeigerStatsProofs --------------------------
(***************************************************************************)
(* For every size of the ring buffer and of the averages, every number of  *)
(* pulses and any seconds that pass during an evaluation: all indices lie  *)
(* in the buffer, the record is forgotten at a change, and no tone goes on *)
(* when a measurement is over. The sums of an evaluation are those of the  *)
(* newest seconds, if it takes less than two. The display gets in step     *)
(* with its driver and shows what was evaluated, as texts that read back   *)
(* as these numbers.                                                       *)
(***************************************************************************)
EXTENDS GeigerDisplay, Division, SequenceTheorems, TLAPS

-----------------------------------------------------------------------------
(* Remainders are smaller than what is divided by.                         *)
LEMMA Remainders ==
  ASSUME NEW n \in Nat \ {0}, NEW k \in Int
  PROVE  k % n \in 0 .. n - 1
OBVIOUS

(* Pulses of a second in two bytes, and the lower one.                     *)
LEMMA TwoBytes ==
  ASSUME NEW k \in Nat
  PROVE  k % (Base * Base) \in Count /\ Low(k) \in 0 .. Base - 1
<1>1. Base * Base \in Nat \ {0}
  BY StatsAssumption
<1>2. k % (Base * Base) \in Count
  BY <1>1, Remainders DEF Count
<1>3. k % Base \in 0 .. Base - 1
  BY StatsAssumption, Remainders
<1>. QED
  BY <1>2, <1>3 DEF Low

(* The ring buffer after a second.                                         *)
LEMMA RingKeeps ==
  ASSUME TypeOK, NEW accu_counts \in Nat, update_ringbuffer(accu_counts)
  PROVE  /\ head' \in Place0 /\ count' \in 0 .. NumMax /\ rbuf' \in [Place0 -> Count]
         /\ count' <= count + 1
<1>1. head' \in Place0
  BY StatsAssumption DEF TypeOK, update_ringbuffer, Place0
<1>2. count' \in 0 .. NumMax /\ count' <= count + 1
  BY StatsAssumption DEF TypeOK, update_ringbuffer
<1>3. accu_counts % (Base * Base) \in Count
  BY TwoBytes
<1>4. rbuf' \in [Place0 -> Count]
  BY <1>1, <1>3 DEF TypeOK, update_ringbuffer
<1>. QED
  BY <1>1, <1>2, <1>4

(* The seconds to average over: those recorded, but no more than the range *)
(* asks for.                                                               *)
LEMMA Proceeds ==
  ASSUME NEW n \in NumShort .. NumMax, NEW range
  PROVE  (IF avrg_len(range) <= n THEN avrg_len(range) ELSE n) \in NumShort .. NumMax
BY StatsAssumption DEF avrg_len

-----------------------------------------------------------------------------
(* The inductive invariant.                                                *)
IInv == TypeOK /\ ForgetsBeforeChange /\ SilentWhenOver

LEMMA InitInvariant == Init => IInv
<1> SUFFICES ASSUME Init PROVE IInv
  OBVIOUS
<1>1. 0 \in Place0 /\ 0 \in Count /\ 0 \in 0 .. Base - 1 /\ 0 \in 0 .. NumMax
  BY StatsAssumption DEF Place0, Count
<1>2. rbuf \in [Place0 -> Count]
  BY <1>1 DEF Init
<1>3. TypeOK
  BY <1>1, <1>2 DEF Init, TypeOK, BeepInit
<1>. QED
  BY <1>3, StatsAssumption DEF Init, BeepInit, IInv, ForgetsBeforeChange, SilentWhenOver

(* Interrupts that have to do with the loudspeaker, and the end.           *)
LEMMA BeepKeeps ==
  ASSUME IInv, Pulse \/ GateInterrupt \/ Over
  PROVE  IInv'
<1>1. /\ UNCHANGED <<do_count_stats, ring, copy, pc, loop, sums, results, history>>
      /\ interrupts' \in BOOLEAN /\ gate' \in BOOLEAN /\ tone' \in BOOLEAN
  BY DEF IInv, TypeOK, Pulse, GateInterrupt, Over, _beep, GateElapsed, beep_kill_all,
         timer0_2_stop_and_reset
<1>2. TypeOK'
  BY <1>1 DEF IInv, TypeOK, ring, copy, loop, sums, results, history, Place0, Count
<1>3. ForgetsBeforeChange'
  BY <1>1 DEF IInv, ForgetsBeforeChange, ring, history
<1>4. SilentWhenOver'
  BY DEF IInv, SilentWhenOver, Pulse, GateInterrupt, Over, _beep, GateElapsed, beep_kill_all,
         timer0_2_stop_and_reset
<1>. QED
  BY <1>2, <1>3, <1>4 DEF IInv

LEMMA SecondKeeps ==
  ASSUME IInv, NEW accu_counts \in Counts, Second(accu_counts)
  PROVE  IInv'
<1>1. accu_counts \in Nat
  BY StatsAssumption
<1>2. /\ head' \in Place0 /\ count' \in 0 .. NumMax /\ rbuf' \in [Place0 -> Count]
      /\ count' <= count + 1
  BY <1>1, RingKeeps DEF IInv, Second
<1>3. /\ UNCHANGED <<interrupts, copy, pc, loop, sums, results, beepVars>>
      /\ do_count_stats' \in BOOLEAN /\ ticks' \in Nat /\ since' \in Nat
  BY DEF IInv, TypeOK, Second
<1>4. TypeOK'
  BY <1>2, <1>3 DEF IInv, TypeOK, copy, loop, sums, results, beepVars, Place0, Count
<1>5. ForgetsBeforeChange'
  BY <1>2, StatsAssumption DEF IInv, TypeOK, ForgetsBeforeChange, Second
<1>6. SilentWhenOver'
  BY <1>3 DEF IInv, SilentWhenOver, beepVars
<1>. QED
  BY <1>4, <1>5, <1>6 DEF IInv

(* What the main program does leaves loudspeaker and interrupts alone; the *)
(* record is as it was or starts again.                                    *)
LEMMA RecordKeeps ==
  ASSUME IInv, UNCHANGED <<interrupts, beepVars>>, Keep \/ Restart
  PROVE  /\ ForgetsBeforeChange' /\ SilentWhenOver'
         /\ count' \in 0 .. NumMax /\ since' \in Nat
<1>1. SilentWhenOver'
  BY DEF IInv, SilentWhenOver, beepVars
<1>2. CASE Keep
  BY <1>1, <1>2 DEF IInv, TypeOK, ForgetsBeforeChange, Keep
<1>3. CASE Restart
  BY <1>1, <1>3, StatsAssumption DEF ForgetsBeforeChange, Restart
<1>. QED
  BY <1>2, <1>3

LEMMA EvaluationKeeps ==
  ASSUME IInv, display_count_stats
  PROVE  IInv'
<1>1. CASE Display
  <2>1. UNCHANGED <<interrupts, beepVars>> /\ Keep
    BY <1>1 DEF Display, ring, Keep
  <2>2. TypeOK'
    BY <1>1 DEF Display, Goto, IInv, TypeOK, ring, copy, loop, sums, results, beepVars, Place0,
                Count
  <2>. QED
    BY <2>1, <2>2, RecordKeeps DEF IInv
<1>2. CASE Copy
  <2>1. UNCHANGED <<interrupts, beepVars>> /\ Keep
    BY <1>2 DEF Copy, ring, Keep
  <2>2. /\ head_cpy' \in Place0 /\ count_cpy' \in 0 .. NumMax /\ ticks' \in Nat
        /\ UNCHANGED <<interrupts, do_count_stats, ring, low_byte, since, beepVars>>
    BY <1>2 DEF Copy, loop, IInv, TypeOK
  <2>3. CASE count < NumShort
    <3>1. pc' = "poll" /\ UNCHANGED <<loop, state_range>>
      BY <1>2, <2>3, StatsAssumption DEF Copy, Goto, IInv, TypeOK
    <3>2. TypeOK'
      BY <2>2, <3>1 DEF IInv, TypeOK, ring, loop, beepVars, Place0, Count
    <3>. QED
      BY <2>1, <3>2, RecordKeeps DEF IInv
  <2>4. CASE count >= NumShort
    <3>1. /\ pc' = "low" /\ i' = 0 /\ current_pos' = head
          /\ num_proceed' = (IF avrg_len(state_range') <= count THEN avrg_len(state_range')
                             ELSE count)
          /\ state_range' = RangeAt(estimator)
      BY <1>2, <2>4, StatsAssumption DEF Copy, Goto, IInv, TypeOK
    <3>2. num_proceed' \in NumShort .. NumMax
      <4>1. count \in NumShort .. NumMax
        BY <2>4, StatsAssumption DEF IInv, TypeOK
      <4>. QED
        BY <3>1, <4>1, Proceeds
    <3>3. state_range' \in {"low", "high"}
      BY <3>1 DEF RangeAt, IInv, TypeOK
    <3>4. current_pos' \in Place0 /\ i' \in 0 .. num_proceed' /\ num_proceed' > 0
      BY <3>1, <3>2, StatsAssumption DEF IInv, TypeOK
    <3>5. TypeOK'
      BY <2>2, <3>1, <3>2, <3>3, <3>4 DEF IInv, TypeOK, ring, beepVars, Place0, Count
    <3>. QED
      BY <2>1, <3>5, RecordKeeps DEF IInv
  <2>. QED
    BY <2>3, <2>4, StatsAssumption DEF IInv, TypeOK
<1>3. CASE ReadLow
  <2>1. UNCHANGED <<interrupts, beepVars>> /\ Keep
    BY <1>3 DEF ReadLow, ring, history, Keep
  <2>2. low_byte' \in 0 .. Base - 1
    <3>1. rbuf[current_pos] \in Nat
      BY StatsAssumption DEF IInv, TypeOK, Count
    <3>. QED
      BY <1>3, <3>1, TwoBytes DEF ReadLow
  <2>3. TypeOK'
    BY <1>3, <2>2 DEF ReadLow, Goto, IInv, TypeOK, ring, copy, sums, results, history, beepVars,
                      Place0, Count
  <2>. QED
    BY <2>1, <2>3, RecordKeeps DEF IInv
<1>4. CASE ReadHigh
  <2>1. UNCHANGED <<interrupts, beepVars>> /\ Keep
    BY <1>4 DEF ReadHigh, ring, history, Keep
  <2>2. current_pos' \in Place0 /\ i' \in 0 .. num_proceed /\ low_byte' \in 0 .. Base - 1
    BY <1>4, StatsAssumption DEF ReadHigh, IInv, TypeOK, Place0
  <2>3. TypeOK'
    BY <1>4, <2>2 DEF ReadHigh, Goto, IInv, TypeOK, ring, copy, results, history, beepVars,
                      Place0, Count
  <2>. QED
    BY <2>1, <2>3, RecordKeeps DEF IInv
<1>5. CASE Estimate
  <2>1. UNCHANGED <<interrupts, beepVars>> /\ Keep
    BY <1>5 DEF Estimate, ring, history, Keep
  <2>2. TypeOK'
    BY <1>5 DEF Estimate, Goto, IInv, TypeOK, ring, copy, loop, history, beepVars, Place0, Count
  <2>. QED
    BY <2>1, <2>2, RecordKeeps DEF IInv
<1>6. CASE TestShort
  <2>1. UNCHANGED <<interrupts, beepVars>> /\ (Keep \/ Restart)
    BY <1>6 DEF TestShort, Test
  <2>2. count' \in 0 .. NumMax /\ since' \in Nat
    BY <2>1, RecordKeeps
  <2>3. TypeOK'
    BY <1>6, <2>2 DEF TestShort, Test, Goto, IInv, TypeOK, copy, loop, sums, results, beepVars,
                      Place0, Count
  <2>. QED
    BY <2>1, <2>3, RecordKeeps DEF IInv
<1>7. CASE TestHalves
  <2>1. UNCHANGED <<interrupts, beepVars>> /\ (Keep \/ Restart)
    BY <1>7 DEF TestHalves, Test
  <2>2. count' \in 0 .. NumMax /\ since' \in Nat
    BY <2>1, RecordKeeps
  <2>3. 0 \in Place0
    BY StatsAssumption DEF Place0
  <2>4. TypeOK'
    BY <1>7, <2>2, <2>3 DEF TestHalves, Test, Goto, IInv, TypeOK, copy, results, beepVars,
                            Place0, Count
  <2>. QED
    BY <2>1, <2>4, RecordKeeps DEF IInv
<1>. QED
  BY <1>1, <1>2, <1>3, <1>4, <1>5, <1>6, <1>7 DEF display_count_stats

LEMMA StutterKeeps ==
  ASSUME IInv, UNCHANGED vars
  PROVE  IInv'
BY DEF IInv, TypeOK, ForgetsBeforeChange, SilentWhenOver, vars, ring, copy, loop, sums, results,
       history, beepVars, Place0, Count

THEOREM Invariant == Spec => []IInv
<1>1. Init => IInv
  BY InitInvariant
<1>2. IInv /\ [Next]_vars => IInv'
  BY BeepKeeps, SecondKeeps, EvaluationKeeps, StutterKeeps DEF Next
<1>. QED
  BY <1>1, <1>2, PTL DEF Spec

-----------------------------------------------------------------------------
(* update_ringbuffer() and get_stats() stay inside the buffer.             *)
THEOREM TypeCorrect == Spec => []TypeOK
<1>1. IInv => TypeOK
  BY DEF IInv
<1>. QED
  BY <1>1, Invariant, PTL

(* A detected change leaves the short measurement only.                    *)
THEOREM RecordForgets == Spec => []ForgetsBeforeChange
<1>1. IInv => ForgetsBeforeChange
  BY DEF IInv
<1>. QED
  BY <1>1, Invariant, PTL

(* beep_kill_all() ends the tone no interrupt would end.                   *)
THEOREM SilenceAtTheEnd == Spec => []SilentWhenOver
<1>1. IInv => SilentWhenOver
  BY DEF IInv
<1>. QED
  BY <1>1, Invariant, PTL

-----------------------------------------------------------------------------
(***************************************************************************)
(* The sums.  An element of the ring buffer has the pulses of the second   *)
(* it was written after; the walk goes back from the copy of the head, to  *)
(* which the head comes round only when it is about to read the last       *)
(* element of a full buffer.                                               *)
(***************************************************************************)
Back(place, seconds) == IF seconds <= place THEN place - seconds ELSE place - seconds + NumMax

Brought(second) == Pulses(second) - Pulses(second - 1)

RingHolds ==
  /\ recent \in Seq(Nat) /\ count <= Len(recent)
  /\ \A k \in 1 .. NumMax : k <= Len(recent) => rbuf[Back(head, k - 1)] = Brought(k)

Evaluating == pc \in {"low", "high", "short", "halves"}

Walk ==
  Evaluating =>
    /\ ticks <= MaxTicks /\ head_cpy = Back(head, ticks)
    /\ num_proceed + ticks <= Len(recent)
    /\ pc \in {"low", "high"} => current_pos = Back(head_cpy, i)

Summed(seconds, sum) ==
  IF ticks = 0 \/ seconds < NumMax THEN sum = Total(1, seconds)
  ELSE \E value \in Oldest : sum = Total(1, NumMax - 1) + value

SumsSoFar ==
  /\ Summed(i, sum_total)
  /\ i >= NumShort => sum_short = Total(1, NumShort)
  /\ i >= Half => sum_new2 = Total(1, Half)
  /\ i >= 2 * Half => sum_old2 = (IF 2 * Half = NumMax THEN sum_total ELSE Total(1, 2 * Half))

(* The low byte read is of the element whose high byte is next, but for    *)
(* the oldest one: the second that passed has taken its place.             *)
HalfRead ==
  pc = "high" =>
    \/ low_byte = Low(Total(i + 1, i + 1))
    \/ i + 1 = NumMax /\ ticks > 0 /\ low_byte = Low(Total(0, 0))

Walked == (pc \in {"low", "high"} => SumsSoFar) /\ HalfRead

SumsInv == RingHolds /\ Walk /\ Walked /\ SumsAreOfNewest

(* The pulses of the last seconds are numbers.                             *)
LEMMA PulsesAreNumbers ==
  ASSUME RingHolds
  PROVE  /\ Len(recent) \in Nat
         /\ \A k \in 0 .. Len(recent) : Pulses(k) \in Nat
<1>1. recent \in Seq(Nat)
  BY DEF RingHolds
<1>2. Len(recent) \in Nat /\ \A k \in 1 .. Len(recent) : recent[k] \in Nat
  BY <1>1, LenProperties, ElementOfSeq
<1>. QED
  BY <1>2 DEF Pulses

(* An element is made up of its bytes.                                     *)
LEMMA BytesJoin ==
  ASSUME NEW k \in Nat
  PROVE  Join(Low(k), High(k)) = k
<1>1. Base \in Nat \ {0}
  BY StatsAssumption
<1>2. k \div Base \in Nat /\ k % Base \in 0 .. Base - 1 /\ k = Base * (k \div Base) + (k % Base)
  BY <1>1, DivisionWithRemainder
<1>. DEFINE q == k \div Base  r == k % Base
<1>3. q \in Nat /\ r \in Nat /\ Base * q \in Nat /\ k = Base * q + r
  BY <1>1, <1>2
<1>. HIDE DEF q, r
<1>4. r + (Base * q) = k
  BY <1>1, <1>3
<1>. QED
  BY <1>4 DEF Join, Low, High, q, r

-----------------------------------------------------------------------------
(* A second passes: the pulses of the last k seconds are those of the last *)
(* k - 1 before, and of this one.                                          *)
LEMMA HistoryShifts ==
  ASSUME IInv, RingHolds, NEW accu_counts \in Nat, Second(accu_counts)
  PROVE  /\ recent' \in Seq(Nat)
         /\ Len(recent') = Kept
         /\ Pulses(0)' = 0
         /\ \A k \in 0 .. Kept - 1 :
              Pulses(k + 1)' = (accu_counts % (Base * Base)) + Pulses(k)
<1>. DEFINE c == accu_counts % (Base * Base)
<1>1. c \in Nat
  BY TwoBytes DEF Count
<1>. HIDE DEF c
<1>2. Len(recent) \in Nat /\ \A k \in 0 .. Len(recent) : Pulses(k) \in Nat
  BY PulsesAreNumbers
<1>3. Kept \in Nat \ {0} /\ Kept <= Len(recent) + 1
  BY <1>2, StatsAssumption DEF Kept
<1>4. \A k \in 1 .. Kept : c + Pulses(k - 1) \in Nat
  <2>. TAKE k \in 1 .. Kept
  <2>1. k - 1 \in 0 .. Len(recent)
    BY <1>2, <1>3
  <2>. QED
    BY <1>1, <1>2, <2>1
<1>5. recent' = [k \in 1 .. Kept |-> c + Pulses(k - 1)]
  BY DEF Second, c
<1>6. recent' \in [1 .. Kept -> Nat]
  BY <1>4, <1>5
<1>7. recent' \in Seq(Nat)
  BY <1>3, <1>6
<1>8. Len(recent') = Kept
  BY <1>3, <1>6, <1>7, LenProperties
<1>9. \A k \in 0 .. Kept - 1 : Pulses(k + 1)' = c + Pulses(k)
  <2>. TAKE k \in 0 .. Kept - 1
  <2>1. k + 1 \in 1 .. Kept /\ (k + 1) - 1 = k /\ k + 1 # 0
    BY <1>3
  <2>2. recent'[k + 1] = c + Pulses((k + 1) - 1)
    BY <1>5, <2>1
  <2>. QED
    BY <2>1, <2>2 DEF Pulses
<1>. QED
  BY <1>7, <1>8, <1>9 DEF Pulses, c

(* Places of the ring buffer, counted back.                                *)
LEMMA PlacesBack ==
  ASSUME NEW place \in Place0, NEW seconds \in 0 .. NumMax
  PROVE  /\ Back(place, seconds) \in Place0
         /\ seconds < NumMax =>
              Back(place, seconds + 1) = (IF Back(place, seconds) > 0
                                          THEN Back(place, seconds) - 1 ELSE NumMax - 1)
         /\ Back(place, 0) = place
BY StatsAssumption DEF Place0, Back

(* The element written is the one for a second more; the others are the    *)
(* same counted back from the new head as before from the old one.         *)
LEMMA HeadAdvances ==
  ASSUME NEW old \in Place0, NEW new, new = (IF old < NumMax - 1 THEN old + 1 ELSE 0)
  PROVE  /\ new \in Place0 /\ Back(new, 0) = new
         /\ \A k \in 0 .. NumMax - 1 : Back(new, k + 1) = Back(old, k)
         /\ \A k \in 1 .. NumMax - 1 : Back(new, k) # new
         /\ Back(old, NumMax - 1) = new
BY StatsAssumption DEF Place0, Back

LEMMA SecondRings ==
  ASSUME IInv, RingHolds, NEW accu_counts \in Nat, Second(accu_counts)
  PROVE  RingHolds'
<1>. DEFINE c == accu_counts % (Base * Base)
<1>1. c \in Count /\ c \in Nat
  BY TwoBytes DEF Count
<1>2. /\ recent' \in Seq(Nat) /\ Len(recent') = Kept /\ Pulses(0)' = 0
      /\ \A k \in 0 .. Kept - 1 : Pulses(k + 1)' = c + Pulses(k)
  BY HistoryShifts
<1>3. /\ head \in Place0 /\ rbuf \in [Place0 -> Count] /\ count \in 0 .. NumMax
      /\ head' = (IF head < NumMax - 1 THEN head + 1 ELSE 0)
      /\ rbuf' = [rbuf EXCEPT ![head'] = c]
      /\ count' \in 0 .. NumMax /\ count' <= count + 1
  BY RingKeeps DEF IInv, TypeOK, Second, update_ringbuffer
<1>. HIDE DEF c
<1>4. /\ head' \in Place0 /\ Back(head', 0) = head'
      /\ \A k \in 0 .. NumMax - 1 : Back(head', k + 1) = Back(head, k)
      /\ \A k \in 1 .. NumMax - 1 : Back(head', k) # head'
  BY <1>3, HeadAdvances
<1>5. Len(recent) \in Nat /\ \A k \in 0 .. Len(recent) : Pulses(k) \in Nat
  BY PulsesAreNumbers
<1>6. Kept \in Nat \ {0} /\ Kept <= Len(recent) + 1 /\ count' <= Kept
  BY <1>3, <1>5, StatsAssumption DEF Kept, RingHolds
<1>7. ASSUME NEW k \in 1 .. NumMax, k <= Kept
      PROVE  rbuf'[Back(head', k - 1)] = Pulses(k)' - Pulses(k - 1)'
  <2>1. CASE k = 1
    <3>1. Back(head', k - 1) = head' /\ rbuf'[head'] = c
      BY <1>3, <1>4, <2>1
    <3>2. Pulses(0 + 1)' = c + Pulses(0) /\ Pulses(0) = 0
      BY <1>2, <1>6 DEF Pulses
    <3>3. Pulses(k)' = c /\ Pulses(k - 1)' = 0
      BY <1>1, <1>2, <2>1, <3>2
    <3>. QED
      BY <1>1, <3>1, <3>3
  <2>2. CASE k # 1
    <3>. DEFINE j == k - 2
    <3>1. j \in 0 .. NumMax - 2 /\ j + 1 = k - 1 /\ j + 2 = k /\ j + 1 <= Len(recent)
      BY <1>5, <1>6, <1>7, <2>2, StatsAssumption
    <3>. HIDE DEF j
    <3>2. Back(head', j + 1) = Back(head, j) /\ Back(head', j + 1) # head'
      BY <1>4, <3>1, StatsAssumption
    <3>3. Back(head, j) \in Place0
      BY <1>3, <3>1, PlacesBack, StatsAssumption
    <3>4. rbuf'[Back(head', j + 1)] = rbuf[Back(head, j)]
      BY <1>3, <3>2, <3>3
    <3>5. rbuf[Back(head, (j + 1) - 1)] = Brought(j + 1) /\ (j + 1) - 1 = j
      BY <3>1, StatsAssumption DEF RingHolds
    <3>6. /\ Pulses(j + 1)' = c + Pulses(j) /\ Pulses((j + 1) + 1)' = c + Pulses(j + 1)
          /\ Pulses(j) \in Nat /\ Pulses(j + 1) \in Nat
      BY <1>2, <1>5, <1>6, <1>7, <3>1
    <3>7. \A a, b \in Nat : (c + b) - (c + a) = b - a
      BY <1>1
    <3>8. Pulses((j + 1) + 1)' - Pulses(j + 1)' = Pulses(j + 1) - Pulses(j)
      BY <3>6, <3>7
    <3>9. (j + 1) + 1 = k
      BY <3>1
    <3>. QED
      BY <3>1, <3>4, <3>5, <3>8, <3>9 DEF Brought
  <2>. QED
    BY <2>1, <2>2
<1>. QED
  BY <1>2, <1>6, <1>7 DEF RingHolds, Brought

(* What was summed up counts back from the copy, as before.                *)
LEMMA TotalsStay ==
  ASSUME IInv, RingHolds, NEW accu_counts \in Nat, Second(accu_counts), ticks' = ticks + 1
  PROVE  \A first, last \in Nat :
           /\ ticks + first > 0 /\ ticks + last < Kept /\ ticks + first <= Kept
           => Total(first, last)' = Total(first, last)
<1>. DEFINE c == accu_counts % (Base * Base)
<1>1. c \in Nat
  BY TwoBytes DEF Count
<1>2. \A k \in 0 .. Kept - 1 : Pulses(k + 1)' = c + Pulses(k)
  BY HistoryShifts
<1>. HIDE DEF c
<1>3. Len(recent) \in Nat /\ \A k \in 0 .. Len(recent) : Pulses(k) \in Nat
  BY PulsesAreNumbers
<1>4. Kept \in Nat \ {0} /\ Kept <= Len(recent) + 1 /\ ticks \in Nat
  BY <1>3, StatsAssumption DEF Kept, IInv, TypeOK
<1>. TAKE first, last \in Nat
<1>. HAVE ticks + first > 0 /\ ticks + last < Kept /\ ticks + first <= Kept
<1>5. PICK a \in 0 .. Kept - 1, b \in 0 .. Kept - 1 :
        a = ticks + first - 1 /\ b = ticks + last
  BY <1>4
<1>6. ticks' + last = b + 1 /\ ticks' + first - 1 = a + 1
  BY <1>4, <1>5
<1>7. Total(first, last) = Pulses(b) - Pulses(a)
  BY <1>5 DEF Total
<1>8. Total(first, last)' = Pulses(b + 1)' - Pulses(a + 1)'
  BY <1>6 DEF Total, Pulses
<1>9. /\ Pulses(a + 1)' = c + Pulses(a) /\ Pulses(b + 1)' = c + Pulses(b)
      /\ Pulses(a) \in Nat /\ Pulses(b) \in Nat
  BY <1>2, <1>3, <1>4, <1>5
<1>10. \A x, y \in Nat : (c + y) - (c + x) = y - x
  BY <1>1
<1>. QED
  BY <1>7, <1>8, <1>9, <1>10

(* Totals add up.                                                          *)
LEMMA TotalsAdd ==
  ASSUME IInv, RingHolds
  PROVE  \A first, middle, last \in Nat :
           /\ first > 0 /\ first <= middle + 1 /\ middle <= last /\ ticks + last <= Len(recent)
           => /\ Total(first, last) \in Int /\ Total(first, middle) \in Int
              /\ Total(middle + 1, last) \in Int
              /\ Total(first, last) = Total(first, middle) + Total(middle + 1, last)
<1>1. Len(recent) \in Nat /\ \A k \in 0 .. Len(recent) : Pulses(k) \in Nat
  BY PulsesAreNumbers
<1>2. ticks \in Nat
  BY DEF IInv, TypeOK
<1>. TAKE first, middle, last \in Nat
<1>. HAVE first > 0 /\ first <= middle + 1 /\ middle <= last /\ ticks + last <= Len(recent)
<1>3. PICK a \in 0 .. Len(recent), b \in 0 .. Len(recent), d \in 0 .. Len(recent) :
        a = ticks + first - 1 /\ b = ticks + middle /\ d = ticks + last
  BY <1>1, <1>2
<1>4. /\ Total(first, last) = Pulses(d) - Pulses(a)
      /\ Total(first, middle) = Pulses(b) - Pulses(a)
      /\ Total(middle + 1, last) = Pulses(d) - Pulses(b)
  <2>1. ticks + (middle + 1) - 1 = b
    BY <1>2, <1>3
  <2>. QED
    BY <1>3, <2>1 DEF Total
<1>5. Pulses(a) \in Nat /\ Pulses(b) \in Nat /\ Pulses(d) \in Nat
  BY <1>1, <1>3
<1>. DEFINE x == Pulses(a)  y == Pulses(b)  z == Pulses(d)
<1>. HIDE DEF x, y, z
<1>6. x \in Nat /\ y \in Nat /\ z \in Nat
  BY <1>5 DEF x, y, z
<1>7. /\ z - x \in Int /\ y - x \in Int /\ z - y \in Int
      /\ z - x = (y - x) + (z - y)
  BY <1>6
<1>. QED
  BY <1>4, <1>7 DEF x, y, z

LEMMA TotalsKept ==
  ASSUME UNCHANGED <<recent, ticks>>
  PROVE  (\A first, last : Total(first, last)' = Total(first, last)) /\ Oldest' = Oldest
BY DEF Total, Pulses, Oldest

(* Half the seconds averaged.                                              *)
LEMMA Halves ==
  ASSUME IInv, pc \notin {"poll", "copy"}
  PROVE  /\ num_proceed \in NumShort .. NumMax
         /\ Half \in 1 .. num_proceed - 1 /\ Half < NumMax
         /\ 2 * Half \in 2 .. num_proceed
BY StatsAssumption DEF IInv, TypeOK, Half

(* The element the walk is at.                                             *)
LEMMA ElementRead ==
  ASSUME IInv, RingHolds, Walk, MaxTicks <= 1, pc \in {"low", "high"}, i < num_proceed
  PROVE  /\ rbuf[current_pos] \in Nat
         /\ rbuf[current_pos] = IF ticks > 0 /\ i + 1 = NumMax THEN Total(0, 0)
                                ELSE Total(i + 1, i + 1)
<1>1. /\ head \in Place0 /\ current_pos \in Place0 /\ rbuf \in [Place0 -> Count]
      /\ i \in Nat /\ ticks \in Nat /\ num_proceed \in NumShort .. NumMax
      /\ MaxTicks \in Nat /\ NumMax \in Nat /\ NumShort \in Nat
  BY Halves, StatsAssumption DEF IInv, TypeOK
<1>2. /\ ticks \in 0 .. 1 /\ current_pos = Back(Back(head, ticks), i)
      /\ num_proceed + ticks <= Len(recent) /\ Len(recent) \in Nat
  BY <1>1, PulsesAreNumbers DEF Walk, Evaluating
<1>3. rbuf[current_pos] \in Nat
  BY <1>1 DEF Count
<1>4. CASE ticks > 0 /\ i + 1 = NumMax
  <2>1. current_pos = Back(head, 0)
    BY <1>1, <1>2, <1>4 DEF Back, Place0
  <2>2. rbuf[Back(head, 1 - 1)] = Brought(1)
    BY <1>1, <1>2, <1>4 DEF RingHolds
  <2>3. Brought(1) = Total(0, 0)
    BY <1>2, <1>4 DEF Brought, Total
  <2>. QED
    BY <1>3, <1>4, <2>1, <2>2, <2>3
<1>5. CASE ~(ticks > 0 /\ i + 1 = NumMax)
  <2>1. PICK k \in 1 .. NumMax : k = ticks + i + 1
    BY <1>1, <1>2, <1>5
  <2>2. current_pos = Back(head, k - 1) /\ k <= Len(recent)
    BY <1>1, <1>2, <2>1 DEF Back, Place0
  <2>3. rbuf[Back(head, k - 1)] = Brought(k)
    BY <2>2 DEF RingHolds
  <2>4. Total(i + 1, i + 1) = Brought(k)
    BY <1>1, <1>2, <2>1 DEF Brought, Total
  <2>. QED
    BY <1>3, <1>5, <2>2, <2>3, <2>4
<1>. QED
  BY <1>4, <1>5

LEMMA SecondSums ==
  ASSUME IInv, SumsInv, MaxTicks <= 1, NEW accu_counts \in Nat, Second(accu_counts)
  PROVE  SumsInv'
<1>1. RingHolds'
  BY SecondRings DEF SumsInv
<1>2. UNCHANGED <<interrupts, copy, pc, loop, sums, results>>
  BY DEF Second
<1>3. CASE ~Evaluating
  <2>. QED
    BY <1>1, <1>2, <1>3 DEF SumsInv, Walk, Walked, HalfRead, SumsAreOfNewest, Evaluating,
                            Evaluated
<1>4. CASE Evaluating
  <2>1. pc # "poll" /\ pc \notin {"poll", "copy"}
    BY <1>4 DEF Evaluating
  <2>2. /\ ticks = 0 /\ ticks' = 1 /\ MaxTicks = 1 /\ NumMax \in Nat /\ NumShort \in Nat
        /\ head \in Place0 /\ head' = (IF head < NumMax - 1 THEN head + 1 ELSE 0)
    BY <2>1, StatsAssumption DEF Second, IInv, TypeOK, update_ringbuffer
  <2>3. /\ num_proceed \in NumShort .. NumMax /\ Half \in 1 .. num_proceed - 1
        /\ 2 * Half \in 2 .. num_proceed /\ i \in 0 .. num_proceed
        /\ NumShort > 1 /\ NumShort < NumMax /\ Half < NumMax
        /\ pc = "high" => i < num_proceed
    BY <2>1, Halves, StatsAssumption DEF IInv, TypeOK
  <2>4. /\ Len(recent) \in Nat /\ num_proceed <= Len(recent) /\ num_proceed < Kept
        /\ Len(recent') = Kept /\ Kept \in Nat
    BY <1>4, <2>2, <2>3, PulsesAreNumbers, HistoryShifts DEF SumsInv, Walk, Kept
  <2>5. \A first \in 1 .. num_proceed + 1, last \in 0 .. num_proceed :
          Total(first, last)' = Total(first, last)
    <3>1. \A first, last \in Nat :
            /\ ticks + first > 0 /\ ticks + last < Kept /\ ticks + first <= Kept
            => Total(first, last)' = Total(first, last)
      BY <2>2, TotalsStay DEF SumsInv
    <3>. TAKE first \in 1 .. num_proceed + 1, last \in 0 .. num_proceed
    <3>2. /\ first \in Nat /\ last \in Nat /\ ticks + first > 0 /\ ticks + last < Kept
          /\ ticks + first <= Kept
      BY <2>2, <2>3, <2>4
    <3>. QED
      BY <3>1, <3>2, Zenon
  <2>6. UNCHANGED <<pc, num_proceed, i, current_pos, low_byte, sum_total, sum_short, sum_new2,
                    sum_old2, head_cpy>> /\ UNCHANGED Half
    BY <1>2 DEF copy, loop, sums, Half
  <2>. DEFINE Firsts == 1 .. num_proceed + 1  Lasts == 0 .. num_proceed
  <2>7. /\ 1 \in Firsts /\ Half + 1 \in Firsts /\ 2 * Half \in Firsts
        /\ NumShort \in Lasts /\ Half \in Lasts /\ 2 * Half \in Lasts /\ 2 * Half - 1 \in Lasts
        /\ num_proceed \in Lasts /\ i \in Lasts
    BY <2>2, <2>3
  <2>8. \A first \in Firsts, last \in Lasts : Total(first, last)' = Total(first, last)
    BY <2>5
  <2>. HIDE DEF Firsts, Lasts
  <2>9. Walk'
    <3>1. head_cpy = Back(head, 0) /\ (pc \in {"low", "high"} => current_pos = Back(head_cpy, i))
      BY <1>4, <2>2 DEF SumsInv, Walk
    <3>2. Back(head', 0 + 1) = Back(head, 0)
      BY <2>2, <2>3, HeadAdvances
    <3>. QED
      BY <2>2, <2>3, <2>4, <2>6, <3>1, <3>2 DEF Walk
  <2>10. ~Overwritten
    BY <2>2 DEF Overwritten
  <2>11. NumMax <= Len(recent) =>
          /\ Total(1, NumMax) = Total(1, NumMax - 1) + Total(NumMax, NumMax)
          /\ Total(1, NumMax - 1) \in Int /\ Total(NumMax, NumMax) \in Int
    <3>1. /\ 1 \in Nat /\ NumMax - 1 \in Nat /\ 1 <= (NumMax - 1) + 1 /\ NumMax - 1 <= NumMax
          /\ (NumMax - 1) + 1 = NumMax /\ 1 > 0 /\ ticks + NumMax = NumMax
      BY <2>2, <2>3
    <3>. QED
      BY <2>2, <3>1, TotalsAdd DEF SumsInv
  <2>12. num_proceed = NumMax => Total(NumMax, NumMax)' \in Oldest'
                                 /\ Total(NumMax, NumMax)' = Total(NumMax, NumMax)
                                 /\ Total(1, NumMax - 1)' = Total(1, NumMax - 1)
    BY <2>3, <2>5 DEF Oldest
  <2>13. HalfRead'
    <3>. SUFFICES ASSUME pc = "high" PROVE low_byte = Low(Total(i + 1, i + 1)')
      BY <2>6 DEF HalfRead
    <3>1. low_byte = Low(Total(i + 1, i + 1))
      BY <2>2 DEF SumsInv, Walked, HalfRead
    <3>2. Total(i + 1, i + 1)' = Total(i + 1, i + 1)
      BY <2>3, <2>5, <2>6
    <3>. QED
      BY <3>1, <3>2
  <2>14. ASSUME pc \in {"low", "high"} PROVE SumsSoFar'
    <3>1. SumsSoFar
      BY <2>14 DEF SumsInv, Walked
    <3>2. sum_total = Total(1, i)
      BY <2>2, <3>1 DEF SumsSoFar, Summed
    <3>3. Summed(i, sum_total)'
      <4>1. CASE i < NumMax
        BY <2>6, <2>7, <2>8, <3>2, <4>1 DEF Summed
      <4>2. CASE i = NumMax
        <5>1. num_proceed = NumMax /\ NumMax <= Len(recent)
          BY <2>3, <2>4, <4>2
        <5>2. sum_total = Total(1, NumMax - 1)' + Total(NumMax, NumMax)'
          BY <2>11, <2>12, <3>2, <4>2, <5>1
        <5>. QED
          BY <2>2, <2>6, <2>12, <4>2, <5>1, <5>2 DEF Summed
      <4>3. i < NumMax \/ i = NumMax
        BY <2>2, <2>3
      <4>. QED
        BY <4>1, <4>2, <4>3
    <3>4. /\ Total(1, NumShort)' = Total(1, NumShort) /\ Total(1, Half)' = Total(1, Half)
          /\ Total(1, 2 * Half)' = Total(1, 2 * Half)
      BY <2>6, <2>7, <2>8
    <3>. QED
      BY <2>6, <3>1, <3>3, <3>4 DEF SumsSoFar
  <2>15. ASSUME Evaluated PROVE SumsAreOfNewest'
    <3>1. /\ sum_short = Total(1, NumShort) /\ sum_new2 = Total(1, Half)
          /\ sum_total = Total(1, num_proceed) /\ sum_old2 = Total(Half + 1, 2 * Half)
      BY <2>10, <2>15 DEF SumsInv, SumsAreOfNewest
    <3>2. /\ Total(1, NumShort)' = Total(1, NumShort) /\ Total(1, Half)' = Total(1, Half)
          /\ Total(1, num_proceed)' = Total(1, num_proceed)
          /\ Total(Half + 1, 2 * Half)' = Total(Half + 1, 2 * Half)
          /\ Total(Half + 1, 2 * Half - 1)' = Total(Half + 1, 2 * Half - 1)
          /\ Total(2 * Half, 2 * Half)' = Total(2 * Half, 2 * Half)
      BY <2>6, <2>7, <2>8
    <3>3. num_proceed' + ticks' <= Len(recent')
      BY <2>2, <2>3, <2>4, <2>6
    <3>4. CASE num_proceed # NumMax
      BY <2>2, <2>6, <3>1, <3>2, <3>3, <3>4 DEF SumsAreOfNewest, Overwritten
    <3>5. CASE num_proceed = NumMax
      <4>1. sum_total = Total(1, NumMax - 1)' + Total(NumMax, NumMax)'
        BY <2>4, <2>11, <2>12, <3>1, <3>5
      <4>2. Total(Half + 1, 2 * Half) = Total(Half + 1, 2 * Half - 1) + Total(2 * Half, 2 * Half)
        <5>1. PICK h \in Nat, m \in Nat, l \in Nat : h = Half + 1 /\ m = 2 * Half - 1 /\ l = 2 * Half
          BY <2>3
        <5>2. h > 0 /\ h <= m + 1 /\ m <= l /\ ticks + l <= Len(recent) /\ m + 1 = l
          BY <2>2, <2>3, <2>4, <5>1
        <5>3. Total(h, l) = Total(h, m) + Total(m + 1, l)
          BY <5>2, TotalsAdd DEF SumsInv
        <5>. QED
          BY <5>1, <5>2, <5>3
      <4>3. sum_old2 = Total(Half + 1, 2 * Half - 1)'
                       + (IF 2 * Half = NumMax THEN Total(NumMax, NumMax)'
                          ELSE Total(2 * Half, 2 * Half)')
        <5>1. CASE 2 * Half = NumMax
          BY <2>12, <3>1, <3>2, <3>5, <4>2, <5>1
        <5>2. CASE 2 * Half # NumMax
          BY <3>1, <3>2, <4>2, <5>2
        <5>. QED
          BY <5>1, <5>2
      <4>4. /\ sum_total' = Total(1, NumMax - 1)' + Total(NumMax, NumMax)'
            /\ sum_old2' = Total(Half + 1, 2 * Half - 1)'
                           + (IF 2 * Half' = NumMax THEN Total(NumMax, NumMax)'
                              ELSE Total(2 * Half, 2 * Half)')
        BY <2>6, <4>1, <4>3
      <4>. QED
        BY <2>6, <2>12, <3>1, <3>2, <3>3, <3>5, <4>4 DEF SumsAreOfNewest, Overwritten
    <3>. QED
      BY <3>4, <3>5
  <2>. QED
    BY <1>1, <2>6, <2>9, <2>13, <2>14, <2>15 DEF SumsInv, Walked, SumsAreOfNewest, Evaluated
<1>. QED
  BY <1>3, <1>4

(* The first element may be read, and nothing has been summed up.          *)
LEMMA CopySums ==
  ASSUME IInv, SumsInv, Copy
  PROVE  SumsInv'
<1>1. /\ UNCHANGED <<head, count, rbuf, recent>> /\ head_cpy' = head /\ ticks' = 0
      /\ head \in Place0 /\ count \in 0 .. NumMax /\ NumMax \in Nat /\ NumShort \in Nat
      /\ NumShort > 1 /\ pc' \in {"poll", "low"}
  BY StatsAssumption DEF Copy, Goto, ring, IInv, TypeOK
<1>2. RingHolds'
  BY <1>1 DEF SumsInv, RingHolds, Brought, Pulses
<1>3. CASE pc' = "poll"
  BY <1>2, <1>3 DEF SumsInv, Walk, Walked, HalfRead, SumsAreOfNewest, Evaluating, Evaluated
<1>4. CASE pc' = "low"
  <2>1. /\ i' = 0 /\ current_pos' = head /\ sum_total' = 0 /\ num_proceed' <= count
        /\ num_proceed' \in NumShort .. NumMax
    <3>1. /\ count >= NumShort /\ i' = 0 /\ current_pos' = head /\ sum_total' = 0
          /\ num_proceed' = (IF avrg_len(state_range') <= count THEN avrg_len(state_range')
                             ELSE count)
      BY <1>4 DEF Copy, Goto
    <3>2. avrg_len(state_range') \in Nat
      BY StatsAssumption DEF avrg_len
    <3>3. num_proceed' \in NumShort .. NumMax
      BY <1>1, <3>1, Proceeds
    <3>. QED
      BY <1>1, <3>1, <3>2, <3>3
  <2>2. count <= Len(recent) /\ Len(recent) \in Nat
    BY PulsesAreNumbers DEF SumsInv, RingHolds
  <2>3. Walk'
    <3>1. Back(head, 0) = head
      BY <1>1, PlacesBack
    <3>. QED
      BY <1>1, <2>1, <2>2, <3>1, StatsAssumption DEF Walk
  <2>4. Total(1, 0)' = 0 /\ Half' \in Nat \ {0}
    <3>1. ticks' + 0 = ticks' + 1 - 1
      BY <1>1
    <3>2. Pulses(0)' = 0
      BY DEF Pulses
    <3>3. Total(1, 0)' = 0
      BY <1>1 DEF Total, Pulses
    <3>4. \A n \in Nat : n > 1 => n \div 2 \in Nat \ {0}
      OBVIOUS
    <3>5. num_proceed' \in Nat /\ num_proceed' > 1
      BY <1>1, <2>1
    <3>. QED
      BY <3>3, <3>4, <3>5 DEF Half
  <2>5. SumsSoFar'
    <3>1. ~(i' >= NumShort) /\ ~(i' >= Half') /\ ~(i' >= 2 * Half')
      <4>1. \A h \in Nat \ {0} : ~(0 >= h) /\ ~(0 >= 2 * h)
        OBVIOUS
      <4>2. NumShort \in Nat \ {0}
        BY <1>1
      <4>. QED
        BY <2>1, <2>4, <4>1, <4>2
    <3>2. Summed(i, sum_total)'
      BY <1>1, <2>1, <2>4 DEF Summed
    <3>. QED
      BY <3>1, <3>2 DEF SumsSoFar
  <2>. QED
    BY <1>2, <1>4, <2>3, <2>5 DEF SumsInv, Walked, HalfRead, SumsAreOfNewest, Evaluated
<1>. QED
  BY <1>1, <1>3, <1>4

(* The low byte.                                                           *)
LEMMA LowSums ==
  ASSUME IInv, SumsInv, MaxTicks <= 1, ReadLow
  PROVE  SumsInv'
<1>1. /\ pc = "low" /\ pc' = "high" /\ i < num_proceed /\ low_byte' = Low(rbuf[current_pos])
      /\ UNCHANGED <<head, count, rbuf, head_cpy, recent, ticks, i, num_proceed, current_pos,
                     sum_total, sum_short, sum_new2, sum_old2>>
      /\ UNCHANGED Half
  BY DEF ReadLow, Goto, ring, copy, sums, history, Half
<1>2. RingHolds'
  BY <1>1 DEF SumsInv, RingHolds, Brought, Pulses
<1>3. Walk'
  BY <1>1 DEF SumsInv, Walk, Evaluating
<1>4. (\A first, last : Total(first, last)' = Total(first, last)) /\ Oldest' = Oldest
  BY <1>1, TotalsKept
<1>5. SumsSoFar'
  <2>1. SumsSoFar
    BY <1>1 DEF SumsInv, Walked
  <2>. QED
    BY <1>1, <1>4, <2>1 DEF SumsSoFar, Summed
<1>6. HalfRead'
  <2>1. rbuf[current_pos] = IF ticks > 0 /\ i + 1 = NumMax THEN Total(0, 0)
                            ELSE Total(i + 1, i + 1)
    BY <1>1, ElementRead DEF SumsInv
  <2>2. i' + 1 = i + 1
    BY <1>1
  <2>3. Total(i + 1, i + 1)' = Total(i + 1, i + 1) /\ Total(0, 0)' = Total(0, 0)
    BY <1>1, <1>4
  <2>. QED
    BY <1>1, <2>1, <2>2, <2>3 DEF HalfRead
<1>. QED
  BY <1>1, <1>2, <1>3, <1>5, <1>6 DEF SumsInv, Walked, SumsAreOfNewest, Evaluated

(* Both bytes: the element, or one in which the bytes of two seconds meet. *)
LEMMA HighElement ==
  ASSUME IInv, SumsInv, MaxTicks <= 1, pc = "high"
  PROVE  LET element == Join(low_byte, High(rbuf[current_pos])) IN
         IF ticks = 0 \/ i + 1 < NumMax THEN element = Total(i + 1, i + 1)
         ELSE element \in Oldest
<1>. DEFINE old == Total(i + 1, i + 1)  new == Total(0, 0)
<1>1. /\ ticks \in 0 .. 1 /\ i \in Nat /\ i < num_proceed /\ num_proceed <= NumMax
      /\ NumMax \in Nat /\ num_proceed \in Nat
  BY Halves, StatsAssumption DEF IInv, TypeOK, SumsInv, Walk, Evaluating
<1>2. /\ rbuf[current_pos] \in Nat
      /\ rbuf[current_pos] = IF ticks > 0 /\ i + 1 = NumMax THEN new ELSE old
  BY <1>1, ElementRead DEF SumsInv
<1>3. \/ low_byte = Low(old)
      \/ i + 1 = NumMax /\ ticks > 0 /\ low_byte = Low(new)
  BY DEF SumsInv, Walked, HalfRead
<1>4. CASE ticks = 0 \/ i + 1 < NumMax
  <2>1. rbuf[current_pos] = old /\ low_byte = Low(old) /\ old \in Nat
    BY <1>1, <1>2, <1>3, <1>4
  <2>2. Join(Low(old), High(old)) = old
    BY <2>1, BytesJoin
  <2>. QED
    BY <1>4, <2>1, <2>2
<1>5. CASE ~(ticks = 0 \/ i + 1 < NumMax)
  <2>1. i + 1 = NumMax /\ ticks > 0 /\ rbuf[current_pos] = new /\ new \in Nat
    BY <1>1, <1>2, <1>5
  <2>2. Join(Low(new), High(new)) = new
    BY <2>1, BytesJoin
  <2>3. Oldest = {old, new, Join(Low(old), High(new)), Join(Low(new), High(old))}
    BY <2>1 DEF Oldest
  <2>. QED
    BY <1>3, <1>5, <2>1, <2>2, <2>3
<1>. QED
  BY <1>4, <1>5

LEMMA HighSums ==
  ASSUME IInv, SumsInv, MaxTicks <= 1, ReadHigh
  PROVE  SumsInv'
<1>. DEFINE element == Join(low_byte, High(rbuf[current_pos]))
<1>1. /\ pc = "high" /\ pc' = "low" /\ i' = i + 1
      /\ sum_total' = sum_total + element
      /\ current_pos' = (IF current_pos > 0 THEN current_pos - 1 ELSE NumMax - 1)
      /\ sum_new2' = (IF i' = Half THEN sum_total' ELSE sum_new2)
      /\ sum_old2' = (IF i' = 2 * Half THEN sum_total' ELSE sum_old2)
      /\ sum_short' = (IF i' = NumShort THEN sum_total' ELSE sum_short)
      /\ UNCHANGED <<head, count, rbuf, head_cpy, recent, ticks, num_proceed>>
      /\ UNCHANGED Half
  BY DEF ReadHigh, Goto, ring, copy, history, Half
<1>2. IF ticks = 0 \/ i + 1 < NumMax THEN element = Total(i + 1, i + 1) ELSE element \in Oldest
  BY <1>1, HighElement
<1>. HIDE DEF element
<1>3. /\ ticks \in 0 .. 1 /\ i \in Nat /\ i < num_proceed /\ num_proceed <= NumMax
      /\ NumMax \in Nat /\ NumShort \in Nat /\ NumShort < NumMax /\ num_proceed \in Nat
      /\ Half \in Nat \ {0} /\ Half < NumMax /\ 2 * Half \in Nat /\ 2 * Half <= num_proceed
      /\ head_cpy \in Place0
  BY <1>1, Halves, StatsAssumption DEF IInv, TypeOK, SumsInv, Walk, Evaluating
<1>4. RingHolds'
  BY <1>1 DEF SumsInv, RingHolds, Brought, Pulses
<1>5. Walk'
  <2>1. /\ ticks <= MaxTicks /\ head_cpy = Back(head, ticks)
        /\ num_proceed + ticks <= Len(recent) /\ current_pos = Back(head_cpy, i)
    BY <1>1 DEF SumsInv, Walk, Evaluating
  <2>2. current_pos' = Back(head_cpy, i + 1)
    BY <1>1, <1>3, <2>1, PlacesBack
  <2>. QED
    BY <1>1, <2>1, <2>2 DEF Walk
<1>6. (\A first, last : Total(first, last)' = Total(first, last)) /\ Oldest' = Oldest
  BY <1>1, TotalsKept
<1>7. SumsSoFar
  BY <1>1 DEF SumsInv, Walked
<1>8. sum_total = Total(1, i)
  BY <1>3, <1>7 DEF SumsSoFar, Summed
<1>9. Summed(i + 1, sum_total')
  <2>1. CASE ticks = 0 \/ i + 1 < NumMax
    <3>1. Total(1, i + 1) = Total(1, i) + Total(i + 1, i + 1)
      <4>1. PICK j \in Nat, k \in Nat : j = i /\ k = i + 1
        BY <1>3
      <4>2. 1 > 0 /\ 1 <= j + 1 /\ j <= k /\ ticks + k <= Len(recent) /\ j + 1 = k
        BY <1>1, <1>3, <4>1, PulsesAreNumbers DEF SumsInv, Walk, Evaluating
      <4>3. Total(1, k) = Total(1, j) + Total(j + 1, k)
        BY <4>2, TotalsAdd DEF SumsInv
      <4>. QED
        BY <4>1, <4>2, <4>3
    <3>. QED
      BY <1>1, <1>2, <1>8, <2>1, <3>1 DEF Summed
  <2>2. CASE ~(ticks = 0 \/ i + 1 < NumMax)
    <3>1. i = NumMax - 1
      BY <1>3, <2>2
    <3>. QED
      BY <1>1, <1>2, <1>8, <2>2, <3>1 DEF Summed
  <2>. QED
    BY <2>1, <2>2
<1>10. \A k \in Nat : i + 1 = k /\ k < NumMax => sum_total' = Total(1, k)
  BY <1>9 DEF Summed
<1>11. Summed(i, sum_total)'
  BY <1>1, <1>6, <1>9 DEF Summed
<1>12. i + 1 >= NumShort => sum_short' = Total(1, NumShort)
  <2>1. CASE i + 1 = NumShort
    BY <1>1, <1>3, <1>10, <2>1
  <2>2. CASE i >= NumShort
    <3>1. i' # NumShort
      BY <1>1, <1>3, <2>2
    <3>. QED
      BY <1>1, <1>7, <2>2, <3>1 DEF SumsSoFar
  <2>. QED
    BY <1>3, <2>1, <2>2
<1>13. i + 1 >= Half => sum_new2' = Total(1, Half)
  <2>1. CASE i + 1 = Half
    BY <1>1, <1>3, <1>10, <2>1
  <2>2. CASE i >= Half
    <3>1. i' # Half
      BY <1>1, <1>3, <2>2
    <3>. QED
      BY <1>1, <1>7, <2>2, <3>1 DEF SumsSoFar
  <2>. QED
    BY <1>3, <2>1, <2>2
<1>14. i + 1 >= 2 * Half =>
         sum_old2' = (IF 2 * Half = NumMax THEN sum_total' ELSE Total(1, 2 * Half))
  <2>1. CASE i + 1 = 2 * Half
    <3>1. 2 * Half = NumMax \/ 2 * Half < NumMax
      BY <1>3
    <3>. QED
      BY <1>1, <1>3, <1>10, <2>1, <3>1
  <2>2. CASE i >= 2 * Half
    <3>1. i' # 2 * Half /\ 2 * Half # NumMax
      BY <1>1, <1>3, <2>2
    <3>. QED
      BY <1>1, <1>7, <2>2, <3>1 DEF SumsSoFar
  <2>. QED
    BY <1>3, <2>1, <2>2
<1>15. SumsSoFar'
  <2>1. /\ Total(1, NumShort)' = Total(1, NumShort) /\ Total(1, Half)' = Total(1, Half)
        /\ Total(1, 2 * Half)' = Total(1, 2 * Half)
    BY <1>1, <1>6
  <2>. QED
    BY <1>1, <1>11, <1>12, <1>13, <1>14, <2>1 DEF SumsSoFar
<1>. QED
  BY <1>1, <1>4, <1>5, <1>15 DEF SumsInv, Walked, HalfRead, SumsAreOfNewest, Evaluated

(* Whatever two bytes meet, they make a number.                            *)
LEMMA ValuesAreNumbers ==
  ASSUME IInv, SumsInv, ticks = 1, NumMax + 1 <= Len(recent)
  PROVE  \A value \in Oldest : value \in Int
<1>1. /\ NumMax \in Nat \ {0} /\ Base \in Nat \ {0} /\ head \in Place0
      /\ rbuf \in [Place0 -> Count] /\ Len(recent) \in Nat
  BY StatsAssumption, PulsesAreNumbers DEF IInv, TypeOK, SumsInv
<1>2. \A k \in 0 .. Len(recent) : Pulses(k) \in Nat
  BY PulsesAreNumbers DEF SumsInv
<1>3. Total(NumMax, NumMax) \in Int /\ Total(0, 0) \in Int
  <2>1. /\ Total(NumMax, NumMax) = Pulses(NumMax + 1) - Pulses(NumMax)
        /\ Total(0, 0) = Pulses(1) - Pulses(0)
    BY <1>1 DEF Total
  <2>2. /\ Pulses(NumMax + 1) \in Nat /\ Pulses(NumMax) \in Nat /\ Pulses(1) \in Nat
        /\ Pulses(0) \in Nat
    BY <1>1, <1>2
  <2>. QED
    BY <2>1, <2>2
<1>4. \A a, b \in Int : Join(Low(a), High(b)) \in Int
  <2>. TAKE a, b \in Int
  <2>1. a % Base \in Int /\ b \div Base \in Int
    BY <1>1
  <2>. QED
    BY <1>1, <2>1 DEF Join, Low, High
<1>. QED
  BY <1>3, <1>4 DEF Oldest

(* The end of the walk: the difference of the sums is that of the older    *)
(* half.                                                                   *)
LEMMA EstimateSums ==
  ASSUME IInv, SumsInv, MaxTicks <= 1, Estimate
  PROVE  SumsInv'
<1>1. /\ pc = "low" /\ pc' = "short" /\ i = num_proceed /\ sum_old2' = sum_old2 - sum_new2
      /\ UNCHANGED <<head, count, rbuf, head_cpy, recent, ticks, num_proceed, i, sum_total,
                     sum_short, sum_new2>>
      /\ UNCHANGED Half /\ UNCHANGED Overwritten
  BY DEF Estimate, Goto, ring, copy, loop, history, Half, Overwritten
<1>2. RingHolds'
  BY <1>1 DEF SumsInv, RingHolds, Brought, Pulses
<1>3. Walk'
  BY <1>1 DEF SumsInv, Walk, Evaluating
<1>4. (\A first, last : Total(first, last)' = Total(first, last)) /\ Oldest' = Oldest
  BY <1>1, TotalsKept
<1>5. SumsSoFar
  BY <1>1 DEF SumsInv, Walked
<1>6. /\ ticks \in 0 .. 1 /\ num_proceed \in Nat /\ num_proceed <= NumMax /\ NumMax \in Nat
      /\ NumShort \in Nat /\ NumShort <= num_proceed /\ Half \in Nat \ {0}
      /\ Half < num_proceed /\ 2 * Half <= num_proceed /\ num_proceed + ticks <= Len(recent)
      /\ Len(recent) \in Nat
  BY <1>1, Halves, StatsAssumption, PulsesAreNumbers
     DEF IInv, TypeOK, SumsInv, Walk, Evaluating
<1>7. /\ sum_short = Total(1, NumShort) /\ sum_new2 = Total(1, Half)
      /\ sum_old2 = (IF 2 * Half = NumMax THEN sum_total ELSE Total(1, 2 * Half))
  BY <1>1, <1>5, <1>6 DEF SumsSoFar
<1>. DEFINE Difference(first, middle, last) ==
       /\ Total(first, last) \in Int /\ Total(first, middle) \in Int
       /\ Total(middle + 1, last) \in Int
       /\ Total(first, last) = Total(first, middle) + Total(middle + 1, last)
<1>8. \A first, middle, last \in Nat :
        /\ first > 0 /\ first <= middle + 1 /\ middle <= last /\ last <= num_proceed
        => Difference(first, middle, last)
  <2>. TAKE first, middle, last \in Nat
  <2>. HAVE first > 0 /\ first <= middle + 1 /\ middle <= last /\ last <= num_proceed
  <2>1. ticks + last <= Len(recent)
    BY <1>6
  <2>. QED
    BY <2>1, TotalsAdd DEF SumsInv
<1>9. PICK h \in Nat, k \in Nat, m \in Nat : h = Half /\ k = 2 * Half /\ m = 2 * Half - 1
  BY <1>6
<1>10. h > 0 /\ h <= m /\ m + 1 = k /\ m <= k /\ h <= k /\ k <= num_proceed
  BY <1>6, <1>9
<1>11. Difference(1, h, k) /\ Difference(1, h, m) /\ Difference(h + 1, m, k)
  <2>1. /\ 1 > 0 /\ 1 <= h + 1 /\ m <= num_proceed /\ h + 1 > 0 /\ h + 1 <= m + 1
        /\ h + 1 \in Nat /\ 1 \in Nat
    BY <1>6, <1>10
  <2>. QED
    BY <1>8, <1>10, <2>1
<1>12. CASE ~Overwritten
  <2>1. sum_total = Total(1, num_proceed)
    BY <1>1, <1>5, <1>6, <1>12 DEF SumsSoFar, Summed, Overwritten
  <2>2. sum_old2 = Total(1, k)
    <3>1. CASE 2 * Half = NumMax
      <4>1. k = num_proceed
        BY <1>6, <1>9, <3>1
      <4>. QED
        BY <1>7, <2>1, <3>1, <4>1
    <3>2. CASE 2 * Half # NumMax
      BY <1>7, <1>9, <3>2
    <3>. QED
      BY <3>1, <3>2
  <2>3. sum_old2' = Total(h + 1, k)
    <3>1. sum_old2' = Total(1, k) - Total(1, h)
      BY <1>1, <1>7, <1>9, <2>2
    <3>2. \A x, y \in Int : (x + y) - x = y
      OBVIOUS
    <3>3. /\ Total(1, k) = Total(1, h) + Total(h + 1, k)
          /\ Total(1, h) \in Int /\ Total(h + 1, k) \in Int
      BY <1>11
    <3>. QED
      BY <3>1, <3>2, <3>3
  <2>. QED
    BY <1>1, <1>2, <1>3, <1>4, <1>6, <1>7, <1>9, <1>12, <2>1, <2>3
       DEF SumsInv, Walked, HalfRead, SumsAreOfNewest
<1>13. CASE Overwritten
  <2>1. num_proceed = NumMax /\ ticks > 0
    BY <1>13 DEF Overwritten
  <2>2. PICK value \in Oldest : sum_total = Total(1, NumMax - 1) + value
    BY <1>1, <1>5, <1>6, <2>1 DEF SumsSoFar, Summed
  <2>3. value \in Int
    BY ValuesAreNumbers, <1>1, <1>6, <2>1 DEF SumsInv
  <2>4. sum_old2' = Total(h + 1, m) + (IF k = NumMax THEN value ELSE Total(k, k))
    <3>1. \A x, y, z \in Int : ((x + y) + z) - x = y + z
      OBVIOUS
    <3>2. CASE k = NumMax
      <4>1. sum_old2' = (Total(1, m) + value) - Total(1, h)
        <5>1. NumMax - 1 = m
          BY <1>6, <1>10, <3>2
        <5>. QED
          BY <1>1, <1>7, <1>9, <2>2, <3>2, <5>1
      <4>2. Total(1, m) = Total(1, h) + Total(h + 1, m) /\ Total(1, h) \in Int
            /\ Total(h + 1, m) \in Int
        BY <1>11
      <4>. QED
        BY <2>3, <3>1, <3>2, <4>1, <4>2
    <3>3. CASE k # NumMax
      <4>1. sum_old2' = Total(1, k) - Total(1, h)
        BY <1>1, <1>7, <1>9, <3>3
      <4>2. /\ Total(1, k) = Total(1, h) + Total(h + 1, k)
            /\ Total(h + 1, k) = Total(h + 1, m) + Total(k, k)
            /\ Total(1, h) \in Int /\ Total(h + 1, m) \in Int /\ Total(k, k) \in Int
        BY <1>10, <1>11
      <4>3. Total(1, k) = Total(1, h) + (Total(h + 1, m) + Total(k, k))
        BY <4>2
      <4>4. \A x, y, z \in Int : (x + (y + z)) - x = y + z
        OBVIOUS
      <4>. QED
        BY <3>3, <4>1, <4>2, <4>3, <4>4
    <3>. QED
      BY <3>2, <3>3
  <2>5. /\ sum_total' = Total(1, NumMax - 1)' + value
        /\ sum_old2' = Total(Half + 1, 2 * Half - 1)'
                       + (IF 2 * Half' = NumMax THEN value ELSE Total(2 * Half, 2 * Half)')
    BY <1>1, <1>4, <1>9, <2>2, <2>4
  <2>. QED
    BY <1>1, <1>2, <1>3, <1>4, <1>6, <1>7, <1>13, <2>2, <2>5
       DEF SumsInv, Walked, HalfRead, SumsAreOfNewest
<1>. QED
  BY <1>12, <1>13

(* What leaves the evaluation alone.                                       *)
LEMMA EvaluationUntouched ==
  ASSUME SumsInv,
         UNCHANGED <<head, count, rbuf, head_cpy, pc, num_proceed, i, current_pos, low_byte,
                     sum_total, sum_short, sum_new2, sum_old2, recent, ticks>>
  PROVE  SumsInv'
BY DEF SumsInv, RingHolds, Brought, Walk, Evaluating, Walked, SumsSoFar, Summed, HalfRead,
       SumsAreOfNewest, Evaluated, Overwritten, Oldest, Total, Pulses, Half

(* The tests may make the record start again, with as many seconds as have *)
(* been summed up at least.                                                *)
LEMMA TestSums ==
  ASSUME IInv, SumsInv, Display \/ TestShort \/ TestHalves
  PROVE  SumsInv'
<1>1. /\ UNCHANGED <<head, rbuf, recent>>
      /\ count' = count \/ (pc \in {"short", "halves"} /\ count' = NumShort)
  BY DEF Display, TestShort, TestHalves, Test, Keep, Restart, ring
<1>2. RingHolds'
  <2>1. count' <= Len(recent)
    <3>1. CASE pc \in {"short", "halves"}
      <4>1. num_proceed \in NumShort .. NumMax /\ ticks \in Nat
        BY <3>1, Halves DEF IInv, TypeOK
      <4>2. num_proceed + ticks <= Len(recent) /\ Len(recent) \in Nat
        BY <3>1, PulsesAreNumbers DEF SumsInv, Walk, Evaluating
      <4>. QED
        BY <1>1, <4>1, <4>2, StatsAssumption DEF SumsInv, RingHolds
    <3>. QED
      BY <1>1, <3>1 DEF SumsInv, RingHolds
  <2>. QED
    BY <1>1, <2>1 DEF SumsInv, RingHolds, Brought, Pulses
<1>3. CASE Display \/ TestHalves
  <2>1. pc' \in {"copy", "poll"}
    BY <1>3 DEF Display, TestHalves, Test, Goto
  <2>. QED
    BY <1>2, <2>1 DEF SumsInv, Walk, Walked, HalfRead, SumsAreOfNewest, Evaluating, Evaluated
<1>4. CASE TestShort
  <2>1. /\ pc = "short" /\ pc' = "halves"
        /\ UNCHANGED <<head, head_cpy, num_proceed, i, sum_total, sum_short, sum_new2, sum_old2,
                       recent, ticks>>
    BY <1>4 DEF TestShort, Test, Goto, copy, loop, sums
  <2>2. Walk'
    BY <2>1 DEF SumsInv, Walk, Evaluating
  <2>3. SumsAreOfNewest'
    BY <2>1 DEF SumsInv, SumsAreOfNewest, Evaluated, Overwritten, Oldest, Total, Pulses, Half
  <2>. QED
    BY <1>2, <2>1, <2>2, <2>3 DEF SumsInv, Walked, HalfRead
<1>. QED
  BY <1>3, <1>4

LEMMA SumsStart == Init => SumsInv
<1>. SUFFICES ASSUME Init PROVE SumsInv
  OBVIOUS
<1>1. recent \in Seq(Nat) /\ Len(recent) = 0 /\ count = 0 /\ pc = "poll"
  BY EmptySeq DEF Init
<1>2. RingHolds
  BY <1>1 DEF RingHolds
<1>. QED
  BY <1>1, <1>2 DEF SumsInv, Walk, Walked, HalfRead, SumsAreOfNewest, Evaluating, Evaluated

(***************************************************************************)
(* get_stats() sums up the pulses of the newest seconds while the          *)
(* interrupt goes on writing, as long as no more than one second passes    *)
(* until it is through.                                                    *)
(***************************************************************************)
THEOREM SumsOfNewest ==
  ASSUME MaxTicks <= 1
  PROVE  Spec => []SumsAreOfNewest
<1>1. Init => SumsInv
  BY SumsStart
<1>2. IInv /\ SumsInv /\ Next => SumsInv'
  <2>. SUFFICES ASSUME IInv, SumsInv, Next PROVE SumsInv'
    OBVIOUS
  <2>1. CASE display_count_stats
    BY <2>1, CopySums, LowSums, HighSums, EstimateSums, TestSums DEF display_count_stats
  <2>2. CASE Pulse \/ GateInterrupt \/ Over
    BY <2>2, EvaluationUntouched DEF Pulse, GateInterrupt, Over, ring, copy, loop, sums, history
  <2>3. ASSUME NEW accu_counts \in Counts, Second(accu_counts) PROVE SumsInv'
    BY <2>3, SecondSums, StatsAssumption
  <2>. QED
    BY <2>1, <2>2, <2>3 DEF Next
<1>3. SumsInv /\ UNCHANGED vars => SumsInv'
  BY EvaluationUntouched DEF vars, ring, copy, loop, sums, history
<1>4. SumsInv => SumsAreOfNewest
  BY DEF SumsInv
<1>. QED
  BY <1>1, <1>2, <1>3, <1>4, Invariant, PTL DEF Spec

-----------------------------------------------------------------------------
(***************************************************************************)
(* The numbers: what is printed reads back as what it was made of, and the *)
(* error in percent is right. Two recursive functions stand behind it, of  *)
(* which the prover has to be shown that there are such functions.         *)
(***************************************************************************)
(* There is a function as recursive as an initial value and steps are.     *)
Recurs(f, S, n, first, step) ==
  /\ \A k \in 0 .. n : f[k] \in S
  /\ f = [k \in 0 .. n |-> IF k = 0 THEN first ELSE step[k][f[k - 1]]]

LEMMA Recursion ==
  ASSUME NEW S, NEW first \in S, NEW n \in Nat, NEW step \in [1 .. n -> [S -> S]]
  PROVE  \E f : Recurs(f, S, n, first, step)
<1>. USE DEF Recurs
<1>. DEFINE Upto(m, f) == Recurs(f, S, m, first, step)
            T == {m \in 0 .. n : \E f : Upto(m, f)}
<1>1. 0 \in T
  <2>1. Upto(0, [k \in 0 .. 0 |-> first])
    OBVIOUS
  <2>2. 0 \in 0 .. n
    OBVIOUS
  <2>. QED
    BY <2>1, <2>2, Zenon
<1>2. ASSUME NEW m \in 0 .. n - 1, m \in T PROVE m + 1 \in T
  <2>1. PICK f : Upto(m, f)
    BY <1>2
  <2>2. PICK last \in S : last = step[m + 1][f[m]]
    <3>1. m + 1 \in 1 .. n /\ m \in 0 .. m
      OBVIOUS
    <3>2. f[m] \in S /\ step[m + 1] \in [S -> S]
      BY <2>1, <3>1, Zenon
    <3>. QED
      BY <3>2, Zenon
  <2>3. PICK g : g = [k \in 0 .. m + 1 |-> IF k = m + 1 THEN last ELSE f[k]]
    OBVIOUS
  <2>4. ASSUME NEW k \in 0 .. m + 1
        PROVE  g[k] \in S /\ g[k] = IF k = 0 THEN first ELSE step[k][g[k - 1]]
    <3>1. CASE k = m + 1
      <4>1. m + 1 # 0 /\ (m + 1) - 1 = m /\ m \in 0 .. m + 1 /\ m # m + 1
        OBVIOUS
      <4>2. g[m] = f[m] /\ g[m + 1] = last
        BY <2>3, <4>1, <3>1, Zenon
      <4>. QED
        BY <2>2, <3>1, <4>1, <4>2, Zenon
    <3>2. CASE k # m + 1
      <4>1. k \in 0 .. m /\ (k # 0 => k - 1 \in 0 .. m + 1 /\ k - 1 # m + 1)
        BY <3>2
      <4>2. g[k] = f[k] /\ (k # 0 => g[k - 1] = f[k - 1])
        BY <2>3, <3>2, <4>1, Zenon
      <4>3. f[k] \in S /\ f[k] = IF k = 0 THEN first ELSE step[k][f[k - 1]]
        BY <2>1, <4>1, Zenon
      <4>. QED
        BY <4>2, <4>3, Zenon
    <3>. QED
      BY <3>1, <3>2
  <2>5. g = [k \in 0 .. m + 1 |-> IF k = 0 THEN first ELSE step[k][g[k - 1]]]
    <3>1. g = [k \in 0 .. m + 1 |-> g[k]]
      BY <2>3, Zenon
    <3>. QED
      BY <2>4, <3>1, Zenon
  <2>6. Upto(m + 1, g) /\ m + 1 \in 0 .. n
    <3>1. m + 1 \in 0 .. n
      OBVIOUS
    <3>. QED
      BY <2>4, <2>5, <3>1, Zenon
  <2>. QED
    BY <2>6, Zenon
<1>3. n \in T
  <2>. HIDE DEF T
  <2>1. \A k \in 0 .. n - 1 : k \in T => k + 1 \in T
    BY <1>2
  <2>. QED
    BY <1>1, <2>1, SetInduction
<1>. QED
  BY <1>3, Zenon

-----------------------------------------------------------------------------
(* The square root.                                                        *)
RootOf(q) ==
  CHOOSE r : r = [k \in 0 .. 15 |-> IF k = 0 THEN Mask(0) ELSE SqrtStep(q, r[k - 1], Mask(k))]

LEMMA RootExists ==
  ASSUME NEW q \in Nat, NEW r, r = RootOf(q)
  PROVE  r[0] = Mask(0) /\ \A k \in 1 .. 15 : r[k] = SqrtStep(q, r[k - 1], Mask(k))
<1>. DEFINE step == [k \in 1 .. 15 |-> [last \in Int |-> SqrtStep(q, last, Mask(k))]]
<1>1. \A k \in 0 .. 15 : Mask(k) \in Int
  BY DEF Mask
<1>2. \A k \in 1 .. 15, last \in Int : SqrtStep(q, last, Mask(k)) \in Int
  <2>1. \A k \in 1 .. 15 : Mask(k) \in Int
    BY <1>1
  <2>2. \A last \in Int, mask \in Int : SqrtStep(q, last, mask) \in Int
    BY DEF SqrtStep
  <2>. QED
    BY <2>1, <2>2, Zenon
<1>3. step \in [1 .. 15 -> [Int -> Int]]
  BY <1>2, Zenon
<1>4. 0 \in 0 .. 15 /\ 15 \in Nat /\ \A k \in 0 .. 15 : k # 0 => k \in 1 .. 15 /\ k - 1 \in 0 .. 15
  OBVIOUS
<1>5. PICK f : Recurs(f, Int, 15, Mask(0), step)
  <2>. HIDE DEF step
  <2>1. Mask(0) \in Int
    BY <1>1, <1>4, Zenon
  <2>. QED
    BY <1>3, <1>4, <2>1, Recursion, Zenon
<1>6. f = [k \in 0 .. 15 |-> IF k = 0 THEN Mask(0) ELSE SqrtStep(q, f[k - 1], Mask(k))]
  <2>1. ASSUME NEW k \in 0 .. 15, k # 0 PROVE step[k][f[k - 1]] = SqrtStep(q, f[k - 1], Mask(k))
    <3>1. k \in 1 .. 15 /\ f[k - 1] \in Int
      BY <1>4, <1>5, <2>1, Zenon DEF Recurs
    <3>. QED
      BY <3>1, Zenon
  <2>2. \A k \in 0 .. 15 : f[k] = IF k = 0 THEN Mask(0) ELSE SqrtStep(q, f[k - 1], Mask(k))
    <3>. HIDE DEF step
    <3>. QED
      BY <1>5, <2>1, Zenon DEF Recurs
  <2>3. f = [k \in 0 .. 15 |-> f[k]]
    BY <1>5, Zenon DEF Recurs
  <2>. QED
    BY <2>2, <2>3, Zenon
<1>7. r = [k \in 0 .. 15 |-> IF k = 0 THEN Mask(0) ELSE SqrtStep(q, r[k - 1], Mask(k))]
  BY <1>6, Zenon DEF RootOf
<1>8. \A k \in 1 .. 15 : k \in 0 .. 15 /\ k # 0
  OBVIOUS
<1>. QED
  BY <1>4, <1>7, <1>8, Zenon

(* What is known of the root with a mask.                                  *)
Near(q, r, mask) ==
  /\ r \in Nat /\ r >= mask
  /\ (r - mask) * (r - mask) <= q /\ q < (r + mask) * (r + mask)

LEMMA StepNears ==
  ASSUME NEW q \in Nat, NEW h \in Nat \ {0}, NEW m, m = 2 * h, NEW r, Near(q, r, m)
  PROVE  Near(q, SqrtStep(q, r, h), h)
<1>1. r \in Nat /\ m \in Nat /\ r >= m
  BY DEF Near
<1>2. r * r \in Nat
  BY <1>1, SMT
<1>3. CASE q < r * r
  <2>1. PICK s : s = r - h
    OBVIOUS
  <2>2. s \in Nat /\ s >= h /\ s - h = r - m /\ s + h = r
    BY <1>1, <2>1
  <2>3. SqrtStep(q, r, h) = s
    BY <1>3, <2>1, Zenon DEF SqrtStep
  <2>. QED
    BY <1>3, <2>2, <2>3, Zenon DEF Near
<1>4. CASE ~(q < r * r)
  <2>1. PICK s : s = r + h
    OBVIOUS
  <2>2. s \in Nat /\ s >= h /\ s - h = r /\ s + h = r + m
    BY <1>1, <2>1
  <2>3. SqrtStep(q, r, h) = s
    BY <1>4, <2>1, Zenon DEF SqrtStep
  <2>4. r * r <= q
    BY <1>2, <1>4
  <2>. QED
    BY <2>2, <2>3, <2>4, Zenon DEF Near
<1>. QED
  BY <1>3, <1>4

(* c_sqrt32() of a number of 32 bits is its root, rounded down.            *)
LEMMA RootIsRight ==
  ASSUME NEW q \in Nat, Near(q, Mask(0), Mask(0)), NEW s, s = c_sqrt32(q)
  PROVE  s \in Nat /\ s * s <= q /\ q < (s + 1) * (s + 1)
<1>1. PICK r : r = RootOf(q)
  OBVIOUS
<1>2. s = IF q < r[15] * r[15] THEN r[15] - 1 ELSE r[15]
  <2>1. c_sqrt32(q) = IF q < RootOf(q)[15] * RootOf(q)[15] THEN RootOf(q)[15] - 1 ELSE RootOf(q)[15]
    BY DEF c_sqrt32, RootOf
  <2>. QED
    BY <1>1, <2>1, Zenon
<1>3. r[0] = Mask(0) /\ \A k \in 1 .. 15 : r[k] = SqrtStep(q, r[k - 1], Mask(k))
  BY <1>1, RootExists, Zenon
<1>. DEFINE T == {k \in 0 .. 15 : Near(q, r[k], Mask(k))}
<1>4. 0 \in T
  <2>1. 0 \in 0 .. 15
    OBVIOUS
  <2>. QED
    BY <1>3, <2>1, Zenon
<1>5. ASSUME NEW k \in 0 .. 14, k \in T PROVE k + 1 \in T
  <2>1. Mask(k + 1) \in Nat \ {0} /\ Mask(k) = 2 * Mask(k + 1)
    BY DEF Mask
  <2>2. k + 1 \in 1 .. 15 /\ k + 1 \in 0 .. 15 /\ (k + 1) - 1 = k
    OBVIOUS
  <2>3. r[k + 1] = SqrtStep(q, r[k], Mask(k + 1))
    BY <1>3, <2>2, Zenon
  <2>4. Near(q, r[k + 1], Mask(k + 1))
    BY <1>5, <2>1, <2>3, StepNears, Zenon
  <2>. QED
    BY <2>2, <2>4, Zenon
<1>6. 15 \in T
  <2>. HIDE DEF T
  <2>1. \A k \in 0 .. 15 - 1 : k \in T => k + 1 \in T
    BY <1>5
  <2>. QED
    BY <1>4, <2>1, SetInduction
<1>7. PICK last : last = r[15] /\ Near(q, last, 1)
  <2>1. Mask(15) = 1
    BY DEF Mask
  <2>. QED
    BY <1>6, <2>1, Zenon
<1>8. last \in Nat /\ last >= 1 /\ last * last \in Nat
  <2>1. last \in Nat /\ last >= 1
    BY <1>7, Zenon DEF Near
  <2>. QED
    BY <2>1, SMT
<1>9. CASE q < last * last
  <2>1. s \in Nat /\ s = last - 1 /\ s + 1 = last
    BY <1>2, <1>7, <1>8, <1>9
  <2>. QED
    BY <1>7, <1>9, <2>1, Zenon DEF Near
<1>10. CASE ~(q < last * last)
  <2>1. s = last /\ last * last <= q
    BY <1>2, <1>7, <1>8, <1>10
  <2>. QED
    BY <1>7, <1>8, <2>1, Zenon DEF Near
<1>. QED
  BY <1>9, <1>10

LEMMA Scaled ==
  ASSUME NEW v \in Nat, NEW a \in Int, NEW b \in Int, a <= b
  PROVE  v * a <= v * b
<1>1. v * (b - a) >= 0
  BY SMT
<1>. QED
  BY <1>1, SMT

LEMMA Quotients ==
  ASSUME NEW a \in Nat, NEW n \in Nat \ {0}, NEW t, t = a \div n
  PROVE  t \in Nat /\ n * t <= a /\ a < n * t + n
<1>1. a \div n \in Nat /\ a % n \in 0 .. n - 1 /\ a = n * (a \div n) + (a % n)
  BY DivisionWithRemainder
<1>2. PICK m \in 0 .. n - 1 : t \in Nat /\ a = n * t + m
  BY <1>1, Zenon
<1>3. n * t \in Nat
  BY <1>2, SMT
<1>. QED
  BY <1>2, <1>3

(* The root of 3600 times a number of 32 bits.                             *)
LEMMA RootOfSum ==
  ASSUME NEW sum \in Nat \ {0}, sum <= LargestSum, NEW q, q = 3600 * sum
  PROVE  q \in Nat /\ q >= 3600 /\ Near(q, Mask(0), Mask(0))
<1>1. Mask(0) = 32768
  BY DEF Mask
<1>2. q \in Nat /\ q >= 3600 /\ q < 4294967296
  BY DEF LargestSum
<1>3. (32768 - 32768) * (32768 - 32768) = 0 /\ (32768 + 32768) * (32768 + 32768) = 4294967296
  OBVIOUS
<1>4. Near(q, 32768, 32768)
  BY <1>2, <1>3 DEF Near
<1>. QED
  BY <1>1, <1>2, <1>4, SMT

(* 6000 by the root of 3600 times as much is 100 by the root, give or take *)
(* one.                                                                    *)
LEMMA ErrorIsRight ==
  ASSUME NEW sum \in Nat \ {0}, NEW q \in Nat, q = 3600 * sum,
         NEW s \in Nat, s * s <= q, q < (s + 1) * (s + 1),
         NEW t, s > 0 => t \in Nat /\ s * t <= 6000 /\ 6000 < s * t + s
  PROVE  /\ (t + 1) * (t + 1) * sum > 10000
         /\ t > 0 => (t - 1) * (t - 1) * sum <= 10000
<1>1. q = 3600 * sum /\ q >= 3600
  OBVIOUS
<1>2. s \in Nat /\ s * s <= q /\ q < (s + 1) * (s + 1)
  OBVIOUS
<1>3. s >= 60
  BY <1>1, <1>2, SMT
<1>4. t \in Nat /\ s * t <= 6000 /\ 6000 < s * t + s
  BY <1>3
<1>5. sum \in Nat /\ sum >= 1
  OBVIOUS
<1>6. (t + 1) * (t + 1) * sum > 10000
  <2>1. PICK u \in Nat : u = t + 1
    BY <1>4
  <2>2. PICK a : a = s * u
    OBVIOUS
  <2>3. a \in Nat /\ a > 6000
    BY <1>2, <1>4, <2>1, <2>2, SMT
  <2>4. a * a > 36000000
    BY <2>3, SMT
  <2>5. PICK v \in Nat : v = u * u
    BY SMT
  <2>6. a * a = v * (s * s)
    BY <1>2, <2>2, <2>5, SMT
  <2>7. v * (s * s) <= v * q
    BY <1>1, <1>2, <2>5, Scaled, SMT
  <2>8. v * q = 3600 * (v * sum)
    BY <1>1, <1>5, <2>5, SMT
  <2>9. v * sum \in Nat /\ v * (s * s) \in Int /\ v * q \in Int
    BY <1>1, <1>2, <1>5, <2>5, SMT
  <2>10. v * sum > 10000
    BY <2>4, <2>6, <2>7, <2>8, <2>9
  <2>. QED
    BY <2>1, <2>5, <2>10
<1>7. ASSUME t > 0 PROVE (t - 1) * (t - 1) * sum <= 10000
  <2>1. CASE sum = 1
    <3>1. q = 3600
      BY <1>1, <2>1
    <3>2. s = 60
      BY <1>2, <1>3, <3>1, SMT
    <3>3. t <= 100
      BY <1>4, <3>2
    <3>4. (t - 1) * (t - 1) <= 9801
      BY <1>4, <1>7, <3>3, SMT
    <3>. QED
      BY <1>4, <2>1, <3>4, SMT
  <2>2. CASE sum # 1
    <3>1. s >= 84
      <4>1. q >= 7200
        BY <1>1, <1>5, <2>2
      <4>. QED
        BY <1>2, <4>1, SMT
    <3>2. t <= s
      <4>1. s * t >= 84 * t
        BY <1>2, <1>4, <3>1, SMT
      <4>. QED
        BY <1>2, <1>4, <3>1, <4>1, SMT
    <3>3. PICK u \in Nat : u = t - 1
      BY <1>4, <1>7
    <3>4. PICK a : a = (s + 1) * u
      OBVIOUS
    <3>5. a \in Nat /\ a <= 6000
      BY <1>2, <1>4, <3>2, <3>3, <3>4, SMT
    <3>6. a * a <= 36000000
      BY <3>5, SMT
    <3>7. PICK v \in Nat : v = u * u
      BY SMT
    <3>8. a * a = v * ((s + 1) * (s + 1))
      BY <1>2, <3>4, <3>7, SMT
    <3>9. v * q <= v * ((s + 1) * (s + 1))
      BY <1>1, <1>2, <3>7, Scaled, SMT
    <3>10. v * q = 3600 * (v * sum)
      BY <1>1, <1>5, <3>7, SMT
    <3>11. v * sum \in Nat /\ v * ((s + 1) * (s + 1)) \in Int /\ v * q \in Int
      BY <1>1, <1>2, <1>5, <3>7, SMT
    <3>12. v * sum <= 10000
      BY <3>6, <3>8, <3>9, <3>10, <3>11
    <3>. QED
      BY <3>3, <3>7, <3>12
  <2>. QED
    BY <2>1, <2>2
<1>. QED
  BY <1>6, <1>7
-----------------------------------------------------------------------------
(* What a text is worth: one digit more, ten times as much.                *)
ValueOf(digits) ==
  CHOOSE v : v = [k \in 0 .. Len(digits) |->
                    IF k = 0 THEN 0 ELSE 10 * v[k - 1] + Worth(digits[k])]

LEMMA ValueExists ==
  ASSUME NEW digits, NEW n \in Nat, n = Len(digits), NEW v, v = ValueOf(digits),
         \A k \in 1 .. n : Worth(digits[k]) \in Int
  PROVE  v[0] = 0 /\ \A k \in 1 .. n : v[k] = 10 * v[k - 1] + Worth(digits[k])
<1>. DEFINE step == [k \in 1 .. n |-> [last \in Int |-> 10 * last + Worth(digits[k])]]
<1>1. \A k \in 1 .. n, last \in Int : 10 * last + Worth(digits[k]) \in Int
  <2>1. \A last \in Int, worth \in Int : 10 * last + worth \in Int
    OBVIOUS
  <2>. QED
    BY <2>1, Zenon
<1>2. step \in [1 .. n -> [Int -> Int]]
  BY <1>1, Zenon
<1>3. 0 \in 0 .. n /\ 0 \in Int /\ \A k \in 0 .. n : k # 0 => k \in 1 .. n /\ k - 1 \in 0 .. n
  OBVIOUS
<1>4. PICK f : Recurs(f, Int, n, 0, step)
  <2>. HIDE DEF step
  <2>. QED
    BY <1>2, <1>3, Recursion, Zenon
<1>5. f = [k \in 0 .. n |-> IF k = 0 THEN 0 ELSE 10 * f[k - 1] + Worth(digits[k])]
  <2>1. ASSUME NEW k \in 0 .. n, k # 0 PROVE step[k][f[k - 1]] = 10 * f[k - 1] + Worth(digits[k])
    <3>1. k \in 1 .. n /\ f[k - 1] \in Int
      BY <1>3, <1>4, <2>1, Zenon DEF Recurs
    <3>. QED
      BY <3>1, Zenon
  <2>2. \A k \in 0 .. n : f[k] = IF k = 0 THEN 0 ELSE 10 * f[k - 1] + Worth(digits[k])
    <3>. HIDE DEF step
    <3>. QED
      BY <1>4, <2>1, Zenon DEF Recurs
  <2>3. f = [k \in 0 .. n |-> f[k]]
    BY <1>4, Zenon DEF Recurs
  <2>. QED
    BY <2>2, <2>3, Zenon
<1>6. v = [k \in 0 .. n |-> IF k = 0 THEN 0 ELSE 10 * v[k - 1] + Worth(digits[k])]
  BY <1>5, Zenon DEF ValueOf
<1>7. \A k \in 1 .. n : k \in 0 .. n /\ k # 0
  OBVIOUS
<1>. QED
  BY <1>3, <1>6, <1>7, Zenon

-----------------------------------------------------------------------------
(* The digits of a number, and the characters they are printed as.         *)
LEMMA DigitBelow ==
  ASSUME NEW p \in Nat \ {0}, NEW value \in Nat
  PROVE  /\ (value % (10 * p)) \div p \in 0 .. 9
         /\ value \div p = 10 * (value \div (10 * p)) + ((value % (10 * p)) \div p)
<1>1. PICK q \in Nat \ {0} : q = 10 * p
  OBVIOUS
<1>2. PICK a, r : a = value \div q /\ r = value % q
  OBVIOUS
<1>3. a \in Nat /\ r \in 0 .. q - 1 /\ value = q * a + r
  BY <1>1, <1>2, DivisionWithRemainder, Zenon
<1>4. PICK d, l : d = r \div p /\ l = r % p
  OBVIOUS
<1>5. d \in Nat /\ l \in 0 .. p - 1 /\ r = p * d + l
  <2>1. r \in Nat
    BY <1>1, <1>3
  <2>. QED
    BY <1>4, <2>1, DivisionWithRemainder, Zenon
<1>6. d < 10
  <2>1. r \in Nat /\ r < p * 10 /\ 10 \in Nat
    BY <1>1, <1>3
  <2>. QED
    BY <1>4, <2>1, QuotientOfLess, Zenon
<1>7. value \div p = 10 * a + d
  <2>1. PICK u \in Nat : u = 10 * a + d
    BY <1>3, <1>5
  <2>2. q * a + p * d = p * u
    BY <1>1, <1>3, <1>5, <2>1, SMT
  <2>3. q * a \in Nat /\ p * d \in Nat /\ p * u \in Nat
    BY <1>1, <1>3, <1>5, SMT
  <2>4. value = p * u + l
    BY <1>1, <1>3, <1>5, <2>2, <2>3
  <2>. QED
    BY <1>5, <2>1, <2>4, DivisionIsUnique, Zenon
<1>. QED
  BY <1>1, <1>2, <1>4, <1>5, <1>6, <1>7

LEMMA Places ==
  /\ \A j \in 0 .. 5 : Place(j) \in Nat \ {0}
  /\ \A j \in 0 .. 4 : Place(j + 1) = 10 * Place(j)
  /\ \A j \in 0 .. 5, k \in 0 .. 5 : j <= k => Place(j) <= Place(k)
BY DEF Place

(* What is left of a number without its last j digits, if it has n.        *)
Above(value, j, n) == IF j = n THEN 0 ELSE value \div Place(j)

LEMMA DigitsOfNumber ==
  ASSUME NEW n \in 1 .. 6, NEW value \in Nat, value < 10 * Place(n - 1), NEW j \in 0 .. n - 1
  PROVE  /\ DigitOf(value, j, n) \in 0 .. 9
         /\ Above(value, j, n) \in Nat /\ Above(value, j + 1, n) \in Nat
         /\ Above(value, j, n) = 10 * Above(value, j + 1, n) + DigitOf(value, j, n)
<1>1. Place(j) \in Nat \ {0} /\ value \div Place(j) \in Nat
  <2>1. j \in 0 .. 5
    OBVIOUS
  <2>. QED
    BY <2>1, Places, DivisionWithRemainder, Zenon
<1>2. CASE j = n - 1
  <2>1. value < Place(j) * 10 /\ j # n /\ j + 1 = n
    BY <1>1, <1>2
  <2>2. value \div Place(j) < 10
    BY <1>1, <2>1, QuotientOfLess, 10 \in Nat, Zenon
  <2>3. DigitOf(value, j, n) = value \div Place(j)
    BY <1>2, Zenon DEF DigitOf
  <2>. QED
    BY <1>1, <2>1, <2>2, <2>3 DEF Above
<1>3. CASE j # n - 1
  <2>1. j \in 0 .. 4 /\ j + 1 \in 0 .. 5 /\ j # n /\ j + 1 # n
    BY <1>3
  <2>2. Place(j + 1) = 10 * Place(j) /\ Place(j + 1) \in Nat \ {0}
    BY <2>1, Places, Zenon
  <2>3. value \div Place(j + 1) \in Nat
    BY <2>2, DivisionWithRemainder, Zenon
  <2>4. DigitOf(value, j, n) = (value % (10 * Place(j))) \div Place(j)
    BY <1>3, <2>2, Zenon DEF DigitOf
  <2>5. /\ DigitOf(value, j, n) \in 0 .. 9
        /\ value \div Place(j) = 10 * (value \div Place(j + 1)) + DigitOf(value, j, n)
    BY <1>1, <2>2, <2>4, DigitBelow, Zenon
  <2>. QED
    BY <1>1, <2>1, <2>3, <2>5, Zenon DEF Above
<1>. QED
  BY <1>2, <1>3

LEMMA Characters ==
  /\ \A d \in 0 .. 9 : Character(d) # " " /\ Worth(Character(d)) = d
  /\ \A d \in 0 .. 9 : Character(d) = "0" => d = 0
  /\ Worth(" ") = 0
<1>1. \A d \in 0 .. 9, e \in 0 .. 9 : Character(d) = Character(e) => d = e
  BY DEF Character
<1>2. \A d \in 0 .. 9 : Character(d) # " "
  <2>1. \A d \in 0 .. 9 : Character(d) \in {"0", "1", "2", "3", "4", "5", "6", "7", "8", "9"}
    BY DEF Character
  <2>2. " " \notin {"0", "1", "2", "3", "4", "5", "6", "7", "8", "9"}
    OBVIOUS
  <2>. QED
    BY <2>1, <2>2, Zenon
<1>3. 0 \in 0 .. 9 /\ Character(0) = "0"
  BY DEF Character
<1>4. ASSUME NEW d \in 0 .. 9 PROVE Worth(Character(d)) = d
  <2>1. PICK e : e = CHOOSE c \in 0 .. 9 : Character(c) = Character(d)
    OBVIOUS
  <2>2. e \in 0 .. 9 /\ Character(e) = Character(d)
    BY <2>1, Zenon
  <2>3. Worth(Character(d)) = e
    BY <1>2, <2>1, Zenon DEF Worth
  <2>. QED
    BY <1>1, <2>2, <2>3, Zenon
<1>5. Worth(" ") = 0
  BY DEF Worth
<1>. QED
  BY <1>1, <1>2, <1>3, <1>4, <1>5, Zenon

(* Which digits are blank, and that a blank is worth its digit.            *)
LEMMA ShownDigits ==
  ASSUME NEW n \in 1 .. 6, NEW value \in Nat, value < 10 * Place(n - 1), NEW pos \in Nat,
         NEW j \in 0 .. n - 1
  PROVE  /\ Worth(Shown(value, j, pos, n)) = DigitOf(value, j, n)
         /\ (Shown(value, j, pos, n) = " ") <=> (j > pos /\ value < Place(j))
         /\ Shown(value, j, pos, n) = "0" => DigitOf(value, j, n) = 0
<1>1. PICK d \in 0 .. 9 : d = DigitOf(value, j, n)
  BY DigitsOfNumber, Zenon
<1>2. CASE j > pos /\ value < Place(j)
  <2>1. Shown(value, j, pos, n) = " "
    BY <1>2, Zenon DEF Shown
  <2>2. Above(value, j, n) = 0
    <3>1. j \in 0 .. 5 /\ j # n /\ 1 \in Nat
      OBVIOUS
    <3>2. Place(j) \in Nat \ {0} /\ value < Place(j) * 1
      BY <1>2, <3>1, Places
    <3>3. value \div Place(j) \in Nat /\ value \div Place(j) < 1
      BY <3>1, <3>2, QuotientOfLess, Zenon
    <3>. QED
      BY <3>1, <3>3 DEF Above
  <2>3. d = 0
    <3>1. PICK a \in Nat : 0 = 10 * a + d
      BY <1>1, <2>2, DigitsOfNumber, Zenon
    <3>. QED
      BY <3>1
  <2>. QED
    BY <1>1, <1>2, <2>1, <2>3, Characters, Zenon
<1>3. CASE ~(j > pos /\ value < Place(j))
  <2>1. Shown(value, j, pos, n) = Character(d)
    BY <1>1, <1>3, Zenon DEF Shown
  <2>. QED
    BY <1>1, <1>3, <2>1, Characters, Zenon
<1>. QED
  BY <1>2, <1>3

LEMMA DigitsRead ==
  ASSUME NEW n \in 1 .. 6, NEW value \in Nat, value < 10 * Place(n - 1), NEW pos \in 0 .. n - 1,
         NEW digits, Len(digits) = n, DOMAIN digits = 1 .. n,
         \A k \in 1 .. n : digits[k] = Shown(value, n - k, pos, n)
  PROVE  Value(digits) = value /\ Aligned(digits, pos)
<1>1. \A k \in 1 .. n : n - k \in 0 .. n - 1 /\ n - k \in 0 .. 5 /\ (n - k) + 1 = n - (k - 1)
                        /\ n - k # n /\ n - (k - 1) \in 0 .. n
  OBVIOUS
<1>2. pos \in Nat /\ n \in Nat
  OBVIOUS
<1>3. \A k \in 1 .. n :
        /\ Worth(digits[k]) = DigitOf(value, n - k, n) /\ DigitOf(value, n - k, n) \in 0 .. 9
        /\ (digits[k] = " ") <=> (n - k > pos /\ value < Place(n - k))
        /\ digits[k] = "0" => DigitOf(value, n - k, n) = 0
        /\ Above(value, n - k, n) \in Nat /\ Above(value, n - (k - 1), n) \in Nat
        /\ Above(value, n - k, n) = 10 * Above(value, n - (k - 1), n) + DigitOf(value, n - k, n)
  <2>. TAKE k \in 1 .. n
  <2>1. PICK j \in 0 .. n - 1 : j = n - k /\ j + 1 = n - (k - 1)
    BY <1>1, Zenon
  <2>2. digits[k] = Shown(value, j, pos, n)
    BY <2>1
  <2>3. /\ Worth(digits[k]) = DigitOf(value, j, n) /\ DigitOf(value, j, n) \in 0 .. 9
        /\ (digits[k] = " ") <=> (j > pos /\ value < Place(j))
        /\ digits[k] = "0" => DigitOf(value, j, n) = 0
    <3>1. DigitOf(value, j, n) \in 0 .. 9
      BY DigitsOfNumber, Zenon
    <3>2. /\ Worth(Shown(value, j, pos, n)) = DigitOf(value, j, n)
          /\ (Shown(value, j, pos, n) = " ") <=> (j > pos /\ value < Place(j))
          /\ Shown(value, j, pos, n) = "0" => DigitOf(value, j, n) = 0
      BY <1>2, ShownDigits, Zenon
    <3>. QED
      BY <2>2, <3>1, <3>2, Zenon
  <2>4. /\ Above(value, j, n) \in Nat /\ Above(value, j + 1, n) \in Nat
        /\ Above(value, j, n) = 10 * Above(value, j + 1, n) + DigitOf(value, j, n)
    BY DigitsOfNumber, Zenon
  <2>. QED
    BY <2>1, <2>3, <2>4, Zenon
<1>4. Value(digits) = value
  <2>1. PICK v : v = ValueOf(digits)
    OBVIOUS
  <2>2. \A k \in 1 .. n : Worth(digits[k]) \in Int
    <3>1. \A d \in 0 .. 9 : d \in Int
      OBVIOUS
    <3>. QED
      BY <1>3, <3>1, Zenon
  <2>3. v[0] = 0 /\ \A k \in 1 .. n : v[k] = 10 * v[k - 1] + Worth(digits[k])
    BY <1>2, <2>1, <2>2, ValueExists, Zenon
  <2>. DEFINE T == {k \in 0 .. n : v[k] = Above(value, n - k, n)}
  <2>4. 0 \in T
    <3>1. Above(value, n, n) = 0
      BY DEF Above
    <3>. QED
      BY <2>3, <3>1
  <2>5. ASSUME NEW m \in 0 .. n - 1, m \in T PROVE m + 1 \in T
    <3>1. PICK k \in 1 .. n : k = m + 1 /\ k - 1 = m /\ k \in 0 .. n
      OBVIOUS
    <3>2. v[k] = 10 * v[m] + Worth(digits[k]) /\ v[m] = Above(value, n - m, n)
      BY <2>3, <2>5, <3>1, Zenon
    <3>3. v[k] = Above(value, n - k, n)
      BY <1>3, <3>1, <3>2, Zenon
    <3>. QED
      BY <3>1, <3>3, Zenon
  <2>6. n \in T
    <3>. HIDE DEF T
    <3>1. \A k \in 0 .. n - 1 : k \in T => k + 1 \in T
      BY <2>5
    <3>. QED
      BY <1>2, <2>4, <3>1, SetInduction
  <2>7. v[n] = value
    <3>1. n - n = 0 /\ 0 # n /\ Place(0) = 1 /\ value \div 1 = value
      BY DEF Place
    <3>. QED
      BY <2>6, <3>1, Zenon DEF Above
  <2>. QED
    BY <2>1, <2>7, Zenon DEF Value, ValueOf
<1>5. ASSUME NEW k \in 1 .. n, digits[k] = " "
      PROVE  (\A j \in 1 .. k - 1 : digits[j] = " ") /\ k < n - pos
  <2>1. n - k > pos /\ value < Place(n - k)
    BY <1>3, <1>5, Zenon
  <2>2. ASSUME NEW j \in 1 .. k - 1 PROVE digits[j] = " "
    <3>1. j \in 1 .. n /\ n - k <= n - j /\ n - j > pos /\ n - j \in 0 .. 5 /\ n - k \in 0 .. 5
      BY <2>1
    <3>2. Place(n - k) <= Place(n - j) /\ Place(n - k) \in Nat /\ Place(n - j) \in Nat
      BY <3>1, Places, Zenon
    <3>3. value < Place(n - j)
      BY <2>1, <3>2
    <3>. QED
      BY <1>3, <3>1, <3>3, Zenon
  <2>3. k < n - pos
    BY <2>1
  <2>. QED
    BY <2>2, <2>3, Zenon
<1>6. ASSUME NEW k \in 1 .. n, digits[k] = "0", \A j \in 1 .. k - 1 : digits[j] = " "
      PROVE  k >= n - pos
  <2>. SUFFICES ASSUME k < n - pos PROVE FALSE
    OBVIOUS
  <2>1. n - k > pos
    OBVIOUS
  <2>2. digits[k] # " " /\ DigitOf(value, n - k, n) = 0
    <3>1. "0" # " "
      OBVIOUS
    <3>. QED
      BY <1>3, <1>6, <3>1, Zenon
  <2>3. ~(value < Place(n - k))
    BY <1>3, <2>1, <2>2, Zenon
  <2>4. Above(value, n - k, n) # 0
    <3>1. Place(n - k) \in Nat \ {0}
      BY <1>1, Places, Zenon
    <3>2. Above(value, n - k, n) = value \div Place(n - k)
      BY <1>1, Zenon DEF Above
    <3>3. \A a \in Nat, p \in Nat \ {0} : ~(a < p) => a \div p # 0
      <4>. TAKE a \in Nat, p \in Nat \ {0}
      <4>1. a % p \in 0 .. p - 1 /\ a = p * (a \div p) + (a % p)
        BY DivisionWithRemainder
      <4>2. a \div p = 0 => p * (a \div p) = 0
        BY SMT
      <4>. QED
        BY <4>1, <4>2
    <3>. QED
      BY <2>3, <3>1, <3>2, <3>3, Zenon
  <2>5. Above(value, n - (k - 1), n) # 0
    <3>1. PICK a \in Nat, b \in Nat :
            /\ a = Above(value, n - k, n) /\ b = Above(value, n - (k - 1), n)
            /\ a = 10 * b + DigitOf(value, n - k, n)
      BY <1>3, Zenon
    <3>2. a # 0
      BY <2>4, <3>1, Zenon
    <3>3. b # 0
      <4>1. a = 10 * b + 0
        BY <2>2, <3>1, Zenon
      <4>. QED
        BY <3>2, <4>1
    <3>. QED
      BY <3>1, <3>3, Zenon
  <2>6. k # 1
    <3>1. n - (1 - 1) = n
      OBVIOUS
    <3>. QED
      BY <2>5, <3>1, Zenon DEF Above
  <2>7. PICK j \in 1 .. k - 1 : j = k - 1 /\ j \in 1 .. n /\ n - j \in 0 .. 5 /\ n - j # n
    BY <2>6
  <2>8. value < Place(n - j)
    BY <1>3, <1>6, <2>7, Zenon
  <2>9. value \div Place(n - j) = 0
    <3>1. Place(n - j) \in Nat \ {0} /\ value < Place(n - j) * 1 /\ 1 \in Nat
      <4>1. Place(n - j) \in Nat \ {0}
        BY <2>7, Places, Zenon
      <4>. QED
        BY <2>8, <4>1
    <3>2. value \div Place(n - j) \in Nat /\ value \div Place(n - j) < 1
      BY <3>1, QuotientOfLess, Zenon
    <3>. QED
      BY <3>2
  <2>. QED
    BY <2>5, <2>7, <2>9, Zenon DEF Above
<1>7. Aligned(digits, pos)
  BY <1>5, <1>6, Zenon DEF Aligned
<1>. QED
  BY <1>4, <1>7
-----------------------------------------------------------------------------
(* Parts of texts.                                                         *)
Joined(c, S, a, m, b, n) ==
  /\ c \in Seq(S) /\ Len(c) = m + n
  /\ \A k \in 1 .. m + n : c[k] = IF k <= m THEN a[k] ELSE b[k - m]

LEMMA JoinedTexts ==
  ASSUME NEW S, NEW a \in Seq(S), NEW b \in Seq(S), NEW m, m = Len(a), NEW n, n = Len(b),
         NEW c, c = a \o b
  PROVE  Joined(c, S, a, m, b, n)
<1>1. /\ a \o b \in Seq(S) /\ Len(a \o b) = Len(a) + Len(b)
      /\ \A k \in 1 .. Len(a) + Len(b) :
           (a \o b)[k] = IF k <= Len(a) THEN a[k] ELSE b[k - Len(a)]
  BY ConcatProperties
<1>. QED
  BY <1>1, Zenon DEF Joined

Part(c, S, text, first, n) ==
  /\ c \in Seq(S) /\ Len(c) = n
  /\ \A k \in 1 .. n : c[k] = text[first + k - 1]

LEMMA PartOfText ==
  ASSUME NEW S, NEW text, NEW first \in Nat, NEW last \in Nat, NEW n \in Nat \ {0},
         n = last - first + 1, \A k \in first .. last : text[k] \in S,
         NEW c, c = SubSeq(text, first, last)
  PROVE  Part(c, S, text, first, n)
<1>1. first \in Int /\ last \in Int /\ first <= last
  OBVIOUS
<1>2. /\ SubSeq(text, first, last) \in Seq(S)
      /\ Len(SubSeq(text, first, last)) = IF first <= last THEN last - first + 1 ELSE 0
      /\ \A k \in 1 .. last - first + 1 : SubSeq(text, first, last)[k] = text[first + k - 1]
  BY <1>1, SubSeqProperties
<1>. QED
  BY <1>1, <1>2, Zenon DEF Part

(* A printed number: its characters, and the point before the decimals.    *)
Printed(text, value, pos, print, point) ==
  /\ \E S : text \in Seq(S)
  /\ Len(text) = print + point
  /\ \A k \in 1 .. print - pos : text[k] = Shown(value, print - k, pos, print)
  /\ point = 1 => text[print - pos + 1] = "."
  /\ \A k \in print - pos + 1 .. print : text[k + point] = Shown(value, print - k, pos, print)

LEMMA TextOfNumber ==
  ASSUME NEW value, NEW pos \in Nat, NEW print \in Nat, pos < print,
         NEW point \in {0, 1}, point = IF pos > 0 THEN 1 ELSE 0,
         NEW text, text = uint_to_ascii(value, pos, print)
  PROVE  Printed(text, value, pos, print, point)
<1>. DEFINE S      == {".", " "} \cup {Character(DigitOf(value, digit, print)) : digit \in Int}
            before == [k \in 1 .. print - pos |-> Shown(value, print - k, pos, print)]
            mark   == IF pos > 0 THEN <<".">> ELSE <<>>
            after  == [k \in 1 .. pos |-> Shown(value, pos - k, pos, print)]
<1>1. \A digit \in Int : Shown(value, digit, pos, print) \in S
  BY Zenon DEF Shown
<1>2. text = (before \o mark) \o after
  BY Zenon DEF uint_to_ascii
<1>3. before \in Seq(S) /\ Len(before) = print - pos
  <2>1. print - pos \in Nat /\ \A k \in 1 .. print - pos : print - k \in Int
    OBVIOUS
  <2>2. before \in [1 .. print - pos -> S]
    BY <1>1, <2>1, Zenon
  <2>. HIDE DEF before, S
  <2>. QED
    BY <2>1, <2>2
<1>4. after \in Seq(S) /\ Len(after) = pos
  <2>1. \A k \in 1 .. pos : pos - k \in Int
    OBVIOUS
  <2>2. after \in [1 .. pos -> S]
    BY <1>1, <2>1, Zenon
  <2>. HIDE DEF after, S
  <2>. QED
    BY <2>2
<1>5. mark \in Seq(S) /\ Len(mark) = point /\ (point = 1 => mark[1] = ".")
  <2>1. "." \in S
    BY Zenon
  <2>. HIDE DEF S
  <2>. QED
    BY <2>1
<1>6. /\ \A k \in 1 .. print - pos : before[k] = Shown(value, print - k, pos, print)
      /\ \A k \in 1 .. pos : after[k] = Shown(value, pos - k, pos, print)
  BY Zenon
<1>. HIDE DEF S, before, mark, after
<1>7. PICK front : front = before \o mark
  OBVIOUS
<1>8. PICK m : m = print - pos /\ Joined(front, S, before, m, mark, point)
  BY <1>3, <1>5, <1>7, JoinedTexts, Zenon
<1>9. PICK l : l = m + point /\ Joined(text, S, front, l, after, pos)
  <2>1. front \in Seq(S) /\ Len(front) = m + point
    BY <1>8, Zenon DEF Joined
  <2>. QED
    BY <1>2, <1>4, <1>7, <2>1, JoinedTexts, Zenon
<1>10. Len(text) = print + point /\ text \in Seq(S)
  <2>1. l + pos = print + point
    BY <1>8, <1>9
  <2>. QED
    BY <1>9, <2>1, Zenon DEF Joined
<1>11. ASSUME NEW k \in 1 .. print - pos PROVE text[k] = Shown(value, print - k, pos, print)
  <2>1. k \in 1 .. l + pos /\ k <= l /\ k \in 1 .. m + point /\ k <= m
    BY <1>8, <1>9
  <2>. QED
    BY <1>6, <1>8, <1>9, <2>1, Zenon DEF Joined
<1>12. ASSUME point = 1 PROVE text[print - pos + 1] = "."
  <2>1. PICK k : k = print - pos + 1
    OBVIOUS
  <2>2. k \in 1 .. l + pos /\ k <= l /\ k \in 1 .. m + point /\ ~(k <= m) /\ k - m = 1
    BY <1>8, <1>9, <1>12, <2>1
  <2>. QED
    BY <1>5, <1>8, <1>9, <1>12, <2>1, <2>2, Zenon DEF Joined
<1>13. ASSUME NEW k \in print - pos + 1 .. print
       PROVE  text[k + point] = Shown(value, print - k, pos, print)
  <2>1. PICK c : c = k + point
    OBVIOUS
  <2>2. PICK j \in 1 .. pos : j = k - (print - pos)
    OBVIOUS
  <2>3. c \in 1 .. l + pos /\ ~(c <= l) /\ c - l = j /\ pos - j = print - k
    BY <1>8, <1>9, <2>1, <2>2
  <2>. QED
    BY <1>6, <1>9, <2>1, <2>3, Zenon DEF Joined
<1>. QED
  BY <1>10, <1>11, <1>12, <1>13, Zenon DEF Printed

LEMMA NumberReads ==
  ASSUME NEW n \in 1 .. 6, NEW value \in Nat, value < 10 * Place(n - 1), NEW pos \in 0 .. n - 1
  PROVE  ReadsAs(uint_to_ascii(value, pos, n), value, pos)
<1>1. PICK text : text = uint_to_ascii(value, pos, n)
  OBVIOUS
<1>2. PICK point \in {0, 1} : point = IF pos > 0 THEN 1 ELSE 0
  OBVIOUS
<1>3. n \in Nat /\ pos \in Nat /\ pos < n
  OBVIOUS
<1>4. /\ \E S : text \in Seq(S)
      /\ Len(text) = n + point
      /\ \A k \in 1 .. n - pos : text[k] = Shown(value, n - k, pos, n)
      /\ point = 1 => text[n - pos + 1] = "."
      /\ \A k \in n - pos + 1 .. n : text[k + point] = Shown(value, n - k, pos, n)
  <2>1. Printed(text, value, pos, n, point)
    BY <1>1, <1>2, <1>3, TextOfNumber, Zenon
  <2>. QED
    BY <2>1, Zenon DEF Printed
<1>5. PICK S : text \in Seq(S)
  BY <1>4, Zenon
<1>6. PICK digits : digits = Digits(text, pos)
  OBVIOUS
<1>7. /\ \E R : digits \in Seq(R)
      /\ Len(digits) = n
      /\ \A k \in 1 .. n : digits[k] = Shown(value, n - k, pos, n)
  <2>1. CASE pos = 0
    <3>1. digits = text /\ point = 0
      BY <1>2, <1>6, <2>1 DEF Digits
    <3>2. Len(text) = n /\ n - pos = n
      BY <1>3, <1>4, <2>1, <3>1
    <3>. QED
      BY <1>4, <3>1, <3>2, Zenon
  <2>2. CASE pos # 0
    <3>1. point = 1 /\ pos > 0
      BY <1>2, <1>3, <2>2
    <3>2. PICK p, l : p = n + 1 - pos /\ l = n + 1
      OBVIOUS
    <3>3. p \in 2 .. n /\ l \in Nat /\ Len(text) = l /\ Len(text) - pos = p /\ p - 1 = n - pos
      BY <1>3, <1>4, <2>2, <3>1, <3>2
    <3>4. PICK front, back : front = SubSeq(text, 1, p - 1) /\ back = SubSeq(text, p + 1, l)
      OBVIOUS
    <3>5. digits = front \o back
      BY <1>6, <2>2, <3>3, <3>4, Zenon DEF Digits, RemoveAt
    <3>6. \A k \in 1 .. l : text[k] \in S
      BY <1>5, <3>3
    <3>7. PICK m : m = p - 1 /\ Part(front, S, text, 1, m)
      <4>1. PICK m \in Nat \ {0} : m = p - 1 /\ m = m - 1 + 1 /\ (\A k \in 1 .. m : k \in 1 .. l)
        BY <3>2, <3>3
      <4>2. \A k \in 1 .. m : text[k] \in S
        BY <3>6, <4>1, Zenon
      <4>. QED
        BY <3>4, <4>1, <4>2, 1 \in Nat, PartOfText, Zenon
    <3>8. Part(back, S, text, p + 1, pos)
      <4>1. PICK q \in Nat : /\ q = p + 1 /\ pos = l - q + 1 /\ pos \in Nat \ {0}
                             /\ \A k \in q .. l : k \in 1 .. l
        BY <2>2, <3>2, <3>3
      <4>2. \A k \in q .. l : text[k] \in S
        BY <3>6, <4>1, Zenon
      <4>. QED
        BY <3>3, <3>4, <4>1, <4>2, PartOfText, Zenon
    <3>9. Joined(digits, S, front, m, back, pos)
      BY <3>5, <3>7, <3>8, JoinedTexts, Zenon DEF Part
    <3>10. m + pos = n
      BY <3>2, <3>7
    <3>11. ASSUME NEW k \in 1 .. n PROVE digits[k] = Shown(value, n - k, pos, n)
      <4>1. CASE k <= m
        <5>1. k \in 1 .. m /\ k \in 1 .. n - pos /\ k \in 1 .. m + pos /\ 1 + k - 1 = k
          BY <3>2, <3>3, <3>7, <4>1
        <5>. QED
          BY <1>4, <3>7, <3>9, <4>1, <5>1, Zenon DEF Joined, Part
      <4>2. CASE ~(k <= m)
        <5>1. PICK j \in 1 .. pos : j = k - m /\ (p + 1) + j - 1 = k + 1
          BY <3>2, <3>3, <3>7, <4>2
        <5>2. k \in n - pos + 1 .. n /\ k \in 1 .. m + pos
          BY <3>2, <3>7, <4>2
        <5>. QED
          BY <1>4, <3>1, <3>8, <3>9, <4>2, <5>1, <5>2, Zenon DEF Joined, Part
      <4>. QED
        BY <4>1, <4>2
    <3>. QED
      BY <3>9, <3>10, <3>11, Zenon DEF Joined
  <2>. QED
    BY <2>1, <2>2
<1>8. DOMAIN digits = 1 .. n
  <2>1. \A R : \A d \in Seq(R) : DOMAIN d = 1 .. Len(d)
    OBVIOUS
  <2>. QED
    BY <1>7, <2>1, Zenon
<1>9. Value(digits) = value /\ Aligned(digits, pos)
  BY <1>7, <1>8, DigitsRead, Zenon
<1>10. pos > 0 => text[Len(text) - pos] = "."
  <2>1. pos > 0 => point = 1 /\ Len(text) - pos = n - pos + 1
    BY <1>2, <1>3, <1>4
  <2>. QED
    BY <1>4, <2>1, Zenon
<1>. QED
  BY <1>1, <1>6, <1>9, <1>10, Zenon DEF ReadsAs
-----------------------------------------------------------------------------
(* What is evaluated are numbers.                                          *)
Evaluable == estimator \in Nat /\ sum_total \in Nat

LEMMA EvaluableKept ==
  ASSUME IInv, Evaluable, [Next]_vars
  PROVE  Evaluable'
<1>1. CASE UNCHANGED <<estimator, sum_total>>
  BY <1>1 DEF Evaluable
<1>2. CASE Copy
  BY <1>2 DEF Copy, Evaluable
<1>3. CASE ReadHigh
  <2>1. /\ current_pos \in Place0 /\ low_byte \in 0 .. Base - 1 /\ rbuf \in [Place0 -> Count]
        /\ Base \in Nat \ {0}
    BY StatsAssumption DEF IInv, TypeOK
  <2>2. PICK element : element = rbuf[current_pos] /\ element \in Nat
    BY <2>1 DEF Count
  <2>3. element \div Base \in Nat
    BY <2>1, <2>2, DivisionWithRemainder, Zenon
  <2>4. Base * (element \div Base) \in Nat
    BY <2>1, <2>3, SMT
  <2>5. sum_total' = sum_total + (low_byte + Base * (element \div Base)) /\ estimator' = estimator
    BY <1>3, <2>2 DEF ReadHigh, Join, High, results
  <2>. QED
    BY <2>1, <2>4, <2>5 DEF Evaluable
<1>4. CASE Estimate
  <2>1. pc = "low" /\ sum_total' = sum_total /\ estimator' = (600 * sum_total) \div num_proceed
    BY <1>4 DEF Estimate, Rate
  <2>2. num_proceed \in Nat \ {0}
    BY <2>1, StatsAssumption DEF IInv, TypeOK
  <2>3. PICK tenths \in Nat : tenths = 600 * sum_total
    BY DEF Evaluable
  <2>4. tenths \div num_proceed \in Nat
    BY <2>2, DivisionWithRemainder
  <2>. QED
    BY <2>1, <2>3, <2>4 DEF Evaluable
<1>5. CASE TestHalves
  BY <1>5 DEF TestHalves, Test, results, Evaluable
<1>6. CASE TestShort \/ Display \/ ReadLow \/ Over \/ Pulse \/ GateInterrupt
  BY <1>1, <1>6 DEF TestShort, Test, Display, ReadLow, Over, Pulse, GateInterrupt, sums, results
<1>7. CASE \E accu_counts \in Counts : Second(accu_counts)
  BY <1>1, <1>7 DEF Second, sums, results
<1>8. CASE UNCHANGED vars
  BY <1>1, <1>8 DEF vars, sums, results
<1>. QED
  BY <1>2, <1>3, <1>4, <1>5, <1>6, <1>7, <1>8 DEF Next, display_count_stats

LEMMA ErrorFits == Evaluable => ToleranceFits
<1>. SUFFICES ASSUME Evaluable, Evaluated, sum_total > 0, sum_total <= LargestSum,
                     NEW t \in Tolerance(sum_total)
              PROVE  /\ (t + 1) * (t + 1) * sum_total > 10000
                     /\ t > 0 => (t - 1) * (t - 1) * sum_total <= 10000
  BY DEF ToleranceFits
<1>1. PICK sum \in Nat \ {0} : sum = sum_total /\ sum <= LargestSum
  BY DEF Evaluable
<1>2. PICK q : q = 3600 * sum
  OBVIOUS
<1>3. q \in Nat /\ q >= 3600 /\ Near(q, Mask(0), Mask(0))
  BY <1>1, <1>2, RootOfSum
<1>4. PICK s : s = c_sqrt32(q)
  OBVIOUS
<1>5. s \in Nat /\ s * s <= q /\ q < (s + 1) * (s + 1)
  BY <1>3, <1>4, RootIsRight
<1>6. t = 6000 \div s
  BY <1>1, <1>2, <1>4 DEF Tolerance
<1>7. s > 0 => t \in Nat /\ s * t <= 6000 /\ 6000 < s * t + s
  <2>. SUFFICES ASSUME s > 0 PROVE t \in Nat /\ s * t <= 6000 /\ 6000 < s * t + s
    OBVIOUS
  <2>1. PICK a \in Nat : a = 6000
    OBVIOUS
  <2>2. t = a \div s /\ s \in Nat \ {0}
    BY <1>5, <1>6, <2>1
  <2>3. t \in Nat /\ s * t <= a /\ a < s * t + s
    BY <2>2, Quotients
  <2>. QED
    BY <2>1, <2>3
<1>. QED
  BY <1>1, <1>2, <1>3, <1>5, <1>7, ErrorIsRight

LEMMA RatesRead ==
  ASSUME NEW rate \in Nat, NEW seconds \in Nat, NEW numbers, numbers = Numbers(rate, seconds),
         NEW dose, dose = cpm2doserate(rate)
  PROVE  /\ rate < 1000000 => ReadsAs(numbers[2], rate, 1)
         /\ seconds < 1000 => ReadsAs(numbers[3], seconds, 0)
         /\ dose < 100000 => IF dose < 10000 THEN ReadsAs(numbers[1], dose, 3)
                             ELSE ReadsAs(numbers[1], dose \div 10, 2)
<1>1. /\ numbers[1] = IF dose < 10000 THEN uint_to_ascii(dose, 3, 4)
                      ELSE uint_to_ascii(dose \div 10, 2, 4)
      /\ numbers[2] = uint_to_ascii(rate, 1, 6)
      /\ numbers[3] = uint_to_ascii(seconds, 0, 3)
  BY DEF Numbers
<1>2. dose \in Nat
  BY DEF cpm2doserate
<1>3. Place(5) = 100000 /\ Place(3) = 1000 /\ Place(2) = 100
  BY DEF Place
<1>4. ASSUME rate < 1000000 PROVE ReadsAs(numbers[2], rate, 1)
  <2>1. rate < 10 * Place(6 - 1) /\ 6 \in 1 .. 6 /\ 1 \in 0 .. 6 - 1
    BY <1>3, <1>4
  <2>. QED
    BY <1>1, <2>1, NumberReads
<1>5. ASSUME seconds < 1000 PROVE ReadsAs(numbers[3], seconds, 0)
  <2>1. seconds < 10 * Place(3 - 1) /\ 3 \in 1 .. 6 /\ 0 \in 0 .. 3 - 1
    BY <1>3, <1>5
  <2>. QED
    BY <1>1, <2>1, NumberReads
<1>6. ASSUME dose < 10000 PROVE ReadsAs(numbers[1], dose, 3)
  <2>1. dose < 10 * Place(4 - 1) /\ 4 \in 1 .. 6 /\ 3 \in 0 .. 4 - 1
    BY <1>3, <1>6
  <2>. QED
    BY <1>1, <1>2, <1>6, <2>1, NumberReads
<1>7. ASSUME dose < 100000, ~(dose < 10000) PROVE ReadsAs(numbers[1], dose \div 10, 2)
  <2>1. PICK tenth \in Nat : tenth = dose \div 10 /\ tenth < 10000
    BY <1>2, <1>7
  <2>2. tenth < 10 * Place(4 - 1) /\ 4 \in 1 .. 6 /\ 2 \in 0 .. 4 - 1
    BY <1>3, <2>1
  <2>3. ReadsAs(uint_to_ascii(tenth, 2, 4), tenth, 2)
    BY <2>2, NumberReads
  <2>. QED
    BY <1>1, <1>7, <2>1, <2>3
<1>. QED
  BY <1>4, <1>5, <1>6, <1>7

(***************************************************************************)
(* The numbers on the display read back as rate, seconds averaged and dose *)
(* rate of the evaluation as long as they have room, with the point in its *)
(* place and no zeros in front; the error is right to one percent.         *)
(***************************************************************************)
THEOREM NumbersAreRight == Spec => []NumbersHold
<1>1. Init => Evaluable
  BY DEF Init, Evaluable
<1>2. IInv /\ Evaluable /\ [Next]_vars => Evaluable'
  BY EvaluableKept
<1>3. IInv /\ Evaluable => NumbersHold
  <2>. SUFFICES ASSUME IInv, Evaluable PROVE NumbersHold
    OBVIOUS
  <2>1. estimator \in Nat /\ num_proceed \in Nat
    BY StatsAssumption DEF IInv, TypeOK, Evaluable
  <2>2. DisplayReads
    BY <2>1, RatesRead DEF DisplayReads
  <2>. QED
    BY <2>2, ErrorFits DEF NumbersHold
<1>. QED
  BY <1>1, <1>2, <1>3, Invariant, PTL DEF Spec

-----------------------------------------------------------------------------
(***************************************************************************)
(* The display.  A controller, of which only what its memory holds depends *)
(* on the constants, and where the steps of lcd_init() get it.             *)
(***************************************************************************)
IsRecord(c) ==
  c = [bits |-> c.bits, pending |-> c.pending, lines |-> c.lines, on |-> c.on,
       into |-> c.into, increment |-> c.increment, address |-> c.address,
       ddram |-> c.ddram]

IsController(c) ==
  /\ IsRecord(c)
  /\ c.bits \in {4, 8} /\ c.pending \in {NoHalf} \cup HalfByte
  /\ c.bits = 8 => c.pending = NoHalf

(* A byte that is stored changes the memory and the cursor only.           *)
LEMMA StoreKeeps ==
  ASSUME NEW c, IsController(c), NEW byte, NEW d, d = Store(c, byte)
  PROVE  /\ IsController(d)
         /\ d.bits = c.bits /\ d.pending = c.pending
<1>1. PICK a, m : d = [c EXCEPT !.ddram = m, !.address = a]
  BY Zenon DEF Store
<1>2. IsRecord(d) /\ d.bits = c.bits /\ d.pending = c.pending
  BY <1>1 DEF IsController, IsRecord
<1>. QED
  BY <1>2, Zenon DEF IsController

(* Whatever it is, an instruction leaves no half of a byte behind.         *)
Instructed(d, c, byte) ==
  /\ IsController(d) /\ d.pending = NoHalf
  /\ byte \in 32 .. 63 => d.bits = (IF byte >= 48 THEN 8 ELSE 4)
  /\ byte \in 32 .. 63 => d.lines = (IF byte % 16 >= 8 THEN 2 ELSE 1)
  /\ byte \notin 32 .. 63 => d.bits = c.bits /\ d.lines = c.lines
  /\ byte \in 12 .. 15 => d.on = TRUE
  /\ byte \notin 8 .. 15 => d.on = c.on
  /\ byte \in 6 .. 7 => d.increment = TRUE
  /\ byte \in 4 .. 15 => d.into = c.into
  /\ byte \in 8 .. 15 => d.increment = c.increment
  /\ byte = 1 => d.into = "ddram" /\ d.increment = TRUE

LEMMA InstructKeeps ==
  ASSUME NEW c, IsController(c), c.pending = NoHalf, NEW byte \in 0 .. 255,
         NEW d, d = Instruct(c, byte)
  PROVE  Instructed(d, c, byte)
<1>. USE DEF Instructed
<1>1. CASE byte >= 128
  <2>1. d = [c EXCEPT !.into = "ddram", !.address = byte - 128]
    BY <1>1 DEF Instruct
  <2>2. /\ IsRecord(d) /\ d.pending = c.pending
        /\ d.bits = c.bits /\ d.lines = c.lines /\ d.on = c.on
        /\ d.increment = c.increment
    BY <2>1 DEF IsController, IsRecord
  <2>. QED
    BY <1>1, <2>2 DEF IsController
<1>2. CASE byte \in 64 .. 127
  <2>1. d = [c EXCEPT !.into = "cgram", !.address = byte - 64]
    BY <1>2 DEF Instruct
  <2>2. /\ IsRecord(d) /\ d.pending = c.pending
        /\ d.bits = c.bits /\ d.lines = c.lines /\ d.on = c.on
        /\ d.increment = c.increment
    BY <2>1 DEF IsController, IsRecord
  <2>. QED
    BY <1>2, <2>2 DEF IsController
<1>3. CASE byte \in 32 .. 63
  <2>1. d = [c EXCEPT !.bits = IF byte >= 48 THEN 8 ELSE 4,
                      !.lines = IF byte % 16 >= 8 THEN 2 ELSE 1]
    BY <1>3 DEF Instruct
  <2>2. /\ IsRecord(d) /\ d.pending = c.pending
        /\ d.on = c.on /\ d.into = c.into /\ d.increment = c.increment
        /\ d.bits = (IF byte >= 48 THEN 8 ELSE 4) /\ d.lines = (IF byte % 16 >= 8 THEN 2 ELSE 1)
    BY <2>1 DEF IsController, IsRecord
  <2>. QED
    BY <1>3, <2>2 DEF IsController
<1>4. CASE byte \in 8 .. 15
  <2>1. d = [c EXCEPT !.on = (byte >= 12)]
    BY <1>4 DEF Instruct
  <2>2. /\ IsRecord(d) /\ d.pending = c.pending
        /\ d.bits = c.bits /\ d.lines = c.lines /\ d.into = c.into
        /\ d.increment = c.increment /\ (byte >= 12 => d.on = TRUE)
    BY <2>1 DEF IsController, IsRecord
  <2>. QED
    BY <1>4, <2>2 DEF IsController
<1>5. CASE byte \in 4 .. 7
  <2>1. d = [c EXCEPT !.increment = (byte >= 6)]
    BY <1>5 DEF Instruct
  <2>2. /\ IsRecord(d) /\ d.pending = c.pending
        /\ d.bits = c.bits /\ d.lines = c.lines /\ d.on = c.on
        /\ d.into = c.into /\ (byte >= 6 => d.increment = TRUE)
    BY <2>1 DEF IsController, IsRecord
  <2>. QED
    BY <1>5, <2>2 DEF IsController
<1>6. CASE byte \in 2 .. 3
  <2>1. d = [c EXCEPT !.into = "ddram", !.address = 0]
    BY <1>6 DEF Instruct
  <2>2. /\ IsRecord(d) /\ d.pending = c.pending
        /\ d.bits = c.bits /\ d.lines = c.lines /\ d.on = c.on
        /\ d.increment = c.increment
    BY <2>1 DEF IsController, IsRecord
  <2>. QED
    BY <1>6, <2>2 DEF IsController
<1>7. CASE byte = 1
  <2>1. d = [c EXCEPT !.into = "ddram", !.address = 0, !.increment = TRUE,
                      !.ddram = [cell \in Cell |-> Blank]]
    BY <1>7 DEF Instruct
  <2>2. /\ IsRecord(d) /\ d.pending = c.pending
        /\ d.bits = c.bits /\ d.lines = c.lines /\ d.on = c.on
        /\ d.into = "ddram" /\ d.increment = TRUE
    BY <2>1 DEF IsController, IsRecord
  <2>. QED
    BY <1>7, <2>2 DEF IsController
<1>8. CASE byte \in 16 .. 31 \/ byte = 0
  <2>1. d = c
    BY <1>8 DEF Instruct
  <2>. QED
    BY <1>8, <2>1
<1>. HIDE DEF Instructed
<1>. QED
  BY <1>1, <1>2, <1>3, <1>4, <1>5, <1>6, <1>7, <1>8

(* Two elements more.                                                      *)
LEMMA TwoMore ==
  ASSUME NEW s \in Seq(HalfByte), NEW t \in Seq(HalfByte), Len(t) = 2
  PROVE  /\ s \o t \in Seq(HalfByte) /\ Len(s \o t) = Len(s) + 2
         /\ \A k \in 1 .. Len(s) : (s \o t)[k] = s[k]
         /\ (s \o t)[Len(s) + 1] = t[1] /\ (s \o t)[Len(s) + 2] = t[2]
<1>1. PICK n \in Nat : n = Len(s)
  OBVIOUS
<1>2. /\ s \o t \in Seq(HalfByte) /\ Len(s \o t) = n + 2
      /\ \A k \in 1 .. n + 2 : (s \o t)[k] = IF k <= n THEN s[k] ELSE t[k - n]
  <2>1. /\ s \o t \in Seq(HalfByte) /\ Len(s \o t) = Len(s) + Len(t)
        /\ \A k \in 1 .. Len(s) + Len(t) :
             (s \o t)[k] = IF k <= Len(s) THEN s[k] ELSE t[k - Len(s)]
    BY ConcatProperties, Zenon
  <2>. QED
    BY <1>1, <2>1
<1>3. \A k \in 1 .. n : k \in 1 .. n + 2 /\ k <= n
  OBVIOUS
<1>4. /\ n + 1 \in 1 .. n + 2 /\ n + 2 \in 1 .. n + 2 /\ ~(n + 1 <= n) /\ ~(n + 2 <= n)
      /\ (n + 1) - n = 1 /\ (n + 2) - n = 2
  OBVIOUS
<1>5. \A k \in 1 .. n : (s \o t)[k] = s[k]
  BY <1>2, <1>3, Zenon
<1>6. (s \o t)[n + 1] = t[1]
  BY <1>2, <1>4
<1>7. (s \o t)[n + 2] = t[2]
  BY <1>2, <1>4
<1>. QED
  BY <1>1, <1>2, <1>5, <1>6, <1>7, Zenon

(* The transfers of lcd_init(), one by one.                                *)
LEMMA TransfersOfInit ==
  /\ Len(InitTransfers) = 14
  /\ \A k \in {1, 2, 3} : InitTransfers[k] = <<0, 3>>
  /\ InitTransfers[4] = <<0, 2>> /\ InitTransfers[5] = <<0, 2>>
  /\ \A k \in {7, 9, 11, 13} : InitTransfers[k] = <<0, 0>>
  /\ InitTransfers[6] = <<0, 8>> /\ InitTransfers[8] = <<0, 8>>
  /\ InitTransfers[10] = <<0, 1>> /\ InitTransfers[12] = <<0, 6>>
  /\ InitTransfers[14] = <<0, 12>>
<1>. DEFINE set  == <<<<0, 3>>, <<0, 3>>, <<0, 3>>, <<0, 2>>>>
            func == <<<<0, 2>>, <<0, 8>>>>
            off  == <<<<0, 0>>, <<0, 8>>>>
            clr  == <<<<0, 0>>, <<0, 1>>>>
            inc  == <<<<0, 0>>, <<0, 6>>>>
            disp == <<<<0, 0>>, <<0, 12>>>>
            a == set \o func
            b == a \o off
            c == b \o clr
            d == c \o inc
            e == d \o disp
<1>1. /\ 40 \div 16 = 2 /\ 40 % 16 = 8 /\ 8 \div 16 = 0 /\ 8 % 16 = 8 /\ 1 \div 16 = 0 /\ 1 % 16 = 1
      /\ 6 \div 16 = 0 /\ 6 % 16 = 6 /\ 12 \div 16 = 0 /\ 12 % 16 = 12
  OBVIOUS
<1>2. InitTransfers = e
  BY <1>1, Zenon DEF InitTransfers, lcd_init, lcd_command, lcd_write, LCD_DISP_ON
<1>3. /\ set \in Seq(HalfByte) /\ Len(set) = 4 /\ set[1] = <<0, 3>> /\ set[2] = <<0, 3>>
      /\ set[3] = <<0, 3>> /\ set[4] = <<0, 2>>
  BY DEF HalfByte
<1>4. /\ func \in Seq(HalfByte) /\ Len(func) = 2 /\ func[1] = <<0, 2>> /\ func[2] = <<0, 8>>
      /\ off \in Seq(HalfByte) /\ Len(off) = 2 /\ off[1] = <<0, 0>> /\ off[2] = <<0, 8>>
      /\ clr \in Seq(HalfByte) /\ Len(clr) = 2 /\ clr[1] = <<0, 0>> /\ clr[2] = <<0, 1>>
      /\ inc \in Seq(HalfByte) /\ Len(inc) = 2 /\ inc[1] = <<0, 0>> /\ inc[2] = <<0, 6>>
      /\ disp \in Seq(HalfByte) /\ Len(disp) = 2 /\ disp[1] = <<0, 0>> /\ disp[2] = <<0, 12>>
  BY DEF HalfByte
<1>. HIDE DEF set, func, off, clr, inc, disp
<1>6. /\ a \in Seq(HalfByte) /\ Len(a) = 6 /\ \A k \in 1 .. 4 : a[k] = set[k]
      /\ a[5] = <<0, 2>> /\ a[6] = <<0, 8>>
  <2>1. /\ a \in Seq(HalfByte) /\ Len(a) = Len(set) + 2
        /\ \A k \in 1 .. Len(set) : a[k] = set[k]
        /\ a[Len(set) + 1] = func[1] /\ a[Len(set) + 2] = func[2]
    BY <1>4, <1>3, TwoMore, Zenon
  <2>. HIDE DEF a
  <2>. QED
    BY <1>4, <1>3, <2>1
<1>. HIDE DEF a
<1>7. /\ b \in Seq(HalfByte) /\ Len(b) = 8 /\ \A k \in 1 .. 6 : b[k] = a[k]
      /\ b[7] = <<0, 0>> /\ b[8] = <<0, 8>>
  <2>1. /\ b \in Seq(HalfByte) /\ Len(b) = Len(a) + 2
        /\ \A k \in 1 .. Len(a) : b[k] = a[k]
        /\ b[Len(a) + 1] = off[1] /\ b[Len(a) + 2] = off[2]
    BY <1>4, <1>6, TwoMore, Zenon
  <2>. HIDE DEF b
  <2>. QED
    BY <1>4, <1>6, <2>1
<1>. HIDE DEF b
<1>8. /\ c \in Seq(HalfByte) /\ Len(c) = 10 /\ \A k \in 1 .. 8 : c[k] = b[k]
      /\ c[9] = <<0, 0>> /\ c[10] = <<0, 1>>
  <2>1. /\ c \in Seq(HalfByte) /\ Len(c) = Len(b) + 2
        /\ \A k \in 1 .. Len(b) : c[k] = b[k]
        /\ c[Len(b) + 1] = clr[1] /\ c[Len(b) + 2] = clr[2]
    BY <1>4, <1>7, TwoMore, Zenon
  <2>. HIDE DEF c
  <2>. QED
    BY <1>4, <1>7, <2>1
<1>. HIDE DEF c
<1>9. /\ d \in Seq(HalfByte) /\ Len(d) = 12 /\ \A k \in 1 .. 10 : d[k] = c[k]
      /\ d[11] = <<0, 0>> /\ d[12] = <<0, 6>>
  <2>1. /\ d \in Seq(HalfByte) /\ Len(d) = Len(c) + 2
        /\ \A k \in 1 .. Len(c) : d[k] = c[k]
        /\ d[Len(c) + 1] = inc[1] /\ d[Len(c) + 2] = inc[2]
    BY <1>4, <1>8, TwoMore, Zenon
  <2>. HIDE DEF d
  <2>. QED
    BY <1>4, <1>8, <2>1
<1>. HIDE DEF d
<1>10. /\ e \in Seq(HalfByte) /\ Len(e) = 14 /\ \A k \in 1 .. 12 : e[k] = d[k]
      /\ e[13] = <<0, 0>> /\ e[14] = <<0, 12>>
  <2>1. /\ e \in Seq(HalfByte) /\ Len(e) = Len(d) + 2
        /\ \A k \in 1 .. Len(d) : e[k] = d[k]
        /\ e[Len(d) + 1] = disp[1] /\ e[Len(d) + 2] = disp[2]
    BY <1>4, <1>9, TwoMore, Zenon
  <2>. HIDE DEF e
  <2>. QED
    BY <1>4, <1>9, <2>1
<1>. HIDE DEF e
<1>11. e[1] = <<0, 3>> /\ e[2] = <<0, 3>> /\ e[3] = <<0, 3>> /\ e[4] = <<0, 2>>
  BY <1>3, <1>6, <1>7, <1>8, <1>9, <1>10
<1>. QED
  BY <1>2, <1>6, <1>7, <1>8, <1>9, <1>10, <1>11

-----------------------------------------------------------------------------
(* The first half of a byte waits for the second.                          *)
LEMMA FirstHalf ==
  ASSUME NEW c, IsController(c), c.bits = 4, c.pending = NoHalf, NEW t \in HalfByte,
         NEW d, d = Toggle(c, t)
  PROVE  /\ IsController(d) /\ d.bits = 4 /\ d.pending = t /\ d.lines = c.lines
         /\ d.on = c.on /\ d.into = c.into /\ d.increment = c.increment
<1>1. d = [c EXCEPT !.pending = t]
  <2>1. c.bits # 8
    OBVIOUS
  <2>. QED
    BY <2>1, Zenon DEF Toggle
<1>2. /\ IsRecord(d) /\ d.bits = c.bits /\ d.pending = t /\ d.lines = c.lines
      /\ d.on = c.on /\ d.into = c.into /\ d.increment = c.increment
  BY <1>1 DEF IsController, IsRecord
<1>. QED
  BY <1>2 DEF IsController

(* The same, with a byte complete.                                         *)
Between(e, c) ==
  /\ IsController(e) /\ e.bits = 4 /\ e.pending = NoHalf /\ e.lines = c.lines
  /\ e.on = c.on /\ e.into = c.into /\ e.increment = c.increment

(* The second half completes a byte of data, or an instruction.            *)
Whole(c) == [c EXCEPT !.pending = NoHalf]

LEMMA SecondHalf ==
  ASSUME NEW c, IsController(c), c.bits = 4, c.pending \in HalfByte, NEW t
  PROVE  /\ Between(Whole(c), c)
         /\ Toggle(c, t) = Take(Whole(c), c.pending[1], 16 * c.pending[2] + t[2])
<1>1. c.pending # NoHalf
  <2>1. PICK a, b : c.pending = <<a, b>>
    BY DEF HalfByte
  <2>2. Len(<<a, b>>) = 2 /\ Len(<<>>) = 0
    OBVIOUS
  <2>. QED
    BY <2>1, <2>2 DEF NoHalf
<1>2. Toggle(c, t) = Take(Whole(c), c.pending[1], 16 * c.pending[2] + t[2])
  BY <1>1 DEF Toggle, Whole
<1>3. /\ IsRecord(Whole(c)) /\ Whole(c).bits = c.bits /\ Whole(c).pending = NoHalf
      /\ Whole(c).lines = c.lines /\ Whole(c).on = c.on /\ Whole(c).into = c.into
      /\ Whole(c).increment = c.increment
  BY DEF IsController, IsRecord, Whole
<1>4. IsController(Whole(c))
  BY <1>3 DEF IsController
<1>. QED
  BY <1>2, <1>3, <1>4, Zenon DEF Between

(* The two halves of an instruction.                                       *)
LEMMA Instruction ==
  ASSUME NEW c, IsController(c), c.bits = 4, c.pending \in HalfByte, c.pending[1] = 0,
         NEW t, NEW byte, byte = 16 * c.pending[2] + t[2]
  PROVE  Between(Whole(c), c) /\ Toggle(c, t) = Instruct(Whole(c), byte)
<1>1. /\ Between(Whole(c), c)
      /\ Toggle(c, t) = Take(Whole(c), c.pending[1], 16 * c.pending[2] + t[2])
  BY SecondHalf
<1>2. 0 # 1
  OBVIOUS
<1>3. Take(Whole(c), 0, byte) = Instruct(Whole(c), byte)
  BY <1>2, Zenon DEF Take
<1>. QED
  BY <1>1, <1>3, Zenon

(* While it takes eight bits a transfer is the upper half of a byte.       *)
LEMMA EightBits ==
  ASSUME NEW c, IsController(c), c.bits = 8, NEW high \in {2, 3},
         NEW d, d = Toggle(c, <<0, high>>)
  PROVE  IsController(d) /\ d.pending = NoHalf /\ d.bits = IF high = 3 THEN 8 ELSE 4
<1>1. <<0, high>>[1] = 0 /\ <<0, high>>[2] = high /\ 0 # 1
  OBVIOUS
<1>2. d = Instruct(c, 16 * high)
  BY <1>1, Zenon DEF Toggle, Take
<1>3. PICK byte \in 32 .. 63 : byte = 16 * high /\ (byte >= 48 <=> high = 3)
  BY SMT
<1>4. c.pending = NoHalf /\ byte \in 0 .. 255
  BY DEF IsController
<1>5. Instructed(d, c, byte)
  <2>1. d = Instruct(c, byte)
    BY <1>2, <1>3
  <2>. QED
    BY <1>4, <2>1, InstructKeeps, Zenon
<1>. QED
  BY <1>3, <1>5 DEF Instructed

-----------------------------------------------------------------------------
(***************************************************************************)
(* How far lcd_init() has got, after each of its transfers. Until the      *)
(* fourth the controller takes either eight bits or halves, and there may  *)
(* be one left of what a reset broke off; then both are in step.           *)
(***************************************************************************)
Converging ==
  /\ booted = 1 /\ lcd.bits = 4 => lcd.pending \in {NoHalf, <<0, 3>>}
  /\ booted = 2 /\ lcd.bits = 4 => lcd.pending = <<0, 3>>
  /\ booted = 3 => lcd.bits = 8

Halfway ==
  /\ booted \in {5} => lcd.pending = <<0, 2>>
  /\ booted \in {7, 9, 11, 13} => lcd.pending = <<0, 0>>
  /\ booted \in {4, 6, 8, 10, 12, 14, 15} => lcd.pending = NoHalf

SetUp ==
  /\ booted >= 4 => lcd.bits = 4
  /\ booted >= 6 => lcd.lines = 2
  /\ booted >= 10 => lcd.into = "ddram" /\ lcd.increment = TRUE
  /\ booted >= 14 => lcd.on = TRUE

BootOK ==
  /\ booted \in 0 .. 15 /\ IsController(lcd)
  /\ Converging /\ Halfway /\ SetUp

LEMMA BootInit == DisplayInit => BootOK
<1>. SUFFICES ASSUME DisplayInit PROVE BootOK
  OBVIOUS
<1>1. booted = 0 /\ lcd \in Controllers(Stale)
  BY DEF DisplayInit
<1>2. IsController(lcd)
  <2>1. /\ lcd \in [bits : {4, 8}, pending : {NoHalf} \cup HalfByte, lines : {1, 2}, on : BOOLEAN,
                    into : {"ddram", "cgram"}, increment : {TRUE}, address : {0},
                    ddram : {[cell \in Cell |-> Stale]}]
        /\ lcd.bits = 8 => lcd.pending = NoHalf
    BY <1>1 DEF Controllers
  <2>2. IsRecord(lcd)
    BY <2>1 DEF IsRecord
  <2>3. lcd.bits \in {4, 8} /\ lcd.pending \in {NoHalf} \cup HalfByte
    BY <2>1
  <2>. QED
    BY <2>1, <2>2, <2>3, Zenon DEF IsController
<1>. QED
  BY <1>1, <1>2 DEF BootOK, Converging, Halfway, SetUp

(* A transfer of the upper half of an instruction in step.                 *)
LEMMA BootsUpper ==
  ASSUME BootOK, Boot, booted \in {4, 6, 8, 10, 12}
  PROVE  BootOK'
<1>1. PICK t \in HalfByte :
         /\ t = InitTransfers[booted + 1]
         /\ t = IF booted = 4 THEN <<0, 2>> ELSE <<0, 0>>
  BY TransfersOfInit DEF HalfByte
<1>2. booted' = booted + 1 /\ lcd' = Toggle(lcd, t)
  BY <1>1, Zenon DEF Boot
<1>3. IsController(lcd) /\ lcd.bits = 4 /\ lcd.pending = NoHalf
  BY DEF BootOK, Halfway, SetUp
<1>4. /\ IsController(lcd') /\ lcd'.bits = 4 /\ lcd'.pending = t /\ lcd'.lines = lcd.lines
      /\ lcd'.on = lcd.on /\ lcd'.into = lcd.into /\ lcd'.increment = lcd.increment
  BY <1>2, <1>3, FirstHalf
<1>5. booted' \in 0 .. 15 /\ Converging'
  BY <1>2 DEF Converging
<1>6. Halfway'
  BY <1>1, <1>2, <1>4 DEF Halfway
<1>7. SetUp'
  BY <1>2, <1>4 DEF SetUp, BootOK
<1>. QED
  BY <1>4, <1>5, <1>6, <1>7 DEF BootOK

(* A transfer of the lower half.                                           *)
LEMMA BootsLower ==
  ASSUME BootOK, Boot, booted \in {5, 7, 9, 11, 13}
  PROVE  BootOK'
<1>1. PICK high \in 0 .. 15, low \in 0 .. 15 :
         /\ lcd.pending = <<0, high>> /\ InitTransfers[booted + 1] = <<0, low>>
         /\ high = (IF booted = 5 THEN 2 ELSE 0)
         /\ booted = 5 => low = 8
         /\ booted = 7 => low = 8
         /\ booted = 9 => low = 1
         /\ booted = 11 => low = 6
         /\ booted = 13 => low = 12
  BY TransfersOfInit DEF BootOK, Halfway
<1>2. PICK byte \in 0 .. 255 :
         /\ byte = 16 * high + low
         /\ booted = 5 => byte = 40
         /\ booted = 7 => byte = 8
         /\ booted = 9 => byte = 1
         /\ booted = 11 => byte = 6
         /\ booted = 13 => byte = 12
  BY <1>1
<1>3. booted' = booted + 1 /\ lcd' = Toggle(lcd, <<0, low>>)
  BY <1>1, Zenon DEF Boot
<1>4. IsController(lcd) /\ lcd.bits = 4
  BY DEF BootOK, SetUp
<1>5. PICK e : Between(e, lcd) /\ lcd' = Instruct(e, byte)
  <2>1. PICK t : t = <<0, low>> /\ t[2] = low
    <3>1. <<0, low>>[2] = low
      OBVIOUS
    <3>. QED
      BY <3>1, Zenon
  <2>2. /\ lcd.pending \in HalfByte /\ lcd.pending[1] = 0 /\ lcd.pending[2] = high
    BY <1>1 DEF HalfByte
  <2>3. byte = 16 * lcd.pending[2] + t[2]
    BY <1>2, <2>1, <2>2
  <2>4. Between(Whole(lcd), lcd) /\ Toggle(lcd, t) = Instruct(Whole(lcd), byte)
    BY <1>4, <2>2, <2>3, Instruction
  <2>. QED
    BY <1>3, <2>1, <2>4, Zenon
<1>6. Instructed(lcd', e, byte)
  BY <1>5, InstructKeeps, Zenon DEF Between
<1>7. booted' \in 0 .. 15 /\ Converging'
  BY <1>3 DEF Converging
<1>8. Halfway'
  BY <1>3, <1>6 DEF Halfway, Instructed
<1>9. SetUp'
  <2>1. lcd'.bits = 4 /\ lcd'.lines = 2
    <3>1. CASE booted = 5
      BY <1>2, <1>6, <3>1 DEF Instructed
    <3>2. CASE booted > 5
      BY <1>2, <1>5, <1>6, <3>2 DEF Instructed, Between, SetUp, BootOK
    <3>. QED
      BY <3>1, <3>2
  <2>2. booted >= 9 => lcd'.into = "ddram" /\ lcd'.increment = TRUE
    <3>1. CASE booted = 9
      BY <1>2, <1>6, <3>1 DEF Instructed
    <3>2. CASE booted = 11
      BY <1>2, <1>5, <1>6, <3>2 DEF Instructed, Between, SetUp, BootOK
    <3>3. CASE booted = 13
      BY <1>2, <1>5, <1>6, <3>3 DEF Instructed, Between, SetUp, BootOK
    <3>4. booted >= 9 => booted = 9 \/ booted = 11 \/ booted = 13
      OBVIOUS
    <3>. QED
      BY <3>1, <3>2, <3>3, <3>4, Zenon
  <2>3. booted = 13 => lcd'.on = TRUE
    BY <1>2, <1>6 DEF Instructed
  <2>. QED
    BY <1>3, <2>1, <2>2, <2>3 DEF SetUp
<1>. QED
  BY <1>6, <1>7, <1>8, <1>9 DEF BootOK, Instructed

(* The first four transfers, which the controller may take for others.     *)
LEMMA BootsFirst ==
  ASSUME BootOK, Boot, booted \in 0 .. 3
  PROVE  BootOK'
<1>1. PICK high \in {2, 3} : (high = 3 <=> booted < 3) /\ InitTransfers[booted + 1] = <<0, high>>
  BY TransfersOfInit
<1>2. PICK t : t = <<0, high>> /\ t \in HalfByte /\ t[2] = high
  <2>1. <<0, high>> \in HalfByte /\ <<0, high>>[2] = high
    BY DEF HalfByte
  <2>. QED
    BY <2>1, Zenon
<1>3. booted' = booted + 1 /\ lcd' = Toggle(lcd, t)
  BY <1>1, <1>2, Zenon DEF Boot
<1>4. IsController(lcd) /\ lcd.bits \in {4, 8} /\ lcd.pending \in {NoHalf} \cup HalfByte
  BY DEF BootOK, IsController
<1>5. CASE lcd.bits = 8
  <2>1. /\ IsController(lcd') /\ lcd'.pending = NoHalf
        /\ lcd'.bits = IF high = 3 THEN 8 ELSE 4
    BY <1>2, <1>3, <1>4, <1>5, EightBits
  <2>. QED
    BY <1>1, <1>3, <2>1 DEF BootOK, Converging, Halfway, SetUp
<1>6. CASE lcd.bits = 4 /\ lcd.pending = NoHalf
  <2>1. IsController(lcd') /\ lcd'.bits = 4 /\ lcd'.pending = t
    BY <1>2, <1>3, <1>4, <1>6, FirstHalf
  <2>2. booted < 2
    <3>1. NoHalf # <<0, 3>>
      <4>1. Len(<<0, 3>>) = 2 /\ Len(<<>>) = 0
        OBVIOUS
      <4>. QED
        BY <4>1 DEF NoHalf
    <3>. QED
      BY <1>6, <3>1 DEF BootOK, Converging
  <2>3. t = <<0, 3>>
    BY <1>1, <1>2, <2>2
  <2>. QED
    BY <1>3, <2>1, <2>2, <2>3 DEF BootOK, Converging, Halfway, SetUp
<1>7. CASE lcd.bits = 4 /\ lcd.pending \in HalfByte /\ booted = 0
  <2>1. /\ Between(Whole(lcd), lcd)
        /\ lcd' = Take(Whole(lcd), lcd.pending[1], 16 * lcd.pending[2] + t[2])
    BY <1>3, <1>4, <1>7, SecondHalf
  <2>2. PICK byte \in 0 .. 255 : byte = 16 * lcd.pending[2] + t[2]
    <3>1. PICK a \in {0, 1}, b \in 0 .. 15 : lcd.pending = <<a, b>>
      BY <1>7 DEF HalfByte
    <3>. QED
      BY <1>2, <3>1
  <2>3. IsController(lcd') /\ lcd'.pending = NoHalf
    <3>1. CASE lcd.pending[1] = 1
      <4>1. lcd' = Store(Whole(lcd), byte)
        BY <2>1, <2>2, <3>1 DEF Take
      <4>. QED
        BY <2>1, <4>1, StoreKeeps DEF Between
    <3>2. CASE lcd.pending[1] # 1
      <4>1. lcd' = Instruct(Whole(lcd), byte)
        BY <2>1, <2>2, <3>2 DEF Take
      <4>2. Instructed(lcd', Whole(lcd), byte)
        BY <2>1, <4>1, InstructKeeps, Zenon DEF Between
      <4>. QED
        BY <4>2, Zenon DEF Instructed
    <3>. QED
      BY <3>1, <3>2
  <2>. QED
    BY <1>3, <1>7, <2>3 DEF BootOK, Converging, Halfway, SetUp
<1>8. CASE lcd.bits = 4 /\ lcd.pending \in HalfByte /\ booted # 0 /\ lcd.pending # NoHalf
  <2>1. lcd.pending = <<0, 3>> /\ booted \in {1, 2}
    BY <1>8 DEF BootOK, Converging
  <2>2. lcd.pending[1] = 0 /\ lcd.pending[2] = 3 /\ high = 3
    BY <1>1, <2>1
  <2>3. PICK byte \in 0 .. 255 : byte = 51 /\ byte = 16 * lcd.pending[2] + t[2]
    BY <1>2, <2>2
  <2>4. /\ Between(Whole(lcd), lcd) /\ lcd' = Instruct(Whole(lcd), byte)
    BY <1>3, <1>4, <1>8, <2>2, <2>3, Instruction
  <2>5. Instructed(lcd', Whole(lcd), byte)
    BY <2>4, InstructKeeps, Zenon DEF Between
  <2>6. IsController(lcd') /\ lcd'.bits = 8
    BY <2>3, <2>5 DEF Instructed
  <2>. QED
    BY <1>3, <2>1, <2>6 DEF BootOK, Converging, Halfway, SetUp
<1>. QED
  BY <1>4, <1>5, <1>6, <1>7, <1>8

LEMMA Boots ==
  ASSUME BootOK, Boot
  PROVE  BootOK'
<1>1. booted \in 0 .. 13
  BY TransfersOfInit DEF Boot, BootOK
<1>. QED
  BY <1>1, BootsFirst, BootsUpper, BootsLower

-----------------------------------------------------------------------------
(* A controller that is set up.                                            *)
Ready(c) ==
  /\ IsController(c) /\ c.bits = 4 /\ c.pending = NoHalf
  /\ c.lines = 2 /\ c.on = TRUE /\ c.increment = TRUE /\ c.into = "ddram"

(* A text drawn is in its place, and nothing else has changed.             *)
Holds(d, c, place, text) ==
  \A cell \in Cell :
    d.ddram[cell] = IF cell - place + 1 \in DOMAIN text THEN text[cell - place + 1]
                    ELSE c.ddram[cell]

LEMMA DrawPuts ==
  ASSUME NEW c, Ready(c), NEW x \in 0 .. 15, NEW y \in {0, 1}, NEW text
  PROVE  /\ Ready(Draw(c, x, y, text))
         /\ Holds(Draw(c, x, y, text), c, 64 * y + x, text)
<1>. DEFINE at == lcd_gotoxy(c, x, y)
            d  == lcd_puts(at, text)
<1>1. Draw(c, x, y, text) = d
  <2>1. (CHOOSE drawn \in {lcd_puts(p[1], p[2]) : p \in {<<at, text>>}} : TRUE)
          \in {lcd_puts(p[1], p[2]) : p \in {<<at, text>>}}
    <3>1. lcd_puts(<<at, text>>[1], <<at, text>>[2])
            \in {lcd_puts(p[1], p[2]) : p \in {<<at, text>>}}
      BY Zenon
    <3>. QED
      BY <3>1, Zenon
  <2>2. <<at, text>>[1] = at /\ <<at, text>>[2] = text
    OBVIOUS
  <2>. QED
    BY <2>1, <2>2, Zenon DEF Draw
<1>2. at = [c EXCEPT !.into = "ddram", !.address = 64 * y + x]
  <2>1. PICK byte \in 128 .. 255 :
          /\ byte = 128 + x + (IF y = 0 THEN LCD_START_LINE1 ELSE LCD_START_LINE2)
          /\ byte - 128 = 64 * y + x
    BY DEF LCD_START_LINE1, LCD_START_LINE2
  <2>2. byte >= 128
    OBVIOUS
  <2>3. Instruct(c, byte) = [c EXCEPT !.into = "ddram", !.address = byte - 128]
    BY <2>2 DEF Instruct
  <2>. QED
    BY <2>1, <2>3, Zenon DEF lcd_gotoxy
<1>. HIDE DEF at
<1>3. /\ IsRecord(at) /\ at.bits = c.bits /\ at.pending = c.pending /\ at.lines = c.lines
      /\ at.on = c.on /\ at.increment = c.increment /\ at.into = "ddram"
      /\ at.address = 64 * y + x /\ at.ddram = c.ddram
  BY <1>2 DEF Ready, IsController, IsRecord
<1>4. PICK a : d = [at EXCEPT !.address = a,
                              !.ddram = [cell \in Cell |->
                                IF at.into = "ddram" /\ cell - at.address + 1 \in DOMAIN text
                                THEN text[cell - at.address + 1] ELSE at.ddram[cell]]]
  BY Zenon DEF lcd_puts
<1>5. PICK m : /\ m = [cell \in Cell |->
                        IF at.into = "ddram" /\ cell - at.address + 1 \in DOMAIN text
                        THEN text[cell - at.address + 1] ELSE at.ddram[cell]]
               /\ d = [at EXCEPT !.address = a, !.ddram = m]
  BY <1>4, Zenon
<1>6. /\ IsRecord(d) /\ d.bits = at.bits /\ d.pending = at.pending /\ d.lines = at.lines
      /\ d.on = at.on /\ d.increment = at.increment /\ d.into = at.into
      /\ d.ddram = m
  BY <1>3, <1>5 DEF IsRecord
<1>7. Ready(d)
  BY <1>3, <1>6, Zenon DEF Ready, IsController
<1>8. Holds(d, c, 64 * y + x, text)
  BY <1>3, <1>5, <1>6, Zenon DEF Holds
<1>. QED
  BY <1>1, <1>7, <1>8, Zenon

(* What is left of it.                                                     *)
LEMMA AgedKeeps ==
  ASSUME NEW c, Ready(c)
  PROVE  /\ Ready(Aged(c))
         /\ \A cell \in Label : Aged(c).ddram[cell] = c.ddram[cell]
<1>1. PICK m : /\ m = [cell \in Cell |-> IF cell \in Label THEN c.ddram[cell] ELSE Stale]
               /\ Aged(c) = [c EXCEPT !.address = 0, !.ddram = m]
  BY Zenon DEF Aged
<1>2. PICK d : d = Aged(c)
  OBVIOUS
<1>3. /\ IsRecord(d) /\ d.bits = c.bits /\ d.pending = c.pending /\ d.lines = c.lines
      /\ d.on = c.on /\ d.increment = c.increment /\ d.into = c.into /\ d.ddram = m
  BY <1>1, <1>2 DEF Ready, IsController, IsRecord
<1>4. Ready(d)
  BY <1>3, Zenon DEF Ready, IsController
<1>5. Label \subseteq Cell
  BY DEF Label, Cell
<1>. QED
  BY <1>1, <1>2, <1>3, <1>4, <1>5, Zenon

(* The display when a measurement starts.                                  *)
LEMMA CleanIsReady ==
  ASSUME NEW c, Ready(c)
  PROVE  Ready(lcd_clrscr(set_font(c)))
<1>. DEFINE font == [c EXCEPT !.into = "cgram", !.address = 8 * NUM_CHAR]
<1>1. PICK b : b = font
  OBVIOUS
<1>2. /\ IsRecord(b) /\ b.bits = c.bits /\ b.pending = c.pending /\ b.lines = c.lines
      /\ b.on = c.on
  BY <1>1 DEF Ready, IsController, IsRecord
<1>3. IsController(b) /\ b.pending = NoHalf
  BY <1>2, Zenon DEF Ready, IsController
<1>4. PICK home \in 0 .. 255 :
        /\ home \notin 8 .. 63
        /\ home = 128 + 0 + (IF 0 = 0 THEN LCD_START_LINE1 ELSE LCD_START_LINE2)
  BY DEF LCD_START_LINE1
<1>5. PICK d : d = set_font(c) /\ d = Instruct(b, home)
  BY <1>1, <1>4, Zenon DEF set_font, lcd_gotoxy
<1>6. Instructed(d, b, home)
  BY <1>3, <1>5, InstructKeeps, Zenon
<1>7. IsController(d) /\ d.pending = NoHalf /\ d.bits = 4 /\ d.lines = 2 /\ d.on = TRUE
  BY <1>2, <1>4, <1>6 DEF Instructed, Ready
<1>8. PICK clear \in 0 .. 255 : clear = 1
  OBVIOUS
<1>9. PICK e : e = lcd_clrscr(set_font(c)) /\ e = Instruct(d, clear)
  BY <1>5, <1>8, Zenon DEF lcd_clrscr
<1>10. Instructed(e, d, clear)
  BY <1>7, <1>9, InstructKeeps, Zenon
<1>11. Ready(e)
  BY <1>7, <1>8, <1>10 DEF Instructed, Ready
<1>. QED
  BY <1>9, <1>11, Zenon

-----------------------------------------------------------------------------
(* How many characters a number takes: a point stands before its decimals. *)
LEMMA LengthOfNumber ==
  ASSUME NEW value, NEW pos \in Nat, NEW print \in Nat, pos < print,
         NEW length, length = print + (IF pos > 0 THEN 1 ELSE 0)
  PROVE  DOMAIN uint_to_ascii(value, pos, print) = 1 .. length
<1>1. PICK point \in {0, 1} : point = IF pos > 0 THEN 1 ELSE 0
  OBVIOUS
<1>2. PICK text : text = uint_to_ascii(value, pos, print)
  OBVIOUS
<1>3. PICK S : text \in Seq(S) /\ Len(text) = print + point
  <2>1. Printed(text, value, pos, print, point)
    BY <1>1, <1>2, TextOfNumber, Zenon
  <2>. QED
    BY <2>1, Zenon DEF Printed
<1>4. Len(text) = length
  BY <1>1, <1>3
<1>5. \A t \in Seq(S) : DOMAIN t = 1 .. Len(t)
  OBVIOUS
<1>. QED
  BY <1>2, <1>3, <1>4, <1>5, Zenon

(* The lengths of the numbers of an evaluation.                            *)
LEMMA LengthsOfNumbers ==
  ASSUME NEW rate, NEW seconds
  PROVE  /\ DOMAIN Ascii(Numbers(rate, seconds)[1]) = 1 .. 5
         /\ DOMAIN Ascii(Numbers(rate, seconds)[2]) = 1 .. 7
         /\ DOMAIN Ascii(Numbers(rate, seconds)[3]) = 1 .. 3
<1>. DEFINE dose == cpm2doserate(rate)
            text == IF dose < 10000 THEN uint_to_ascii(dose, 3, 4)
                    ELSE uint_to_ascii(dose \div 10, 2, 4)
<1>1. /\ Numbers(rate, seconds)[1] = text
      /\ Numbers(rate, seconds)[2] = uint_to_ascii(rate, 1, 6)
      /\ Numbers(rate, seconds)[3] = uint_to_ascii(seconds, 0, 3)
  BY DEF Numbers
<1>. HIDE DEF dose
<1>2. text = uint_to_ascii(dose, 3, 4) \/ text = uint_to_ascii(dose \div 10, 2, 4)
  BY SMT
<1>. HIDE DEF text
<1>3. \A value :
        /\ DOMAIN uint_to_ascii(value, 3, 4) = 1 .. 5
        /\ DOMAIN uint_to_ascii(value, 2, 4) = 1 .. 5
        /\ DOMAIN uint_to_ascii(value, 1, 6) = 1 .. 7
        /\ DOMAIN uint_to_ascii(value, 0, 3) = 1 .. 3
  <2>. TAKE value
  <2>1. DOMAIN uint_to_ascii(value, 3, 4) = 1 .. 5
    BY LengthOfNumber, 3 > 0, 3 < 4, 5 = 4 + 1
  <2>2. DOMAIN uint_to_ascii(value, 2, 4) = 1 .. 5
    BY LengthOfNumber, 2 > 0, 2 < 4, 5 = 4 + 1
  <2>3. DOMAIN uint_to_ascii(value, 1, 6) = 1 .. 7
    BY LengthOfNumber, 1 > 0, 1 < 6, 7 = 6 + 1
  <2>4. DOMAIN uint_to_ascii(value, 0, 3) = 1 .. 3
    BY LengthOfNumber, ~(0 > 0), 0 < 3, 3 = 3 + 0
  <2>. QED
    BY <2>1, <2>2, <2>3, <2>4
<1>4. DOMAIN text = 1 .. 5
  BY <1>2, <1>3, Zenon
<1>5. \A t : DOMAIN Ascii(t) = DOMAIN t
  BY Zenon DEF Ascii
<1>. QED
  BY <1>1, <1>3, <1>4, <1>5, Zenon

-----------------------------------------------------------------------------
(* A text of a length, and the cells beside it.                            *)
InPlace(d, c, place, text, n) ==
  /\ \A k \in 1 .. n : k + place - 1 \in Cell => d.ddram[k + place - 1] = text[k]
  /\ \A cell \in Cell : cell \notin place .. place + n - 1 => d.ddram[cell] = c.ddram[cell]

LEMMA TextInPlace ==
  ASSUME NEW c, Ready(c), NEW x \in 0 .. 15, NEW y \in {0, 1}, NEW text, NEW n \in Nat,
         DOMAIN text = 1 .. n, NEW place \in Nat, place = 64 * y + x, NEW d, d = Draw(c, x, y, text)
  PROVE  Ready(d) /\ InPlace(d, c, place, text, n)
<1>1. Ready(d) /\ Holds(d, c, place, text)
  BY DrawPuts
<1>2. \A k \in 1 .. n : (k + place - 1) - place + 1 = k
  OBVIOUS
<1>3. \A cell \in Cell : cell \notin place .. place + n - 1 => cell - place + 1 \notin 1 .. n
  BY DEF Cell
<1>4. \A k \in 1 .. n : k + place - 1 \in Cell => d.ddram[k + place - 1] = text[k]
  BY <1>1, <1>2, Zenon DEF Holds
<1>5. \A cell \in Cell : cell \notin place .. place + n - 1 => d.ddram[cell] = c.ddram[cell]
  BY <1>1, <1>3, Zenon DEF Holds
<1>. QED
  BY <1>1, <1>4, <1>5, Zenon DEF InPlace

(* A character drawn.                                                      *)
LEMMA CharacterInPlace ==
  ASSUME NEW c, Ready(c), NEW x \in 0 .. 15, NEW y \in {0, 1}, NEW letter,
         NEW place \in Cell, place = 64 * y + x, NEW d, d = Draw(c, x, y, <<letter>>)
  PROVE  /\ Ready(d)
         /\ d.ddram[place] = letter
         /\ \A cell \in Cell \ {place} : d.ddram[cell] = c.ddram[cell]
<1>1. PICK text : text = <<letter>> /\ DOMAIN text = 1 .. 1 /\ text[1] = letter
  <2>1. DOMAIN <<letter>> = 1 .. 1 /\ <<letter>>[1] = letter
    OBVIOUS
  <2>. QED
    BY <2>1, Zenon
<1>2. d = Draw(c, x, y, text) /\ place \in Nat /\ 1 \in Nat
  <2>1. place \in Nat
    BY DEF Cell
  <2>. QED
    BY <1>1, <2>1, Zenon
<1>3. Ready(d) /\ InPlace(d, c, place, text, 1)
  BY <1>1, <1>2, TextInPlace, Zenon
<1>4. 1 \in 1 .. 1 /\ 1 + place - 1 = place
  BY <1>2
<1>5. \A cell \in Cell \ {place} : cell \in Cell /\ cell \notin place .. place + 1 - 1
  BY <1>2
<1>. QED
  BY <1>1, <1>3, <1>4, <1>5, Zenon DEF InPlace

(* The labels of the display.                                              *)
Labels(c) ==
  /\ \A k \in 1 .. 5 : c.ddram[k + 5] = dose_str[k]
  /\ \A k \in 1 .. 3 : c.ddram[k + 71] = cpm_str[k]

LEMMA LabelsKept ==
  ASSUME NEW c, Labels(c), NEW d, \A cell \in Label : d.ddram[cell] = c.ddram[cell]
  PROVE  Labels(d)
<1>1. (\A k \in 1 .. 5 : k + 5 \in Label) /\ (\A k \in 1 .. 3 : k + 71 \in Label)
  BY DEF Label
<1>. QED
  BY <1>1, Zenon DEF Labels

LEMMA LabelledIs ==
  ASSUME NEW c, Ready(c), NEW clean, clean = lcd_clrscr(set_font(c)),
         NEW d, d = Draw(Draw(clean, 6, 0, dose_str), 8, 1, cpm_str)
  PROVE  Ready(d) /\ Labels(d)
<1>1. Ready(clean)
  BY CleanIsReady
<1>2. PICK b : b = Draw(clean, 6, 0, dose_str)
  OBVIOUS
<1>3. DOMAIN dose_str = 1 .. 5 /\ DOMAIN cpm_str = 1 .. 3
  BY DEF dose_str, cpm_str
<1>4. /\ 6 \in 0 .. 15 /\ 0 \in {0, 1} /\ 5 \in Nat /\ 6 \in Nat /\ 6 = 64 * 0 + 6
      /\ 8 \in 0 .. 15 /\ 1 \in {0, 1} /\ 3 \in Nat /\ 72 \in Nat /\ 72 = 64 * 1 + 8
  OBVIOUS
<1>5. Ready(b) /\ InPlace(b, clean, 6, dose_str, 5)
  BY <1>1, <1>2, <1>3, <1>4, TextInPlace, Zenon
<1>6. Ready(d) /\ InPlace(d, b, 72, cpm_str, 3)
  BY <1>2, <1>3, <1>4, <1>5, TextInPlace, Zenon
<1>7. \A k \in 1 .. 5 : d.ddram[k + 5] = dose_str[k]
  <2>1. \A k \in 1 .. 5 : k + 5 \in Cell /\ k + 5 \notin 72 .. 72 + 3 - 1 /\ k + 6 - 1 = k + 5
    BY DEF Cell
  <2>. QED
    BY <1>5, <1>6, <2>1 DEF InPlace
<1>8. \A k \in 1 .. 3 : d.ddram[k + 71] = cpm_str[k]
  <2>1. \A k \in 1 .. 3 : k + 72 - 1 \in Cell /\ k + 72 - 1 = k + 71
    BY DEF Cell
  <2>. QED
    BY <1>6, <2>1 DEF InPlace
<1>. QED
  BY <1>6, <1>7, <1>8, Zenon DEF Labels

(* A text of a length, and the display with it.                            *)
IsText(text, n) == text = [k \in 1 .. n |-> text[k]]

Carries(c, place, text, n) == \A k \in 1 .. n : c.ddram[k + place - 1] = text[k]

(* Where the numbers are drawn they are, and nothing else has changed.     *)
NumberCells == (0 .. 4) \cup (64 .. 70) \cup (13 .. 15) \cup {79}

Texts(t1, t2, t3) ==
  DOMAIN t1 = 1 .. 5 /\ DOMAIN t2 = 1 .. 7 /\ DOMAIN t3 = 1 .. 3

LEMMA NumbersInPlace ==
  ASSUME NEW c, Ready(c), NEW t1, NEW t2, NEW t3, Texts(t1, t2, t3), NEW letter, NEW d,
         d = Draw(Draw(Draw(Draw(c, 0, 0, t1), 0, 1, t2), 13, 0, t3), 15, 1, <<letter>>)
  PROVE  /\ Ready(d)
         /\ Carries(d, 0, t1, 5)
         /\ Carries(d, 64, t2, 7)
         /\ Carries(d, 13, t3, 3)
         /\ d.ddram[79] = letter
         /\ \A cell \in Cell \ NumberCells : d.ddram[cell] = c.ddram[cell]
<1>1. PICK c1 : c1 = Draw(c, 0, 0, t1)
  OBVIOUS
<1>2. PICK c2 : c2 = Draw(c1, 0, 1, t2)
  OBVIOUS
<1>3. PICK c3 : c3 = Draw(c2, 13, 0, t3)
  OBVIOUS
<1>4. d = Draw(c3, 15, 1, <<letter>>)
  BY <1>1, <1>2, <1>3, Zenon
<1>7. Ready(c1) /\ InPlace(c1, c, 0, t1, 5)
  <2>1. /\ 0 \in 0 .. 15 /\ 0 \in {0, 1} /\ 5 \in Nat /\ 0 \in Nat
        /\ 0 = 64 * 0 + 0 /\ DOMAIN t1 = 1 .. 5
    BY DEF Texts
  <2>. QED
    BY <1>1, <2>1, TextInPlace
<1>8. Ready(c2) /\ InPlace(c2, c1, 64, t2, 7)
  <2>1. /\ 0 \in 0 .. 15 /\ 1 \in {0, 1} /\ 7 \in Nat /\ 64 \in Nat
        /\ 64 = 64 * 1 + 0 /\ DOMAIN t2 = 1 .. 7
    BY DEF Texts
  <2>. QED
    BY <1>2, <1>7, <2>1, TextInPlace
<1>9. Ready(c3) /\ InPlace(c3, c2, 13, t3, 3)
  <2>1. /\ 13 \in 0 .. 15 /\ 0 \in {0, 1} /\ 3 \in Nat /\ 13 \in Nat
        /\ 13 = 64 * 0 + 13 /\ DOMAIN t3 = 1 .. 3
    BY DEF Texts
  <2>. QED
    BY <1>3, <1>8, <2>1, TextInPlace
<1>10. /\ Ready(d) /\ d.ddram[79] = letter
       /\ \A cell \in Cell \ {79} : d.ddram[cell] = c3.ddram[cell]
  <2>1. 15 \in 0 .. 15 /\ 1 \in {0, 1} /\ 79 \in Cell /\ 79 = 64 * 1 + 15
    BY DEF Cell
  <2>. QED
    BY <1>4, <1>9, <2>1, CharacterInPlace
<1>11. \A cell \in Cell \ NumberCells : d.ddram[cell] = c.ddram[cell]
  <2>. SUFFICES ASSUME NEW cell \in Cell \ NumberCells PROVE d.ddram[cell] = c.ddram[cell]
    OBVIOUS
  <2>1. /\ cell \in Cell /\ cell # 79 /\ cell \notin 0 .. 0 + 5 - 1
        /\ cell \notin 64 .. 64 + 7 - 1 /\ cell \notin 13 .. 13 + 3 - 1
    BY DEF NumberCells, Cell
  <2>. QED
    BY <1>7, <1>8, <1>9, <1>10, <2>1 DEF InPlace
<1>12. Carries(d, 0, t1, 5)
  <2>. SUFFICES ASSUME NEW k \in 1 .. 5 PROVE d.ddram[k + 0 - 1] = t1[k]
    BY DEF Carries
  <2>1. PICK cell \in Cell : cell = k + 0 - 1 /\ cell # 79 /\ cell \notin 64 .. 64 + 7 - 1
                            /\ cell \notin 13 .. 13 + 3 - 1
    BY DEF Cell
  <2>. QED
    BY <1>7, <1>8, <1>9, <1>10, <2>1 DEF InPlace
<1>13. Carries(d, 64, t2, 7)
  <2>. SUFFICES ASSUME NEW k \in 1 .. 7 PROVE d.ddram[k + 64 - 1] = t2[k]
    BY DEF Carries
  <2>1. PICK cell \in Cell : cell = k + 64 - 1 /\ cell # 79 /\ cell \notin 13 .. 13 + 3 - 1
    BY DEF Cell
  <2>. QED
    BY <1>8, <1>9, <1>10, <2>1 DEF InPlace
<1>14. Carries(d, 13, t3, 3)
  <2>. SUFFICES ASSUME NEW k \in 1 .. 3 PROVE d.ddram[k + 13 - 1] = t3[k]
    BY DEF Carries
  <2>1. PICK cell \in Cell : cell = k + 13 - 1 /\ cell # 79
    BY DEF Cell
  <2>. QED
    BY <1>9, <1>10, <2>1 DEF InPlace
<1>. QED
  BY <1>10, <1>11, <1>12, <1>13, <1>14, Zenon

(* What display_count_stats() draws at its end is what it should show.     *)
LEMMA DrawnShows ==
  ASSUME Ready(lcd), Labels(lcd), test1 => lcd.ddram[77] = 83
  PROVE  /\ Ready(Drawn(Numbers(estimator, num_proceed)))
         /\ Labels(Drawn(Numbers(estimator, num_proceed)))
         /\ Shows(Drawn(Numbers(estimator, num_proceed)), Numbers(estimator, num_proceed))
<1>. DEFINE numbers == Numbers(estimator, num_proceed)
            c == DrawChange(test2, 76)
            d == Drawn(numbers)
<1>1. /\ Ready(c) /\ Labels(c)
      /\ test1 \/ test2 => c.ddram[77] = IF test2 THEN 76 ELSE 83
  <2>1. CASE test2
    <3>1. c = Draw(lcd, 13, 1, <<76>>)
      BY <2>1, Zenon DEF DrawChange
    <3>2. 13 \in 0 .. 15 /\ 1 \in {0, 1} /\ 77 \in Cell /\ 77 = 64 * 1 + 13
      BY DEF Cell
    <3>3. /\ Ready(c) /\ c.ddram[77] = 76
          /\ \A cell \in Cell \ {77} : c.ddram[cell] = lcd.ddram[cell]
      BY <3>1, <3>2, CharacterInPlace
    <3>4. \A cell \in Label : cell \in Cell \ {77}
      BY DEF Label, Cell
    <3>5. Labels(c)
      BY <3>3, <3>4, LabelsKept
    <3>. QED
      BY <2>1, <3>3, <3>5, Zenon
  <2>2. CASE ~test2
    <3>1. c = lcd
      BY <2>2, Zenon DEF DrawChange
    <3>. QED
      BY <2>2, <3>1, Zenon
  <2>. QED
    BY <2>1, <2>2
<1>2. PICK t1, t2, t3 : /\ t1 = Ascii(numbers[1]) /\ t2 = Ascii(numbers[2])
                        /\ t3 = Ascii(numbers[3])
  BY Zenon
<1>3. Texts(t1, t2, t3)
  <2>1. /\ DOMAIN Ascii(numbers[1]) = 1 .. 5 /\ DOMAIN Ascii(numbers[2]) = 1 .. 7
        /\ DOMAIN Ascii(numbers[3]) = 1 .. 3
    BY LengthsOfNumbers
  <2>. HIDE DEF numbers
  <2>. QED
    BY <1>2, <2>1 DEF Texts
<1>4. IsText(t1, 5) /\ IsText(t2, 7) /\ IsText(t3, 3)
  <2>1. \A text : Ascii(text) = [k \in DOMAIN Ascii(text) |-> Ascii(text)[k]]
    BY DEF Ascii
  <2>. HIDE DEF numbers
  <2>. QED
    BY <1>2, <1>3, <2>1 DEF Texts, IsText
<1>5. d = Draw(Draw(Draw(Draw(c, 0, 0, t1), 0, 1, t2), 13, 0, t3), 15, 1, <<get_indicator>>)
  BY <1>2, Zenon DEF Drawn, DrawNumbers
<1>. HIDE DEF c, d, numbers
<1>6. /\ Ready(d)
      /\ Carries(d, 0, t1, 5)
      /\ Carries(d, 64, t2, 7)
      /\ Carries(d, 13, t3, 3)
      /\ d.ddram[79] = get_indicator
      /\ \A cell \in Cell \ NumberCells : d.ddram[cell] = c.ddram[cell]
  BY <1>1, <1>3, <1>5, NumbersInPlace
<1>7. Labels(d)
  <2>1. \A cell \in Label : cell \in Cell \ NumberCells
    BY DEF Label, Cell, NumberCells
  <2>. QED
    BY <1>1, <1>6, <2>1, LabelsKept
<1>8. Row(d, 0, 0, 5) = t1
  <2>1. IsText(t1, 5) /\ Carries(d, 0, t1, 5)
    BY <1>4, <1>6
  <2>2. \A k \in 1 .. 5 : 64 * 0 + 0 + k - 1 = k + 0 - 1
    OBVIOUS
  <2>. QED
    BY <2>1, <2>2, Zenon DEF Row, IsText, Carries
<1>9. Row(d, 13, 0, 3) = t3
  <2>1. IsText(t3, 3) /\ Carries(d, 13, t3, 3)
    BY <1>4, <1>6
  <2>2. \A k \in 1 .. 3 : 64 * 0 + 13 + k - 1 = k + 13 - 1
    OBVIOUS
  <2>. QED
    BY <2>1, <2>2, Zenon DEF Row, IsText, Carries
<1>10. Row(d, 0, 1, 7) = t2
  <2>1. IsText(t2, 7) /\ Carries(d, 64, t2, 7)
    BY <1>4, <1>6
  <2>2. \A k \in 1 .. 7 : 64 * 1 + 0 + k - 1 = k + 64 - 1
    OBVIOUS
  <2>. QED
    BY <2>1, <2>2, Zenon DEF Row, IsText, Carries
<1>11. Row(d, 6, 0, 5) = dose_str
  <2>1. IsText(dose_str, 5) /\ Carries(d, 6, dose_str, 5)
    BY <1>7 DEF Labels, Carries, IsText, dose_str
  <2>2. \A k \in 1 .. 5 : 64 * 0 + 6 + k - 1 = k + 6 - 1
    OBVIOUS
  <2>. QED
    BY <2>1, <2>2, Zenon DEF Row, IsText, Carries
<1>12. Row(d, 8, 1, 3) = cpm_str
  <2>1. IsText(cpm_str, 3) /\ Carries(d, 72, cpm_str, 3)
    BY <1>7 DEF Labels, Carries, IsText, cpm_str
  <2>2. \A k \in 1 .. 3 : 64 * 1 + 8 + k - 1 = k + 72 - 1
    OBVIOUS
  <2>. QED
    BY <2>1, <2>2, Zenon DEF Row, IsText, Carries
<1>13. Row(d, 15, 1, 1) = <<get_indicator>>
  <2>1. Row(d, 15, 1, 1) = [k \in 1 .. 1 |-> d.ddram[64 * 1 + 15 + k - 1]]
    BY Zenon DEF Row
  <2>2. \A k \in 1 .. 1 : 64 * 1 + 15 + k - 1 = 79
    OBVIOUS
  <2>3. Row(d, 15, 1, 1) = [k \in 1 .. 1 |-> get_indicator]
    BY <1>6, <2>1, <2>2
  <2>4. <<get_indicator>> = [k \in 1 .. 1 |-> get_indicator]
    OBVIOUS
  <2>. QED
    BY <2>3, <2>4
<1>14. test1 \/ test2 => d.ddram[77] = IF test2 THEN 76 ELSE 83
  <2>1. 77 \in Cell \ NumberCells
    BY DEF Cell, NumberCells
  <2>. QED
    BY <1>1, <1>6, <2>1
<1>15. Shows(d, numbers)
  BY <1>2, <1>8, <1>9, <1>10, <1>11, <1>12, <1>13, <1>14, Zenon DEF Shows
<1>. QED
  BY <1>6, <1>7, <1>15, Zenon DEF d, numbers

-----------------------------------------------------------------------------
(***************************************************************************)
(* No evaluation before the display is labelled; the labels stay; a change *)
(* the first test has detected is drawn until the second one's is.         *)
(***************************************************************************)
ScreenOK ==
  /\ pc # "poll" => booted = 15
  /\ booted = 15 => Labels(lcd)
  /\ pc = "halves" /\ test1 => lcd.ddram[77] = 83

DisplayInv == BootOK /\ ScreenOK

LEMMA SetUpIsReady ==
  ASSUME BootOK, booted \in {14, 15}
  PROVE  Ready(lcd)
BY DEF BootOK, Halfway, SetUp, Ready

LEMMA ReadyIsSetUp ==
  ASSUME booted' = 15, Ready(lcd')
  PROVE  BootOK'
BY DEF BootOK, Converging, Halfway, SetUp, Ready

LEMMA TestStays ==
  ASSUME UNCHANGED <<estimator, sum_short>>
  PROVE  test1' <=> test1
BY DEF test1

(* Whatever draws leaves the labels, and sees the display set up.          *)
LEMMA DrawsKeep ==
  ASSUME DisplayInv, CopyAndDraw \/ TestShortAndDraw \/ TestHalvesAndDraw
  PROVE  DisplayInv'
<1>1. booted = 15 /\ booted' = 15
  BY TransfersOfInit DEF DisplayInv, BootOK, CopyAndDraw, TestShortAndDraw, TestHalvesAndDraw,
                         Measuring
<1>2. Ready(lcd) /\ Labels(lcd)
  BY <1>1, SetUpIsReady DEF DisplayInv, ScreenOK
<1>3. \A cell \in Label : cell \in Cell \ {76} /\ cell \in Cell \ {77}
  BY DEF Label, Cell
<1>4. /\ 12 \in 0 .. 15 /\ 13 \in 0 .. 15 /\ 1 \in {0, 1} /\ 76 \in Cell /\ 77 \in Cell
      /\ 76 = 64 * 1 + 12 /\ 77 = 64 * 1 + 13
  BY DEF Cell
<1>5. CASE CopyAndDraw
  <2>1. pc' \in {"poll", "low"}
    BY <1>5 DEF CopyAndDraw, Copy, Goto
  <2>2. Ready(lcd') /\ Labels(lcd')
    <3>1. CASE state_range' = state_range
      BY <1>2, <1>5, <3>1, Zenon DEF CopyAndDraw
    <3>2. CASE state_range' # state_range
      <4>1. PICK letter : lcd' = Draw(lcd, 12, 1, <<letter>>)
        BY <1>5, <3>2, Zenon DEF CopyAndDraw
      <4>2. /\ Ready(lcd')
            /\ \A cell \in Cell \ {76} : lcd'.ddram[cell] = lcd.ddram[cell]
        BY <1>2, <1>4, <4>1, CharacterInPlace
      <4>3. Labels(lcd')
        BY <1>2, <1>3, <4>2, LabelsKept
      <4>. QED
        BY <4>2, <4>3
    <3>. QED
      BY <3>1, <3>2
  <2>. QED
    BY <1>1, <2>1, <2>2, ReadyIsSetUp DEF DisplayInv, ScreenOK
<1>6. CASE TestShortAndDraw
  <2>1. UNCHANGED <<estimator, sum_short>>
    BY <1>6 DEF TestShortAndDraw, TestShort, Test, sums, results
  <2>2. /\ Ready(lcd') /\ Labels(lcd')
        /\ test1 => lcd'.ddram[77] = 83
    <3>1. CASE test1
      <4>1. lcd' = Draw(lcd, 13, 1, <<83>>)
        BY <1>6, <3>1, Zenon DEF TestShortAndDraw, DrawChange
      <4>2. /\ Ready(lcd') /\ lcd'.ddram[77] = 83
            /\ \A cell \in Cell \ {77} : lcd'.ddram[cell] = lcd.ddram[cell]
        BY <1>2, <1>4, <4>1, CharacterInPlace
      <4>3. Labels(lcd')
        BY <1>2, <1>3, <4>2, LabelsKept
      <4>. QED
        BY <4>2, <4>3
    <3>2. CASE ~test1
      BY <1>2, <1>6, <3>2, Zenon DEF TestShortAndDraw, DrawChange
    <3>. QED
      BY <3>1, <3>2
  <2>3. test1' <=> test1
    BY <2>1, TestStays
  <2>. QED
    BY <1>1, <2>2, <2>3, ReadyIsSetUp, Zenon DEF DisplayInv, ScreenOK
<1>7. CASE TestHalvesAndDraw
  <2>1. pc = "halves" /\ pc' = "poll" /\ lcd' = Aged(Drawn(Numbers(estimator, num_proceed)))
    BY <1>7, Zenon DEF TestHalvesAndDraw, TestHalves, Test, Goto
  <2>2. test1 => lcd.ddram[77] = 83
    BY <2>1 DEF DisplayInv, ScreenOK
  <2>3. PICK d : d = Drawn(Numbers(estimator, num_proceed)) /\ Ready(d) /\ Labels(d)
    BY <1>2, <2>2, DrawnShows, Zenon
  <2>4. /\ Ready(Aged(d))
        /\ \A cell \in Label : Aged(d).ddram[cell] = d.ddram[cell]
    BY <2>3, AgedKeeps
  <2>5. Ready(lcd') /\ Labels(lcd')
    BY <2>1, <2>3, <2>4, LabelsKept
  <2>. QED
    BY <1>1, <2>1, <2>5, ReadyIsSetUp DEF DisplayInv, ScreenOK
<1>. QED
  BY <1>5, <1>6, <1>7

(* Steps that draw nothing come from no evaluation's end and lead to none. *)
LEMMA UndrawnKeeps ==
  ASSUME DisplayInv, Undrawn
  PROVE  DisplayInv'
<1>1. booted = 15 /\ booted' = 15 /\ lcd' = lcd
  BY TransfersOfInit DEF DisplayInv, BootOK, Undrawn, Measuring
<1>2. Ready(lcd) /\ Labels(lcd)
  BY <1>1, SetUpIsReady DEF DisplayInv, ScreenOK
<1>3. pc' = "halves" => pc = "halves" /\ UNCHANGED <<estimator, sum_short>>
  <2>1. CASE Display \/ ReadLow \/ ReadHigh \/ Estimate
    BY <2>1 DEF Display, ReadLow, ReadHigh, Estimate, Goto
  <2>2. CASE Over \/ Pulse \/ GateInterrupt
    BY <2>2 DEF Over, Pulse, GateInterrupt, sums, results
  <2>3. CASE \E accu_counts \in Counts : Second(accu_counts)
    BY <2>3 DEF Second, sums, results
  <2>. QED
    BY <2>1, <2>2, <2>3 DEF Undrawn
<1>4. pc' = "halves" /\ test1' => lcd'.ddram[77] = 83
  BY <1>1, <1>3, TestStays DEF DisplayInv, ScreenOK
<1>. QED
  BY <1>1, <1>2, <1>4, ReadyIsSetUp, Zenon DEF DisplayInv, ScreenOK

LEMMA DisplayKeeps ==
  ASSUME DisplayInv, [DisplayNext]_displayVars
  PROVE  DisplayInv'
<1>1. CASE Boot
  <2>1. BootOK'
    BY <1>1, Boots DEF DisplayInv
  <2>2. booted' \in 0 .. 14 /\ pc' = pc /\ booted # 15
    BY <1>1, <2>1, TransfersOfInit DEF Boot, vars, DisplayInv, BootOK
  <2>3. pc' = "poll" /\ booted' # 15
    BY <2>2 DEF DisplayInv, ScreenOK
  <2>. QED
    BY <2>1, <2>3 DEF DisplayInv, ScreenOK
<1>2. CASE Start
  <2>1. booted = 14 /\ booted' = 15 /\ pc' = pc /\ lcd' = Aged(Labelled(lcd))
    BY <1>2, TransfersOfInit DEF Start, vars
  <2>2. Ready(lcd) /\ pc = "poll"
    BY <2>1, SetUpIsReady DEF DisplayInv, ScreenOK
  <2>3. PICK d : d = Labelled(lcd) /\ Ready(d) /\ Labels(d)
    BY <2>2, LabelledIs, Zenon DEF Labelled
  <2>4. /\ Ready(Aged(d))
        /\ \A cell \in Label : Aged(d).ddram[cell] = d.ddram[cell]
    BY <2>3, AgedKeeps
  <2>5. Ready(lcd') /\ Labels(lcd')
    BY <2>1, <2>3, <2>4, LabelsKept
  <2>. QED
    BY <2>1, <2>2, <2>5, ReadyIsSetUp DEF DisplayInv, ScreenOK
<1>3. CASE CopyAndDraw \/ TestShortAndDraw \/ TestHalvesAndDraw
  BY <1>3, DrawsKeep
<1>4. CASE Undrawn
  BY <1>4, UndrawnKeeps
<1>5. CASE UNCHANGED displayVars
  BY <1>5, TestStays DEF displayVars, vars, sums, results, DisplayInv, BootOK, ScreenOK,
                         Converging, Halfway, SetUp
<1>. QED
  BY <1>1, <1>2, <1>3, <1>4, <1>5 DEF DisplayNext

(***************************************************************************)
(* From whatever state a reset of the CPU has left it in, in the middle of *)
(* a byte or not, lcd_init() gets the display in step with the driver; and *)
(* for every size of the buffer and any pulses an evaluation ends with its *)
(* numbers, and the change it has found, in their places on the display.   *)
(***************************************************************************)
THEOREM DisplayIsRight == DisplaySpec => []ScreenShows
<1>1. DisplayInit => DisplayInv
  <2>1. DisplayInit => pc = "poll" /\ booted = 0
    BY DEF DisplayInit, Init
  <2>. QED
    BY <2>1, BootInit DEF DisplayInv, ScreenOK
<1>2. DisplayInv /\ [DisplayNext]_displayVars => DisplayInv'
  BY DisplayKeeps
<1>3. DisplayInv => ScreenShows
  <2>. SUFFICES ASSUME DisplayInv PROVE ScreenShows
    OBVIOUS
  <2>1. booted >= Len(InitTransfers) => InStep
    <3>1. booted >= 14 => Ready(lcd)
      BY SetUpIsReady DEF DisplayInv, BootOK
    <3>. QED
      BY <3>1, TransfersOfInit DEF Ready, InStep
  <2>2. pc = "halves" =>
          Shows(Drawn(Numbers(estimator, num_proceed)), Numbers(estimator, num_proceed))
    <3>1. SUFFICES ASSUME pc = "halves"
                   PROVE  Ready(lcd) /\ Labels(lcd) /\ (test1 => lcd.ddram[77] = 83)
      BY <3>1, DrawnShows, Zenon
    <3>2. booted = 15
      BY <3>1 DEF DisplayInv, ScreenOK
    <3>. QED
      BY <3>1, <3>2, SetUpIsReady DEF DisplayInv, ScreenOK
  <2>. QED
    BY <2>1, <2>2, Zenon DEF ScreenShows
<1>. QED
  BY <1>1, <1>2, <1>3, PTL DEF DisplaySpec

-----------------------------------------------------------------------------
(***************************************************************************)
(* The Geiger counter with its display is the one without: drawing and     *)
(* booting change nothing of its state, so that all of the above holds of  *)
(* it as well.                                                             *)
(***************************************************************************)
THEOREM DisplayOnlyShows == DisplaySpec => Spec
<1>1. DisplayInit => Init
  BY DEF DisplayInit
<1>2. [DisplayNext]_displayVars => [Next]_vars
  <2>. SUFFICES ASSUME [DisplayNext]_displayVars PROVE [Next]_vars
    OBVIOUS
  <2>1. CASE Boot \/ Start
    BY <2>1 DEF Boot, Start
  <2>2. CASE CopyAndDraw \/ TestShortAndDraw \/ TestHalvesAndDraw
    BY <2>2, Zenon DEF CopyAndDraw, TestShortAndDraw, TestHalvesAndDraw, Next, display_count_stats
  <2>3. CASE Undrawn
    BY <2>3, Zenon DEF Undrawn, Next, display_count_stats
  <2>4. CASE UNCHANGED displayVars
    BY <2>4 DEF displayVars
  <2>. QED
    BY <2>1, <2>2, <2>3, <2>4 DEF DisplayNext
<1>. QED
  BY <1>1, <1>2, PTL DEF DisplaySpec, Spec

=============================================================================
