--------------------------- MODULE CountdownProofs ---------------------------
(***************************************************************************)
(* What get_duration() returns, for every 16 bit timer value and any       *)
(* number of intervals.                                                    *)
(*                                                                         *)
(* Until the counter is reloaded it does not matter how fast the ticks     *)
(* come, as long as fewer than 256 of them fall between two readings.  A   *)
(* counter that is reloaded is read right while at most one tick falls     *)
(* between two readings.  Two are too many: of 257, read at 1, 257 and     *)
(* 255, the readings agree in 1.                                           *)
(***************************************************************************)
EXTENDS Countdown, TLAPS

-----------------------------------------------------------------------------
(* Words and bytes are integers between bounds.                            *)
LEMMA Words ==
  /\ \A word \in Word : word \in Int /\ 0 <= word /\ word <= 65535
  /\ \A i \in Int : 0 <= i /\ i <= 65535 => i \in Word
<1>1. \A word \in Word : word \in Int /\ 0 <= word /\ word <= 65535
  BY DEF Word
<1>2. \A i \in Int : i \in Word <=> 0 <= i /\ i <= 65535
  BY DEF Word
<1>. QED
  BY <1>1, <1>2

(* The same for bytes.                                                     *)
LEMMA BytesAreSmall ==
  /\ \A byte \in Byte : byte \in Int /\ 0 <= byte /\ byte <= 255
  /\ \A i \in Int : 0 <= i /\ i <= 255 => i \in Byte
<1>1. \A byte \in Byte : byte \in Int /\ 0 <= byte /\ byte <= 255
  BY DEF Byte
<1>2. \A i \in Int : i \in Byte <=> 0 <= i /\ i <= 255
  BY DEF Byte
<1>. QED
  BY <1>1, <1>2

(* A word is made of its bytes.                                            *)
LEMMA BytesOfWord ==
  ASSUME NEW word \in Word
  PROVE  /\ Low(word) \in Byte /\ High(word) \in Byte
         /\ word = Join(Low(word), High(word))
<1>1. word \in Int /\ 0 <= word /\ word <= 65535
  BY Words
<1>2. Low(word) \in Int /\ 0 <= Low(word) /\ Low(word) <= 255
  BY <1>1 DEF Low
<1>3. High(word) \in Int /\ 0 <= High(word) /\ High(word) <= 255
  BY <1>1 DEF High
<1>4. word = Join(Low(word), High(word))
  BY <1>1 DEF Low, High, Join
<1>. QED
  BY <1>2, <1>3, <1>4, BytesAreSmall

(* Bytes are joined to a word, and different bytes to different words.     *)
LEMMA JoinIsInjective ==
  ASSUME NEW l1 \in Byte, NEW h1 \in Byte, NEW l2 \in Byte, NEW h2 \in Byte
  PROVE  /\ Join(l1, h1) \in Word
         /\ Join(l1, h1) = Join(l2, h2) => l1 = l2 /\ h1 = h2
<1>1. /\ l1 \in Int /\ 0 <= l1 /\ l1 <= 255 /\ h1 \in Int /\ 0 <= h1 /\ h1 <= 255
      /\ l2 \in Int /\ 0 <= l2 /\ l2 <= 255 /\ h2 \in Int /\ 0 <= h2 /\ h2 <= 255
  BY BytesAreSmall
<1>2. Join(l1, h1) \in Int /\ 0 <= Join(l1, h1) /\ Join(l1, h1) <= 65535
  BY <1>1 DEF Join
<1>3. Join(l1, h1) = Join(l2, h2) => l1 = l2 /\ h1 = h2
  BY <1>1 DEF Join
<1>. QED
  BY <1>2, <1>3, Words

(* Words less than 256 apart that agree in the low byte are the same.      *)
LEMMA CloseWords ==
  ASSUME NEW u \in Word, NEW v \in Word, v <= u, u - v <= 255, Low(u) = Low(v)
  PROVE  u = v
<1>1. u \in Int /\ v \in Int
  BY Words
<1>. QED
  BY <1>1 DEF Low

(***************************************************************************)
(* reading mixes the bytes of two values, the older of them at most        *)
(* MaxTicks before now.                                                    *)
(***************************************************************************)
ReadBefore(reading, now) ==
  \E older, newer \in Word :
    /\ now <= newer /\ newer <= older /\ older - now <= MaxTicks
    /\ reading = Join(Low(older), High(newer))

(* a mixes the low byte of held with the high byte of a value since.       *)
LastReading(now) ==
  \E newer \in Word : now <= newer /\ newer <= held /\ a = Join(Low(held), High(newer))

(* Two agreeing readings are the value held when the second one began.     *)
LEMMA AgreeingReadings ==
  ASSUME NEW start \in Word, NEW later \in Word, later <= start,
         ReadBefore(Join(Low(start), High(later)), start)
  PROVE  Join(Low(start), High(later)) = start
<1>1. PICK older \in Word, newer \in Word :
        /\ start <= newer /\ newer <= older /\ older - start <= MaxTicks
        /\ Join(Low(start), High(later)) = Join(Low(older), High(newer))
  BY DEF ReadBefore
<1>2. Low(start) = Low(older) /\ High(later) = High(newer)
  BY <1>1, BytesOfWord, JoinIsInjective
<1>3. start \in Int /\ newer \in Int /\ older \in Int /\ MaxTicks \in Int /\ MaxTicks <= 255
  BY Words, BytesAreSmall, CountdownAssumption
<1>4. older = start
  <2>1. start <= older /\ older - start <= 255
    BY <1>1, <1>3
  <2>. QED
    BY <1>2, <2>1, CloseWords
<1>5. newer = start
  BY <1>1, <1>3, <1>4
<1>. QED
  BY <1>2, <1>5, BytesOfWord

(* What the counter may hold one tick later, and what a reading that began *)
(* one tick ago may have mixed.                                            *)
After(before, now) ==
  now = before \/ now = before - 1 \/ (before = 1 /\ now = orig_timer1_count)

Mixed(before, now) == {Join(Low(before), High(before)), Join(Low(before), High(now))}

(* Two agreeing readings at most a tick apart: the low bytes agree when    *)
(* the counter is still the same, or was reloaded with one that ends in 1. *)
LEMMA CloseReadings ==
  ASSUME NEW before \in Word, NEW start \in Word, NEW later \in Word,
         orig_timer1_count \in Word, orig_timer1_count > 1, start <= orig_timer1_count,
         After(before, start), After(start, later), later <= orig_timer1_count,
         Join(Low(start), High(later)) \in Mixed(before, start)
  PROVE  Join(Low(start), High(later)) = start
<1>1. /\ before \in Int /\ 0 <= before /\ before <= 65535
      /\ start \in Int /\ 0 <= start /\ start <= 65535
      /\ later \in Int /\ 0 <= later /\ later <= 65535 /\ orig_timer1_count \in Int
  BY Words
<1>2. Low(start) = Low(before) /\ High(later) \in {High(before), High(start)}
  <2>1. PICK high \in {High(before), High(start)} :
          Join(Low(start), High(later)) = Join(Low(before), high)
    BY DEF Mixed
  <2>2. /\ Low(start) \in Byte /\ High(later) \in Byte /\ Low(before) \in Byte /\ high \in Byte
    BY BytesOfWord
  <2>3. Low(start) = Low(before) /\ High(later) = high
    BY <2>1, <2>2, JoinIsInjective
  <2>. QED
    BY <2>1, <2>3
<1>3. CASE start = before
  BY <1>2, <1>3, BytesOfWord
<1>4. CASE start = before - 1
  <2>1. Low(start) # Low(before)
    BY <1>1, <1>4 DEF Low
  <2>. QED
    BY <1>2, <2>1
<1>5. CASE before = 1 /\ start = orig_timer1_count
  <2>1. Low(start) = 1
    BY <1>2, <1>5 DEF Low
  <2>2. later = start \/ later = start - 1
    BY <1>1, <1>5 DEF After
  <2>3. High(later) = High(start)
    BY <1>1, <2>1, <2>2 DEF Low, High
  <2>. QED
    BY <2>3, BytesOfWord
<1>. QED
  BY <1>3, <1>4, <1>5 DEF After

-----------------------------------------------------------------------------
(***************************************************************************)
(* The inductive invariant.  The counter is zero when the last interval is *)
(* over.  In the first interval it runs down from its first value: the low *)
(* byte is the one of held, which lies ticks before the counter, and a     *)
(* reading made before is at most MaxTicks older than the next.  While     *)
(* ticks are slow, whatever the interval, held is the counter before the   *)
(* last tick or after it.                                                  *)
(***************************************************************************)
ClockOK ==
  /\ timer1_count <= orig_timer1_count
  /\ (gf <=> timer1_count = 0) /\ (gf <=> intervals = 0)

FirstInterval == intervals = Intervals \/ Intervals = 1

CountedDown ==
  /\ at = "high" \/ (at = "low" /\ again) =>
       held - timer1_count = ticks /\ held <= orig_timer1_count
  /\ at = "low" /\ again => LastReading(timer1_count)
  /\ at = "high" /\ again => ReadBefore(a, held)
  /\ Returned => a = held /\ duration = orig_timer1_count - held

Ticking ==
  /\ at = "high" \/ (at = "low" /\ again) =>
       /\ After(held, timer1_count) /\ held <= orig_timer1_count
       /\ ticks = 0 => timer1_count = held
  /\ at = "low" /\ again => a \in Mixed(held, timer1_count)
  /\ at = "high" /\ again => \E before \in Word : After(before, held) /\ a \in Mixed(before, held)
  /\ Returned => a = held /\ duration = orig_timer1_count - held

ReadingOK ==
  /\ at = "high" => low = Low(held)
  /\ FirstInterval => CountedDown
  /\ MaxTicks <= 1 => Ticking

EndedOK ==
  ended => gf /\ (at = "high" => low = 0) /\ (Returned => duration = orig_timer1_count)

IInv == TypeOK /\ ClockOK /\ ReadingOK /\ EndedOK

(* The invariant holds when the timer is started.                          *)
LEMMA InitInvariant == Init => IInv
<1>. SUFFICES ASSUME Init PROVE IInv
  OBVIOUS
<1>1. /\ orig_timer1_count \in Word /\ orig_timer1_count # 0 /\ 0 \in Word /\ 0 \in Byte
      /\ orig_timer1_count \in Int
  BY CountdownAssumption, Words, BytesAreSmall DEF Init
<1>2. 0 \in 0 .. MaxTicks /\ Intervals \in 0 .. Intervals /\ Intervals # 0
  BY CountdownAssumption, BytesAreSmall
<1>. QED
  <2>1. TypeOK
    BY <1>1, <1>2 DEF Init, TypeOK
  <2>2. ClockOK
    BY <1>1, <1>2 DEF Init, ClockOK
  <2>3. ReadingOK /\ EndedOK
    BY DEF Init, ReadingOK, CountedDown, Ticking, EndedOK, Returned
  <2>. QED
    BY <2>1, <2>2, <2>3 DEF IInv

(* A tick takes one off the counter, or reloads it.                        *)
LEMMA TickCounts ==
  ASSUME TypeOK, ClockOK, Tick
  PROVE  /\ timer1_count' \in Word /\ 0 < timer1_count /\ ~gf /\ gf' \in BOOLEAN
         /\ intervals' \in 0 .. Intervals /\ ClockOK'
         /\ \/ /\ timer1_count' = timer1_count - 1
               /\ intervals' = intervals \/ (intervals = 1 /\ intervals' = 0)
            \/ /\ timer1_count = 1 /\ timer1_count' = orig_timer1_count
               /\ intervals > 1 /\ intervals' = intervals - 1
         /\ UNCHANGED <<orig_timer1_count, reader, history>>
         /\ IF at = "idle" THEN UNCHANGED ticks ELSE ticks < MaxTicks /\ ticks' = ticks + 1
<1>1. /\ timer1_count \in Int /\ 0 < timer1_count /\ timer1_count <= 65535
      /\ orig_timer1_count \in Word /\ orig_timer1_count \in Int /\ orig_timer1_count > 0
  BY CountdownAssumption, Words DEF TypeOK, ClockOK, Tick
<1>2. (timer1_count - 1) % 65536 = timer1_count - 1
  BY <1>1
<1>3. timer1_count - 1 \in Word
  BY <1>1, Words
<1>4. intervals \in Int /\ 0 < intervals /\ intervals <= Intervals /\ Intervals \in Int
  BY CountdownAssumption DEF Tick, TypeOK, ClockOK
<1>5. gf = FALSE /\ UNCHANGED <<orig_timer1_count, reader, history>>
  BY DEF Tick, TypeOK
<1>6. IF at = "idle" THEN UNCHANGED ticks ELSE ticks < MaxTicks /\ ticks' = ticks + 1
  BY DEF Tick, DuringCall
<1>7. \/ /\ timer1_count - 1 # 0 /\ timer1_count' = timer1_count - 1
         /\ gf' = FALSE /\ intervals' = intervals
      \/ /\ timer1_count - 1 = 0 /\ intervals > 1 /\ timer1_count' = orig_timer1_count
         /\ gf' = FALSE /\ intervals' = intervals - 1
      \/ /\ timer1_count - 1 = 0 /\ intervals = 1 /\ timer1_count' = 0
         /\ gf' = TRUE /\ intervals' = 0
  BY <1>1, <1>2, <1>5 DEF Tick
<1>8. ClockOK' /\ timer1_count' \in Word /\ gf' \in BOOLEAN /\ intervals' \in 0 .. Intervals
  <2>1. timer1_count <= orig_timer1_count /\ orig_timer1_count' = orig_timer1_count
    BY <1>5 DEF ClockOK
  <2>2. CASE timer1_count - 1 # 0 /\ timer1_count' = timer1_count - 1 /\ gf' = FALSE /\ intervals' = intervals
    <3>1. /\ timer1_count' <= orig_timer1_count' /\ timer1_count' # 0 /\ intervals' # 0
          /\ timer1_count' \in Word /\ intervals' \in 0 .. Intervals
      BY <1>1, <1>3, <1>4, <2>1, <2>2
    <3>. QED
      BY <2>2, <3>1, Zenon DEF ClockOK
  <2>3. CASE intervals > 1 /\ timer1_count' = orig_timer1_count /\ gf' = FALSE /\ intervals' = intervals - 1
    <3>1. /\ timer1_count' <= orig_timer1_count' /\ timer1_count' # 0 /\ intervals' # 0
          /\ timer1_count' \in Word /\ intervals' \in 0 .. Intervals
      BY <1>1, <1>4, <2>1, <2>3
    <3>. QED
      BY <2>3, <3>1, Zenon DEF ClockOK
  <2>4. CASE intervals = 1 /\ timer1_count' = 0 /\ gf' = TRUE /\ intervals' = 0
    BY <1>1, <1>4, <2>1, <2>4, Words DEF ClockOK
  <2>. QED
    BY <1>7, <2>2, <2>3, <2>4
<1>9. \/ /\ timer1_count' = timer1_count - 1
         /\ intervals' = intervals \/ (intervals = 1 /\ intervals' = 0)
      \/ /\ timer1_count = 1 /\ timer1_count' = orig_timer1_count
         /\ intervals > 1 /\ intervals' = intervals - 1
  BY <1>1, <1>7
<1>. QED
  BY <1>1, <1>5, <1>6, <1>8, <1>9

(* Ticks, calls and readings keep every variable in its range.             *)
LEMMA TypeStep ==
  ASSUME TypeOK, ClockOK, [Next]_vars PROVE TypeOK'
<1>. USE CountdownAssumption
<1>1. CASE Tick
  <2>1. ticks' \in 0 .. MaxTicks
    BY <1>1, TickCounts, BytesAreSmall DEF TypeOK
  <2>. QED
    BY <1>1, <2>1, TickCounts DEF TypeOK, reader, history
<1>2. 0 \in Word /\ 0 \in 0 .. MaxTicks
  BY Words, BytesAreSmall
<1>3. CASE Call
  BY <1>2, <1>3 DEF Call, clock, TypeOK
<1>4. CASE ReadLow
  BY <1>2, <1>4, BytesOfWord DEF ReadLow, clock, TypeOK
<1>5. CASE ReadHigh
  <2>1. a' \in Word
    BY <1>5, BytesOfWord, JoinIsInjective DEF ReadHigh, TypeOK
  <2>2. (orig_timer1_count - a') % 65536 \in Word
    <3>1. orig_timer1_count \in Int /\ a' \in Int
      BY <2>1, Words DEF TypeOK
    <3>2. \A i \in Int : i % 65536 \in Int /\ 0 <= i % 65536 /\ i % 65536 <= 65535
      OBVIOUS
    <3>. QED
      BY <3>1, <3>2, Words
  <2>. QED
    BY <1>5, <2>1, <2>2 DEF ReadHigh, clock, history, TypeOK
<1>6. CASE UNCHANGED vars
  BY <1>6 DEF vars, clock, reader, history, TypeOK
<1>. QED
  BY <1>1, <1>3, <1>4, <1>5, <1>6 DEF Next

(* Every tick keeps the readings as far apart as it is allowed to.         *)
LEMMA TickKeeps ==
  ASSUME IInv, Tick PROVE ReadingOK' /\ EndedOK'
<1>1. TypeOK /\ ClockOK /\ ReadingOK /\ EndedOK
  BY DEF IInv
<1>2. /\ timer1_count \in Int /\ orig_timer1_count \in Int /\ held \in Int /\ ticks \in Int
      /\ 0 <= ticks /\ timer1_count' \in Int /\ timer1_count' \in Word
      /\ intervals \in Int /\ intervals <= Intervals /\ Intervals \in Int
  BY <1>1, Words, BytesAreSmall, TickCounts, CountdownAssumption DEF TypeOK
<1>3. UNCHANGED <<orig_timer1_count, at, low, a, again, duration, ended, held>>
  BY <1>1, TickCounts DEF reader, history
<1>4. (at = "high" => low = Low(held))'
  BY <1>1, <1>3 DEF ReadingOK
<1>5. EndedOK'
  BY <1>1, <1>3, TickCounts DEF EndedOK
<1>6. ASSUME FirstInterval' PROVE CountedDown'
  <2>1. /\ FirstInterval /\ timer1_count' = timer1_count - 1
    BY <1>1, <1>2, <1>6, TickCounts DEF FirstInterval
  <2>2. CountedDown
    BY <1>1, <2>1 DEF ReadingOK
  <2>3. at # "idle" => ticks' = ticks + 1
    BY <1>1, TickCounts
  <2>4. at = "low" /\ again => LastReading(timer1_count)'
    <3>. SUFFICES ASSUME at = "low", again PROVE LastReading(timer1_count)'
      OBVIOUS
    <3>1. PICK newer \in Word :
            timer1_count <= newer /\ newer <= held /\ a = Join(Low(held), High(newer))
      BY <2>2 DEF CountedDown, LastReading
    <3>2. newer \in Int /\ timer1_count' <= newer
      BY <1>2, <2>1, <3>1, Words
    <3>. QED
      BY <1>3, <3>1, <3>2 DEF LastReading
  <2>5. at = "high" /\ again => ReadBefore(a, held)'
    BY <1>3, <2>2 DEF CountedDown, ReadBefore
  <2>. QED
    BY <1>2, <1>3, <2>1, <2>2, <2>3, <2>4, <2>5 DEF CountedDown, Returned
<1>7. ASSUME MaxTicks <= 1 PROVE Ticking'
  <2>1. Ticking
    BY <1>1, <1>7 DEF ReadingOK
  <2>2. at # "idle" => ticks = 0 /\ ticks' = 1
    BY <1>1, <1>2, <1>7, TickCounts, CountdownAssumption, BytesAreSmall
  <2>3. After(timer1_count, timer1_count')
    BY <1>1, <1>2, TickCounts DEF After
  <2>4. at = "high" \/ (at = "low" /\ again) =>
          held = timer1_count /\ held <= orig_timer1_count
    BY <2>1, <2>2 DEF Ticking
  <2>5. at = "low" /\ again => a \in Mixed(held, timer1_count')
    BY <2>1, <2>4 DEF Ticking, Mixed
  <2>6. at = "high" /\ again => (\E before \in Word : After(before, held) /\ a \in Mixed(before, held))'
    BY <1>3, <2>1 DEF Ticking, After, Mixed
  <2>. QED
    BY <1>3, <2>1, <2>2, <2>3, <2>4, <2>5, <2>6 DEF Ticking, Returned, After, Mixed
<1>. QED
  BY <1>4, <1>5, <1>6, <1>7 DEF ReadingOK

(* Reading the low byte: what was read before is a tick away at most.      *)
LEMMA ReadLowKeeps ==
  ASSUME IInv, ReadLow PROVE ReadingOK' /\ EndedOK'
<1>1. TypeOK /\ ClockOK /\ ReadingOK /\ EndedOK
  BY DEF IInv
<1>2. /\ at = "low" /\ at' = "high" /\ ticks' = 0 /\ held' = timer1_count /\ low' = Low(timer1_count)
      /\ UNCHANGED <<timer1_count, orig_timer1_count, intervals, gf, a, again, duration, ended>>
  BY DEF ReadLow, clock
<1>3. /\ timer1_count \in Int /\ held \in Int /\ ticks \in Int /\ timer1_count \in Word
      /\ held \in Word /\ MaxTicks \in Int /\ ticks <= MaxTicks /\ timer1_count <= orig_timer1_count
  BY <1>1, Words, BytesAreSmall, CountdownAssumption DEF TypeOK, ClockOK
<1>4. EndedOK'
  <2>1. gf => Low(timer1_count) = 0
    BY <1>1 DEF ClockOK, Low
  <2>. QED
    BY <1>1, <1>2, <2>1 DEF EndedOK, Returned
<1>5. ASSUME FirstInterval' PROVE CountedDown'
  <2>1. CountedDown
    BY <1>1, <1>2, <1>5 DEF ReadingOK, FirstInterval
  <2>2. again => ReadBefore(a, timer1_count)
    <3>. SUFFICES ASSUME again PROVE ReadBefore(a, timer1_count)
      OBVIOUS
    <3>1. PICK newer \in Word :
            timer1_count <= newer /\ newer <= held /\ a = Join(Low(held), High(newer))
      BY <1>2, <2>1 DEF CountedDown, LastReading
    <3>2. held - timer1_count <= MaxTicks
      BY <1>2, <1>3, <2>1 DEF CountedDown
    <3>. QED
      BY <1>3, <3>1, <3>2 DEF ReadBefore
  <2>3. (again => ReadBefore(a, held))'
    BY <1>2, <2>2 DEF ReadBefore
  <2>. QED
    BY <1>2, <1>3, <2>3 DEF CountedDown, Returned
<1>6. ASSUME MaxTicks <= 1 PROVE Ticking'
  <2>1. Ticking
    BY <1>1, <1>6 DEF ReadingOK
  <2>2. again => After(held, timer1_count) /\ a \in Mixed(held, timer1_count)
    BY <1>2, <2>1 DEF Ticking
  <2>3. (again => \E before \in Word : After(before, held) /\ a \in Mixed(before, held))'
    BY <1>2, <1>3, <2>2 DEF After, Mixed
  <2>. QED
    BY <1>2, <1>3, <2>3 DEF Ticking, Returned, After
<1>. QED
  BY <1>2, <1>4, <1>5, <1>6 DEF ReadingOK

(* Reading the high byte: the reading is what was held, or the next one is *)
(* compared with it.                                                       *)
LEMMA ReadHighKeeps ==
  ASSUME IInv, ReadHigh PROVE ReadingOK' /\ EndedOK'
<1>1. TypeOK /\ ClockOK /\ ReadingOK /\ EndedOK
  BY DEF IInv
<1>. DEFINE reading == Join(low, High(timer1_count))
<1>2. /\ at = "high" /\ a' = reading /\ again' = TRUE
      /\ UNCHANGED <<timer1_count, orig_timer1_count, intervals, gf, low, ticks, ended, held>>
      /\ \/ /\ again /\ reading = a /\ at' = "idle"
            /\ duration' = (orig_timer1_count - reading) % 65536
         \/ at' = "low"
  BY DEF ReadHigh, Settled, clock, history
<1>3. /\ timer1_count \in Word /\ held \in Word /\ low = Low(held) /\ orig_timer1_count \in Word
      /\ timer1_count \in Int /\ held \in Int /\ ticks \in Int /\ 0 <= held /\ 0 <= ticks
      /\ orig_timer1_count \in Int /\ orig_timer1_count <= 65535 /\ orig_timer1_count > 1
      /\ timer1_count <= orig_timer1_count
  BY <1>1, <1>2, Words, CountdownAssumption, BytesAreSmall DEF TypeOK, ClockOK, ReadingOK
<1>4. reading = Join(Low(held), High(timer1_count))
  BY <1>3
<1>5. held <= orig_timer1_count => (orig_timer1_count - held) % 65536 = orig_timer1_count - held
  BY <1>3
<1>. HIDE DEF reading
<1>6. EndedOK'
  <2>1. ended => reading = 0
    <3>1. gf => timer1_count = 0
      BY <1>1 DEF ClockOK
    <3>2. ended => low = 0 /\ timer1_count = 0
      BY <1>1, <1>2, <3>1 DEF EndedOK
    <3>. QED
      BY <3>2 DEF reading, Join, High
  <2>2. (orig_timer1_count - 0) % 65536 = orig_timer1_count
    BY <1>3
  <2>. QED
    BY <1>1, <1>2, <2>1, <2>2 DEF EndedOK, Returned
<1>7. ASSUME FirstInterval' PROVE CountedDown'
  <2>1. CountedDown
    BY <1>1, <1>2, <1>7 DEF ReadingOK, FirstInterval
  <2>2. timer1_count <= held /\ held - timer1_count = ticks /\ held <= orig_timer1_count
    BY <1>2, <1>3, <2>1 DEF CountedDown
  <2>3. CASE at' = "idle" /\ again /\ reading = a /\ duration' = (orig_timer1_count - reading) % 65536
    <3>1. ReadBefore(reading, held)
      BY <1>2, <2>1, <2>3 DEF CountedDown
    <3>2. reading = held
      BY <1>3, <1>4, <2>2, <3>1, AgreeingReadings
    <3>. QED
      BY <1>2, <1>5, <2>2, <2>3, <3>2 DEF CountedDown, Returned
  <2>4. CASE at' = "low"
    <3>1. LastReading(timer1_count)'
      BY <1>2, <1>3, <1>4, <2>2 DEF LastReading
    <3>. QED
      BY <1>2, <2>2, <2>4, <3>1 DEF CountedDown, Returned
  <2>. QED
    BY <1>2, <2>3, <2>4
<1>8. ASSUME MaxTicks <= 1 PROVE Ticking'
  <2>1. Ticking
    BY <1>1, <1>8 DEF ReadingOK
  <2>2. After(held, timer1_count) /\ held <= orig_timer1_count /\ (ticks = 0 => timer1_count = held)
    BY <1>2, <2>1 DEF Ticking
  <2>3. CASE at' = "idle" /\ again /\ reading = a /\ duration' = (orig_timer1_count - reading) % 65536
    <3>1. PICK before \in Word : After(before, held) /\ reading \in Mixed(before, held)
      BY <1>2, <2>1, <2>3 DEF Ticking
    <3>2. reading = held
      BY <1>3, <1>4, <2>2, <3>1, CloseReadings
    <3>. QED
      BY <1>2, <1>5, <2>2, <2>3, <3>2 DEF Ticking, Returned
  <2>4. CASE at' = "low"
    <3>1. reading \in Mixed(held, timer1_count)
      BY <1>4 DEF Mixed
    <3>2. (a \in Mixed(held, timer1_count))'
      BY <1>2, <3>1 DEF Mixed
    <3>3. (After(held, timer1_count) /\ held <= orig_timer1_count /\ (ticks = 0 => timer1_count = held))'
      BY <1>2, <2>2 DEF After
    <3>. QED
      BY <1>2, <2>4, <3>2, <3>3 DEF Ticking, Returned
  <2>. QED
    BY <1>2, <2>3, <2>4
<1>. QED
  BY <1>2, <1>6, <1>7, <1>8 DEF ReadingOK

(* Every step keeps the invariant.                                         *)
LEMMA StepInvariant ==
  ASSUME IInv, [Next]_vars PROVE IInv'
<1>1. TypeOK /\ ClockOK /\ ReadingOK /\ EndedOK /\ TypeOK'
  BY TypeStep DEF IInv
<1>2. CASE Tick
  BY <1>1, <1>2, TickCounts, TickKeeps DEF IInv
<1>3. CASE Call
  <2>1. UNCHANGED <<timer1_count, orig_timer1_count, intervals, gf, held, low>>
    BY <1>3 DEF Call, clock
  <2>2. ended' = gf /\ at' = "low" /\ again' = FALSE
    BY <1>3 DEF Call
  <2>3. ClockOK' /\ EndedOK' /\ ReadingOK'
    BY <1>1, <2>1, <2>2 DEF ClockOK, ReadingOK, CountedDown, Ticking, EndedOK, Returned
  <2>. QED
    BY <1>1, <2>3 DEF IInv
<1>4. CASE ReadLow \/ ReadHigh
  <2>1. ClockOK'
    BY <1>1, <1>4 DEF ReadLow, ReadHigh, clock, ClockOK
  <2>. QED
    BY <1>1, <1>4, <2>1, ReadLowKeeps, ReadHighKeeps DEF IInv
<1>5. CASE UNCHANGED vars
  <2>1. /\ UNCHANGED <<timer1_count, orig_timer1_count, intervals, gf, held, low>>
        /\ UNCHANGED <<at, a, again, duration, ticks, ended>>
    BY <1>5 DEF vars, clock, reader, history
  <2>2. ClockOK' /\ EndedOK'
    BY <1>1, <2>1 DEF ClockOK, EndedOK, Returned
  <2>3. ReadingOK'
    BY <1>1, <2>1 DEF ReadingOK, FirstInterval, CountedDown, LastReading, ReadBefore, Ticking,
       After, Mixed, Returned
  <2>. QED
    BY <1>1, <2>2, <2>3 DEF IInv
<1>. QED
  BY <1>2, <1>3, <1>4, <1>5 DEF Next

(* The invariant holds in every behaviour.                                 *)
THEOREM Invariant == Spec => []IInv
BY InitInvariant, StepInvariant, PTL DEF Spec

-----------------------------------------------------------------------------
(* The counter and get_duration() stay in their ranges; in particular the  *)
(* counter of a running measurement never wraps below zero.                *)
THEOREM TypeCorrect == Spec => []TypeOK
<1>1. IInv => TypeOK
  BY DEF IInv
<1>. QED
  BY <1>1, Invariant, PTL

(* get_duration() returns a duration the clock has shown, in spite of the  *)
(* interrupt between the bytes it reads: however fast the ticks come when  *)
(* the counter is never reloaded, and when it is, while two readings take  *)
(* less time than two ticks.                                               *)
THEOREM DurationsAreValid ==
  ASSUME Intervals = 1 \/ MaxTicks <= 1 PROVE Spec => []DurationIsValid
<1>1. IInv => DurationIsValid
  BY DEF IInv, ReadingOK, FirstInterval, CountedDown, Ticking, DurationIsValid
<1>. QED
  BY <1>1, Invariant, PTL

(* The table of a finished measurement is sent with the duration asked for,*)
(* however many intervals it had.                                          *)
THEOREM FinishedMeansExact == Spec => []FinishedIsExact
<1>1. IInv => FinishedIsExact
  BY DEF IInv, EndedOK, FinishedIsExact
<1>. QED
  BY <1>1, Invariant, PTL

(* A duration is late by the ticks of the last reading and no more.        *)
THEOREM DurationsLagByTicks == Spec => LagsByTicks
<1>1. IInv /\ IInv' /\ [Next]_vars =>
        [at = "high" /\ at' = "idle" /\ (intervals = Intervals \/ Intervals = 1)
           => a' - timer1_count \in 0 .. ticks]_vars
  <2>. SUFFICES ASSUME IInv, IInv', [Next]_vars, at = "high", at' = "idle",
                       intervals = Intervals \/ Intervals = 1
                PROVE  a' - timer1_count \in 0 .. ticks
    OBVIOUS
  <2>1. ReadHigh
    BY DEF Next, Tick, Call, ReadLow, vars, reader
  <2>2. again' /\ UNCHANGED <<held, intervals>>
    BY <2>1 DEF ReadHigh, history, clock
  <2>3. CountedDown /\ CountedDown'
    BY <2>2 DEF IInv, ReadingOK, FirstInterval
  <2>4. a' = held /\ held - timer1_count = ticks
    BY <2>2, <2>3 DEF CountedDown, Returned
  <2>5. ticks \in Int /\ 0 <= ticks
    BY CountdownAssumption, BytesAreSmall DEF IInv, TypeOK
  <2>. QED
    BY <2>4, <2>5
<1>. QED
  BY <1>1, Invariant, PTL DEF Spec, LagsByTicks

=============================================================================
