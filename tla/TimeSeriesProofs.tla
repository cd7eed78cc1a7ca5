--------------------------- MODULE TimeSeriesProofs ---------------------------
(***************************************************************************)
(* For every size of the value table, odd ones included, and every         *)
(* interval: the interrupt service routines write inside the table only,   *)
(* what is sent of it never exceeds it, the table of a measurement that is *)
(* over holds the pulses of every interval, the time a table stands for is *)
(* the time the measurement took, and the host's file says so.             *)
(***************************************************************************)
EXTENDS TimeSeriesExport, Division, SequenceTheorems, WellFoundedInduction, TLAPS

-----------------------------------------------------------------------------
(* Remainders are smaller than what is divided by.                         *)
LEMMA Remainders ==
  ASSUME NEW n \in Nat \ {0}, NEW i \in Int
  PROVE  i % n \in Int /\ 0 <= i % n /\ i % n < n
OBVIOUS

(* A pulse counter stays a counter, even when it wraps.                    *)
LEMMA IncrementKeepsCounts ==
  ASSUME NEW counts \in [Slot -> Count], NEW slot \in Slot
  PROVE  Increment(counts, slot) \in [Slot -> Count]
<1>1. Base * Base \in Nat \ {0} /\ counts[slot] \in Int
  BY TimeSeriesAssumption DEF Count
<1>2. (counts[slot] + 1) % (Base * Base) \in Int
      /\ 0 <= (counts[slot] + 1) % (Base * Base)
      /\ (counts[slot] + 1) % (Base * Base) < Base * Base
  BY <1>1, Remainders
<1>3. (counts[slot] + 1) % (Base * Base) \in Count
  BY <1>1, <1>2 DEF Count
<1>. QED
  BY <1>3 DEF Increment

(* A slot exists for every element that begins inside the table.           *)
LEMMA SlotExists ==
  ASSUME NEW address \in 0 .. TableBytes
  PROVE  SlotAt(address) \in Slot
BY TimeSeriesAssumption DEF SlotAt, Slot, ElementBytes

(* What is sent of an element is a byte.                                   *)
LEMMA SendsBytes ==
  ASSUME NEW address \in 0 .. TableBytes, table \in [Slot -> Count]
  PROVE  ByteAt(table, address) \in 0 .. Base - 1
<1>1. table[SlotAt(address)] \in Nat /\ table[SlotAt(address)] < Base * Base
  BY SlotExists, TimeSeriesAssumption DEF Count
<1>2. \A n \in Nat \ {0} : \A i \in Nat : i < n * n => i % n \in 0 .. n - 1 /\ i \div n \in 0 .. n - 1
  OBVIOUS
<1>. QED
  BY <1>1, <1>2, TimeSeriesAssumption DEF ByteAt

-----------------------------------------------------------------------------
(***************************************************************************)
(* The inductive invariant.  TableOK ties the table's size to the element  *)
(* counted into; ModeOK says when the interrupts can still move it; and    *)
(* FrameOK that a table sent with interrupts off keeps its size.           *)
(***************************************************************************)
TableOK ==
  /\ table_cur < table_end => size = table_cur + ElementBytes
  /\ table_cur >= table_end => size = table_cur
  /\ table_cur <= TableBytes /\ size <= TableBytes

ModeOK ==
  /\ pstate = "READY" => table_cur < table_end /\ ~gf /\ main \in {"poll", "uart"}
  /\ pstate = "MEASURING" /\ ~gf => table_cur < table_end /\ timer1_count # 0
  /\ pstate = "DONE" => ~interrupts

InFrame == main \in {"announce", "size", "send"}

FrameOK ==
  /\ InFrame /\ frame.reason # "intermediate" => pstate = "DONE"
  /\ main = "size" /\ frame.reason # "intermediate" => frame.announced = size
  /\ main = "send" /\ frame.reason # "intermediate" =>
       frame.announced = size /\ frame.to_send = size
  /\ main \in {"announce", "size"} => frame.payload = <<>>
  /\ main = "send" => Len(frame.payload) <= frame.to_send

IInv == TypeOK /\ TableOK /\ ModeOK /\ FrameOK

(* The values a reset leaves are in the ranges of the variables.           *)
LEMMA InitialValues ==
  /\ [s \in Slot |-> 0] \in [Slot -> Count]
  /\ NoFrame \in Frame
  /\ 0 \in 0 .. TableBytes /\ 0 \in 0 .. Timer /\ ElementBytes \in 0 .. TableBytes
<1>. USE TimeSeriesAssumption DEF ElementBytes
<1>1. Base * Base \in Nat \ {0}
  OBVIOUS
<1>2. 0 \in Count
  BY <1>1 DEF Count
<1>3. <<>> \in Seq(0 .. Base - 1)
  OBVIOUS
<1>4. 0 \in 0 .. TableBytes /\ 0 \in 0 .. Timer /\ ElementBytes \in 0 .. TableBytes
  OBVIOUS
<1>5. NoFrame \in Frame
  BY <1>3, <1>4 DEF NoFrame, Frame, Reason
<1>. QED
  BY <1>2, <1>4, <1>5

(* The invariant holds at startup.                                         *)
LEMMA InitInvariant == Init => IInv
<1>. SUFFICES ASSUME Init PROVE IInv
  OBVIOUS
<1>. USE DEF Init
<1>3. TypeOK
  BY InitialValues DEF TypeOK
<1>4. TableOK /\ ModeOK /\ FrameOK
  BY TimeSeriesAssumption DEF ElementBytes, TableOK, ModeOK, FrameOK, InFrame, table_end
<1>. QED
  BY <1>3, <1>4 DEF IInv

(* A reset brings the initial state back.                                  *)
LEMMA ResetInvariant == Reset => IInv'
<1>. SUFFICES ASSUME Reset PROVE IInv'
  OBVIOUS
<1>. USE DEF Reset
<1>3. TypeOK'
  BY InitialValues DEF TypeOK
<1>4. TableOK' /\ ModeOK' /\ FrameOK'
  BY TimeSeriesAssumption DEF ElementBytes, TableOK, ModeOK, FrameOK, InFrame, table_end
<1>. QED
  BY <1>3, <1>4 DEF IInv

(* A frame begins with the duration, no size and no bytes.                 *)
LEMMA BeginInvariant ==
  ASSUME IInv, NEW why \in Reason, BeginTable(why), pstate' \in {"MEASURING", "DONE"},
         pstate \in {"MEASURING", "DONE"}, interrupts' \in BOOLEAN,
         why # "intermediate" => pstate' = "DONE",
         pstate' = "DONE" => ~interrupts',
         pstate' = "MEASURING" => pstate = "MEASURING"
  PROVE  IInv'
<1>. USE TimeSeriesAssumption DEF isr_vars, table_vars, BeginTable
<1>1. frame' \in Frame
  <2>1. Timer - timer1_count \in 0 .. Timer
    BY DEF IInv, TypeOK
  <2>. QED
    BY <2>1, InitialValues DEF NoFrame, Frame
<1>2. TypeOK'
  BY <1>1 DEF IInv, TypeOK
<1>3. TableOK' /\ ModeOK'
  BY DEF IInv, TypeOK, TableOK, ModeOK
<1>4. FrameOK'
  BY DEF FrameOK, InFrame, NoFrame
<1>. QED
  BY <1>2, <1>3, <1>4 DEF IInv

(* Neither interrupt writes outside the table.                             *)
LEMMA InterruptInvariant ==
  ASSUME IInv, Pulse \/ Second
  PROVE  IInv'
<1>. USE TimeSeriesAssumption DEF IInv
<1>1. ASSUME Pulse PROVE IInv'
  <2>1. table' \in [Slot -> Count]
    BY <1>1, SlotExists, IncrementKeepsCounts DEF Pulse, TypeOK
  <2>2. arrived' \in [Slot -> Count]
    <3>1. ASSUME (seconds \div Timer + 1) * ElementBytes <= TableBytes
          PROVE  seconds \div Timer \in Slot
      <4>1. seconds \div Timer \in Nat
        BY DEF TypeOK
      <4>. QED
        BY <3>1, <4>1 DEF Slot, ElementBytes
    <3>. QED
      BY <1>1, <3>1, IncrementKeepsCounts DEF Pulse, TypeOK
  <2>3. TypeOK'
    BY <1>1, <2>1, <2>2 DEF Pulse, TypeOK
  <2>. QED
    BY <1>1, <2>3 DEF Pulse, TableOK, ModeOK, FrameOK, InFrame
<1>2. ASSUME Second PROVE IInv'
  <2>1. pstate = "MEASURING" /\ ~gf /\ table_cur < table_end
    BY <1>2 DEF Second, Armed, TypeOK, ModeOK
  <2>2. UNCHANGED <<pstate, main, interrupts, table, arrived, frame>>
    BY <1>2 DEF Second
  <2>3. table_cur \in Nat /\ size \in Nat /\ timer1_count \in 1 .. Timer /\ seconds' \in Nat
    BY <1>2, <2>1 DEF Second, TypeOK, ModeOK
  <2>4. CASE timer1_count # 1
    <3>1. timer1_count' \in 1 .. Timer /\ UNCHANGED <<gf, table_cur, size>>
      BY <1>2, <2>3, <2>4 DEF Second
    <3>. QED
      BY <2>1, <2>2, <2>3, <3>1 DEF TypeOK, TableOK, ModeOK, FrameOK, InFrame
  <2>5. CASE timer1_count = 1
    <3>1. table_cur' = table_cur + ElementBytes /\ timer1_count' \in 0 .. Timer
          /\ \/ /\ table_cur' < table_end /\ size' = size + ElementBytes
                /\ timer1_count' # 0 /\ gf' = gf
             \/ table_cur' >= table_end /\ size' = size /\ gf' = TRUE
      BY <1>2, <2>5 DEF Second
    <3>2. TableOK' /\ table_cur' \in 0 .. TableBytes /\ size' \in 0 .. TableBytes
      BY <2>1, <2>3, <3>1 DEF TableOK, table_end, ElementBytes
    <3>3. TypeOK'
      BY <2>2, <2>3, <3>1, <3>2 DEF TypeOK
    <3>4. ModeOK'
      BY <2>1, <2>2, <3>1 DEF ModeOK
    <3>5. FrameOK'
      BY <2>1, <2>2 DEF FrameOK, InFrame
    <3>. QED
      BY <3>2, <3>3, <3>4, <3>5
  <2>. QED
    BY <2>4, <2>5 DEF TypeOK
<1>. QED
  BY <1>1, <1>2

(* The main program changes the table's bookkeeping in a reset only.       *)
LEMMA MainInvariant ==
  ASSUME IInv, MainProgram
  PROVE  IInv'
<1>. USE TimeSeriesAssumption DEF isr_vars, table_vars
<1>1. CASE NotFinished \/ NoCommand
  BY <1>1 DEF NotFinished, NoCommand, IInv, TypeOK, TableOK, ModeOK, FrameOK, InFrame
<1>2. CASE FinishedTwice \/ ResetCommand
  BY <1>2, ResetInvariant DEF FinishedTwice, ResetCommand
<1>3. CASE Start
  BY <1>3 DEF Start, IInv, TypeOK, TableOK, ModeOK, FrameOK, InFrame
<1>4. CASE Finished \/ Intermediate \/ Abort \/ Resend
  <2>1. CASE Finished
    BY <2>1, BeginInvariant DEF Finished, Reason
  <2>2. CASE Intermediate
    BY <2>2, BeginInvariant DEF Intermediate, IInv, TypeOK, Reason
  <2>3. CASE Abort
    BY <2>3, BeginInvariant DEF Abort, Reason
  <2>4. CASE Resend
    BY <2>4, BeginInvariant DEF Resend, IInv, TypeOK, ModeOK, Reason
  <2>. QED
    BY <1>4, <2>1, <2>2, <2>3, <2>4
<1>5. CASE Announce
  <2>1. frame' \in Frame
    BY <1>5 DEF Announce, IInv, TypeOK, Frame
  <2>. QED
    BY <1>5, <2>1 DEF Announce, IInv, TypeOK, TableOK, ModeOK, FrameOK, InFrame, Frame
<1>6. CASE ReadSize
  <2>1. frame' \in Frame /\ frame'.to_send = size /\ frame'.payload = frame.payload
        /\ frame'.reason = frame.reason /\ frame'.announced = frame.announced
    BY <1>6 DEF ReadSize, IInv, TypeOK, Frame
  <2>2. UNCHANGED <<pstate, interrupts, isr_vars>> /\ main = "size" /\ main' = "send"
    BY <1>6 DEF ReadSize
  <2>3. TypeOK' /\ TableOK' /\ ModeOK'
    BY <2>1, <2>2 DEF IInv, TypeOK, TableOK, ModeOK
  <2>4. FrameOK'
    <3>1. frame.payload = <<>> /\ size \in Nat
      BY <2>2 DEF IInv, TypeOK, FrameOK
    <3>. QED
      BY <2>1, <2>2, <3>1 DEF IInv, FrameOK, InFrame
  <2>. QED
    BY <2>3, <2>4 DEF IInv
<1>7. CASE SendByte
  <2>1. Len(frame.payload) \in 0 .. TableBytes /\ frame.payload \in Seq(0 .. Base - 1)
        /\ Len(frame.payload) < frame.to_send /\ frame.to_send \in Nat
    BY <1>7 DEF SendByte, IInv, TypeOK, Frame
  <2>2. ByteAt(table, Len(frame.payload)) \in 0 .. Base - 1
    BY <2>1, SendsBytes DEF IInv, TypeOK
  <2>3. PICK byte \in 0 .. Base - 1 :
          frame' = [frame EXCEPT !.payload = Append(frame.payload, byte)]
    BY <1>7, <2>2 DEF SendByte
  <2>4. Append(frame.payload, byte) \in Seq(0 .. Base - 1)
        /\ Len(Append(frame.payload, byte)) = Len(frame.payload) + 1
    BY <2>1
  <2>5. frame' \in Frame /\ Len(frame'.payload) = Len(frame.payload) + 1
        /\ frame'.reason = frame.reason /\ frame'.announced = frame.announced
        /\ frame'.to_send = frame.to_send
    BY <2>3, <2>4 DEF IInv, TypeOK, Frame
  <2>6. UNCHANGED <<pstate, main, interrupts, isr_vars>> /\ main = "send"
    BY <1>7 DEF SendByte
  <2>7. TypeOK' /\ TableOK' /\ ModeOK'
    BY <2>5, <2>6 DEF IInv, TypeOK, TableOK, ModeOK
  <2>8. FrameOK'
    BY <2>1, <2>5, <2>6 DEF IInv, FrameOK, InFrame
  <2>. QED
    BY <2>7, <2>8 DEF IInv
<1>8. CASE EndTable
  <2>1. NoFrame \in Frame
    BY DEF NoFrame, Frame, Reason
  <2>2. gf' \in BOOLEAN /\ (pstate # "DONE" => gf' = gf)
    BY <1>8 DEF EndTable, IInv, TypeOK, FrameOK, InFrame
  <2>. QED
    BY <1>8, <2>1, <2>2 DEF EndTable, IInv, TypeOK, TableOK, ModeOK, FrameOK, InFrame
<1>. QED
  BY <1>1, <1>2, <1>3, <1>4, <1>5, <1>6, <1>7, <1>8 DEF MainProgram

(* The invariant holds in every behaviour.                                 *)
THEOREM Invariant == Spec => []IInv
<1>1. IInv /\ UNCHANGED vars => IInv'
  BY DEF IInv, vars, isr_vars, table_vars, TypeOK, TableOK, ModeOK, FrameOK, InFrame
<1>2. IInv /\ [Next]_vars => IInv'
  BY <1>1, MainInvariant, InterruptInvariant DEF Next
<1>. QED
  BY <1>2, InitInvariant, PTL DEF Spec

-----------------------------------------------------------------------------
(* The table and its size stay inside the memory the linker gave them.     *)
THEOREM TypeCorrect == Spec => []TypeOK
<1>1. IInv => TypeOK
  BY DEF IInv
<1>. QED
  BY <1>1, Invariant, PTL

(* The pulse counter's interrupt never writes past the table's end, and    *)
(* never counts into an element that would not be sent: table_end is       *)
(* rounded the right way for every table size.                             *)
THEOREM CountsStayInBounds == Spec => []CountsInBounds
<1>1. IInv => CountsInBounds
  BY TimeSeriesAssumption DEF IInv, TypeOK, TableOK, CountsInBounds, table_end, ElementBytes
<1>. QED
  BY <1>1, Invariant, PTL

(* Both together, which the runs check.                                    *)
THEOREM StaysInBounds == Spec => []InBounds
BY TypeCorrect, CountsStayInBounds, PTL DEF InBounds

(* The frame of every table but an intermediate one holds as many bytes    *)
(* as its header announces, although send_table() reads the size twice.    *)
THEOREM FinalFramesAreWellFormed ==
  Spec => [][EndsTable /\ frame.reason # "intermediate" => frame.announced = Len(frame.payload)]_vars
<1>1. IInv /\ [Next]_vars =>
        [EndsTable /\ frame.reason # "intermediate" => frame.announced = Len(frame.payload)]_vars
  <2>. SUFFICES ASSUME IInv, [Next]_vars, EndsTable, frame.reason # "intermediate"
                PROVE  frame.announced = Len(frame.payload)
    OBVIOUS
  <2>1. EndTable \/ FinishedTwice \/ ResetCommand
    BY DEF EndsTable, Next, MainProgram, NotFinished, Finished, NoCommand, Start, Intermediate,
       Abort, Resend, Announce, ReadSize, SendByte, BeginTable, Pulse, Second, vars
  <2>2. Len(frame.payload) = frame.to_send
    BY <2>1 DEF EndsTable, EndTable, FinishedTwice, ResetCommand
  <2>. QED
    BY <2>2 DEF EndsTable, IInv, FrameOK
<1>. QED
  BY <1>1, Invariant, PTL DEF Spec

-----------------------------------------------------------------------------
(***************************************************************************)
(* What a table stands for.  The clock: whole intervals and the begun one  *)
(* are the seconds that have passed, and an interval that ended has moved  *)
(* the counter on to the next element, so that every pulse is counted into *)
(* the one of its interval.  A table that is sent with interrupts off      *)
(* keeps its duration, its size and its counts.                            *)
(***************************************************************************)
ClockOK ==
  /\ size = ElementBytes * SlotAt(size) /\ SlotAt(size) \in Nat \ {0}
  /\ pstate = "READY" => seconds = 0 /\ size = ElementBytes
  /\ pstate # "READY" => seconds = (SlotAt(size) - 1) * Timer + (Timer - timer1_count)
  /\ gf => table_cur >= table_end
  /\ pstate # "READY" /\ table_cur >= table_end => timer1_count = 0

SentOK ==
  InFrame /\ frame.reason # "intermediate" =>
    /\ frame.duration = Timer - timer1_count
    /\ frame.reason = "done" => table_cur >= table_end
    /\ \A k \in 1 .. Len(frame.payload) : frame.payload[k] = ByteAt(table, k - 1)

ExactInv == ClockOK /\ table = arrived /\ SentOK

(* Elements by their size.                                                 *)
LEMMA Slots ==
  /\ \A k \in Nat : SlotAt(ElementBytes * k) = k /\ SlotAt(ElementBytes * k + 1) = k
  /\ \A address \in Nat : SlotAt(address + ElementBytes) = SlotAt(address) + 1
  /\ SlotAt(ElementBytes) = 1
BY DEF SlotAt, ElementBytes

LEMMA StartExact ==
  ASSUME Init
  PROVE  ExactInv
<1>1. ClockOK
  BY Slots, TimeSeriesAssumption DEF Init, ClockOK, table_end, ElementBytes
<1>2. table = arrived /\ SentOK
  BY DEF Init, SentOK, InFrame
<1>. QED
  BY <1>1, <1>2 DEF ExactInv

LEMMA ResetExact ==
  ASSUME Reset
  PROVE  ExactInv'
<1>1. ClockOK'
  BY Slots, TimeSeriesAssumption DEF Reset, ClockOK, table_end, ElementBytes
<1>2. table' = arrived' /\ SentOK'
  BY DEF Reset, SentOK, InFrame
<1>. QED
  BY <1>1, <1>2 DEF ExactInv

(* A pulse is counted into the element of its interval, or into none, in   *)
(* the table as in the history.                                            *)
LEMMA PulseExact ==
  ASSUME IInv, ExactInv, Pulse
  PROVE  ExactInv'
<1>. DEFINE S == SlotAt(size)  interval == seconds \div Timer
<1>1. /\ pstate = "MEASURING" \/ pstate = "DONE"
      /\ interrupts /\ UNCHANGED <<pstate, main, interrupts, gf, table_cur, size, timer1_count,
                                   seconds, frame>>
  BY DEF Pulse, Armed, IInv, TypeOK
<1>2. pstate = "MEASURING"
  BY <1>1 DEF IInv, ModeOK
<1>3. /\ Timer \in Nat \ {0} /\ TableBytes \in Nat /\ table_cur \in Nat /\ size \in Nat
      /\ timer1_count \in 0 .. Timer /\ S \in Nat \ {0} /\ size = 2 * S
      /\ seconds = (S - 1) * Timer + (Timer - timer1_count)
  BY <1>2, TimeSeriesAssumption DEF IInv, TypeOK, ExactInv, ClockOK, ElementBytes
<1>. HIDE DEF S
<1>4. table' = arrived'
  <2>1. CASE table_cur < table_end
    <3>1. size = table_cur + 2 /\ size <= TableBytes /\ timer1_count # 0
      BY <1>2, <1>3, <2>1, TimeSeriesAssumption
         DEF IInv, TableOK, ModeOK, ExactInv, ClockOK, ElementBytes, table_end
    <3>2. interval = S - 1
      <4>1. PICK q \in Nat, r \in 0 .. Timer - 1 : q = S - 1 /\ r = Timer - timer1_count
        BY <1>3, <3>1
      <4>2. Timer * q + r = seconds
        BY <1>3, <4>1
      <4>. QED
        BY <1>3, <4>1, <4>2, DivisionIsUnique
    <3>3. SlotAt(table_cur) = S - 1
      <4>1. PICK q \in Nat : q = S - 1
        BY <1>3
      <4>2. table_cur = ElementBytes * q
        BY <1>3, <3>1, <4>1 DEF ElementBytes
      <4>. QED
        BY <4>1, <4>2, Slots
    <3>4. (interval + 1) * ElementBytes <= TableBytes
      BY <1>3, <3>1, <3>2 DEF ElementBytes
    <3>5. table' = Increment(table, S - 1) /\ arrived' = Increment(arrived, S - 1)
      BY <2>1, <3>2, <3>3, <3>4 DEF Pulse
    <3>. QED
      BY <3>5 DEF ExactInv
  <2>2. CASE ~(table_cur < table_end)
    <3>1. size = table_cur /\ timer1_count = 0 /\ table_cur >= TableBytes - 1
      BY <1>2, <1>3, <2>2, TimeSeriesAssumption
         DEF IInv, TableOK, ExactInv, ClockOK, ElementBytes, table_end
    <3>2. interval = S
      <4>1. Timer * S + 0 = seconds
        BY <1>3, <3>1
      <4>. QED
        BY <1>3, <4>1, DivisionIsUnique
    <3>3. ~((interval + 1) * ElementBytes <= TableBytes)
      BY <1>3, <3>1, <3>2 DEF ElementBytes
    <3>. QED
      BY <2>2, <3>3 DEF Pulse, ExactInv
  <2>. QED
    BY <2>1, <2>2
<1>5. ClockOK'
  BY <1>1 DEF ExactInv, ClockOK, table_end
<1>6. SentOK'
  <2>1. ~(InFrame /\ frame.reason # "intermediate")
    BY <1>2 DEF IInv, FrameOK
  <2>. QED
    BY <1>1, <2>1 DEF SentOK, InFrame
<1>. QED
  BY <1>4, <1>5, <1>6 DEF ExactInv

(* A second: of the interval that is begun, or its last.                   *)
LEMMA SecondExact ==
  ASSUME IInv, ExactInv, Second
  PROVE  ExactInv'
<1>1. /\ pstate = "MEASURING" /\ ~gf /\ table_cur < table_end /\ seconds' = seconds + 1
      /\ timer1_count \in 1 .. Timer /\ size = table_cur + ElementBytes
      /\ table_cur \in Nat /\ size \in Nat /\ Timer \in Nat \ {0, 1}
      /\ UNCHANGED <<pstate, main, interrupts, table, arrived, frame>>
  BY TimeSeriesAssumption DEF Second, Armed, IInv, TypeOK, ModeOK, TableOK
<1>2. /\ size = ElementBytes * SlotAt(size) /\ SlotAt(size) \in Nat \ {0}
      /\ seconds = (SlotAt(size) - 1) * Timer + (Timer - timer1_count)
  BY <1>1 DEF ExactInv, ClockOK
<1>3. CASE timer1_count # 1
  <2>1. timer1_count' = timer1_count - 1 /\ UNCHANGED <<gf, table_cur, size>>
    BY <1>1, <1>3 DEF Second
  <2>2. seconds' = (SlotAt(size) - 1) * Timer + (Timer - timer1_count')
    <3>1. (SlotAt(size) - 1) * Timer \in Int
      BY <1>1, <1>2
    <3>. QED
      BY <1>1, <1>2, <2>1, <3>1
  <2>3. ~(table_cur >= table_end)
    BY <1>1, TimeSeriesAssumption DEF table_end, ElementBytes
  <2>4. ClockOK'
    BY <1>1, <1>2, <2>1, <2>2, <2>3 DEF ClockOK, table_end
  <2>. QED
    BY <1>1, <2>4 DEF ExactInv, SentOK, InFrame, IInv, FrameOK
<1>4. CASE timer1_count = 1
  <2>1. /\ table_cur' = table_cur + ElementBytes
        /\ \/ /\ table_cur' < table_end /\ size' = size + ElementBytes
              /\ timer1_count' = Timer /\ gf' = gf
           \/ /\ table_cur' >= table_end /\ gf' = TRUE /\ timer1_count' = 0 /\ size' = size
    BY <1>4 DEF Second
  <2>2. seconds' = SlotAt(size) * Timer
    <3>1. \A s \in Nat \ {0}, t \in Nat : ((s - 1) * t + (t - 1)) + 1 = s * t
      OBVIOUS
    <3>. QED
      BY <1>1, <1>2, <1>4, <3>1
  <2>3. CASE table_cur' < table_end
    <3>1. /\ size' = size + ElementBytes /\ timer1_count' = Timer /\ gf' = FALSE
      BY <1>1, <2>1, <2>3, TimeSeriesAssumption DEF table_end, ElementBytes
    <3>2. SlotAt(size') = SlotAt(size) + 1
      BY <1>1, <3>1, Slots
    <3>3. size' = ElementBytes * SlotAt(size') /\ SlotAt(size') \in Nat \ {0}
      BY <1>1, <1>2, <3>1, <3>2 DEF ElementBytes
    <3>4. seconds' = (SlotAt(size') - 1) * Timer + (Timer - timer1_count')
      BY <1>1, <1>2, <2>2, <3>1, <3>2
    <3>5. ~(table_cur' >= table_end)
      BY <1>1, <2>1, <2>3, TimeSeriesAssumption DEF table_end, ElementBytes
    <3>6. ClockOK'
      BY <1>1, <3>1, <3>3, <3>4, <3>5 DEF ClockOK, table_end
    <3>. QED
      BY <1>1, <3>6 DEF ExactInv, SentOK, InFrame, IInv, FrameOK
  <2>4. CASE ~(table_cur' < table_end)
    <3>1. timer1_count' = 0 /\ size' = size /\ table_cur' >= table_end
      BY <2>1, <2>4
    <3>2. seconds' = (SlotAt(size') - 1) * Timer + (Timer - timer1_count')
      <4>1. \A s \in Nat \ {0}, t \in Nat : (s - 1) * t + (t - 0) = s * t
        OBVIOUS
      <4>. QED
        BY <1>1, <1>2, <2>2, <3>1, <4>1
    <3>3. ClockOK'
      BY <1>1, <1>2, <3>1, <3>2 DEF ClockOK, table_end
    <3>. QED
      BY <1>1, <3>3 DEF ExactInv, SentOK, InFrame, IInv, FrameOK
  <2>. QED
    BY <2>3, <2>4
<1>. QED
  BY <1>3, <1>4

(* The steps of send_table() copy what does not change meanwhile.          *)
LEMMA MainExact ==
  ASSUME IInv, ExactInv, MainProgram
  PROVE  ExactInv'
<1>. USE DEF isr_vars, table_vars
<1>1. CASE FinishedTwice \/ ResetCommand
  BY <1>1, ResetExact DEF FinishedTwice, ResetCommand
<1>2. CASE NotFinished \/ NoCommand
  BY <1>2 DEF NotFinished, NoCommand, ExactInv, ClockOK, SentOK, InFrame, table_end
<1>3. CASE Start
  <2>1. ClockOK'
    BY <1>3, Slots, TimeSeriesAssumption
       DEF Start, IInv, TypeOK, ModeOK, ExactInv, ClockOK, ElementBytes, table_end
  <2>. QED
    BY <1>3, <2>1 DEF Start, ExactInv, SentOK, InFrame
<1>4. ASSUME NEW why \in Reason, BeginTable(why), pstate # "READY", pstate' # "READY",
             why = "done" => gf
      PROVE  ExactInv'
  <2>1. ClockOK'
    BY <1>4 DEF BeginTable, ExactInv, ClockOK, table_end
  <2>2. frame'.payload = <<>> /\ frame'.reason = why /\ frame'.duration = Timer - timer1_count
    BY <1>4 DEF BeginTable, NoFrame
  <2>3. SentOK'
    BY <1>4, <2>2 DEF BeginTable, SentOK, ExactInv, ClockOK, table_end
  <2>. QED
    BY <1>4, <2>1, <2>3 DEF BeginTable, ExactInv
<1>5. CASE Finished \/ Intermediate \/ Abort \/ Resend
  BY <1>4, <1>5 DEF Finished, Intermediate, Abort, Resend, Reason
<1>6. CASE Announce \/ ReadSize
  <2>1. /\ frame'.payload = frame.payload /\ frame'.reason = frame.reason
        /\ frame'.duration = frame.duration /\ UNCHANGED <<pstate, interrupts, isr_vars>>
        /\ main \in {"announce", "size"}
    BY <1>6 DEF Announce, ReadSize, IInv, TypeOK, Frame
  <2>2. ClockOK'
    BY <2>1 DEF ExactInv, ClockOK, table_end
  <2>3. SentOK'
    BY <2>1 DEF ExactInv, SentOK, InFrame, table_end, ByteAt
  <2>. QED
    BY <2>1, <2>2, <2>3 DEF ExactInv
<1>7. CASE SendByte
  <2>1. /\ frame.payload \in Seq(0 .. Base - 1) /\ Len(frame.payload) \in Nat
        /\ Len(frame.payload) < frame.to_send /\ frame.to_send \in 0 .. TableBytes
        /\ UNCHANGED <<pstate, main, interrupts, isr_vars>> /\ main = "send"
    BY <1>7 DEF SendByte, IInv, TypeOK, Frame
  <2>2. ByteAt(table, Len(frame.payload)) \in 0 .. Base - 1
    BY <2>1, SendsBytes, TimeSeriesAssumption DEF IInv, TypeOK
  <2>3. PICK byte \in 0 .. Base - 1 : /\ byte = ByteAt(table, Len(frame.payload))
                                      /\ frame' = [frame EXCEPT !.payload = Append(frame.payload, byte)]
    BY <1>7, <2>2 DEF SendByte
  <2>4. /\ frame'.payload = Append(frame.payload, byte) /\ frame'.reason = frame.reason
        /\ frame'.duration = frame.duration
    BY <2>3 DEF IInv, TypeOK, Frame
  <2>5. /\ Len(frame'.payload) = Len(frame.payload) + 1
        /\ \A k \in 1 .. Len(frame.payload) : frame'.payload[k] = frame.payload[k]
        /\ frame'.payload[Len(frame.payload) + 1] = byte
    BY <2>1, <2>4, AppendProperties
  <2>6. SentOK'
    <3>. SUFFICES ASSUME InFrame, frame.reason # "intermediate"
                  PROVE  /\ frame'.duration = Timer - timer1_count
                         /\ frame'.reason = "done" => table_cur >= table_end
                         /\ \A k \in 1 .. Len(frame'.payload) :
                              frame'.payload[k] = ByteAt(table, k - 1)
      BY <2>1, <2>4 DEF SentOK, InFrame, table_end, ByteAt
    <3>1. /\ frame.duration = Timer - timer1_count
          /\ frame.reason = "done" => table_cur >= table_end
          /\ \A k \in 1 .. Len(frame.payload) : frame.payload[k] = ByteAt(table, k - 1)
      BY DEF ExactInv, SentOK
    <3>2. \A k \in 1 .. Len(frame'.payload) : frame'.payload[k] = ByteAt(table, k - 1)
      <4>. TAKE k \in 1 .. Len(frame'.payload)
      <4>1. k \in 1 .. Len(frame.payload) \/ k = Len(frame.payload) + 1
        BY <2>1, <2>5
      <4>2. CASE k = Len(frame.payload) + 1
        <5>1. k - 1 = Len(frame.payload)
          BY <2>1, <4>2
        <5>. QED
          BY <2>3, <2>5, <4>2, <5>1
      <4>. QED
        BY <2>5, <3>1, <4>1, <4>2
    <3>. QED
      BY <2>4, <3>1, <3>2
  <2>7. ClockOK'
    BY <2>1 DEF ExactInv, ClockOK, table_end
  <2>. QED
    BY <2>1, <2>6, <2>7 DEF ExactInv
<1>8. CASE EndTable
  <2>1. ClockOK'
    BY <1>8 DEF EndTable, ExactInv, ClockOK, table_end
  <2>. QED
    BY <1>8, <2>1 DEF EndTable, ExactInv, SentOK, InFrame
<1>. QED
  BY <1>1, <1>2, <1>3, <1>5, <1>6, <1>7, <1>8 DEF MainProgram

LEMMA ExactInvariant == Spec => []ExactInv
<1>1. Init => ExactInv
  BY StartExact
<1>2. IInv /\ ExactInv /\ [Next]_vars => ExactInv'
  <2>1. ExactInv /\ UNCHANGED vars => ExactInv'
    BY DEF vars, isr_vars, table_vars, ExactInv, ClockOK, SentOK, InFrame, table_end, ByteAt
  <2>. QED
    BY <2>1, MainExact, PulseExact, SecondExact DEF Next
<1>. QED
  BY <1>1, <1>2, Invariant, PTL DEF Spec

-----------------------------------------------------------------------------
(* The host's reading of an element of two bytes.                          *)
LEMMA TwoByteNumber ==
  ASSUME NEW bytes \in Seq(Nat), Len(bytes) = 2
  PROVE  Received!Number(bytes) = bytes[1] + Base * bytes[2]
<1>. DEFINE Is(f) == f = [k \in 1 .. Len(bytes) + 1 |->
                            IF k > Len(bytes) THEN 0 ELSE bytes[k] + Base * f[k + 1]]
            value == CHOOSE f : Is(f)
            given == [k \in 1 .. 3 |-> IF k = 3 THEN 0 ELSE IF k = 2 THEN bytes[2]
                                       ELSE bytes[1] + Base * bytes[2]]
<1>1. Received!Number(bytes) = value[1]
  BY Zenon DEF Received!Number
<1>2. Base \in Nat /\ Len(bytes) + 1 = 3 /\ bytes[1] \in Nat /\ bytes[2] \in Nat
  <2>1. 1 \in 1 .. Len(bytes) /\ 2 \in 1 .. Len(bytes) /\ Len(bytes) + 1 = 3
    OBVIOUS
  <2>2. bytes[1] \in Nat /\ bytes[2] \in Nat
    BY <2>1, ElementOfSeq
  <2>. QED
    BY <2>1, <2>2, TimeSeriesAssumption
<1>3. Is(given)
  <2>1. ASSUME NEW k \in 1 .. 3
        PROVE  given[k] = IF k > Len(bytes) THEN 0 ELSE bytes[k] + Base * given[k + 1]
    <3>1. k = 1 \/ k = 2 \/ k = 3
      OBVIOUS
    <3>. QED
      BY <1>2, <3>1
  <2>2. given = [k \in 1 .. 3 |-> IF k > Len(bytes) THEN 0 ELSE bytes[k] + Base * given[k + 1]]
    BY <2>1
  <2>. QED
    BY <1>2, <2>2
<1>4. Is(value)
  BY <1>3, Zenon
<1>. HIDE DEF value
<1>5. \A k \in 1 .. 3 : value[k] = IF k > Len(bytes) THEN 0 ELSE bytes[k] + Base * value[k + 1]
  BY <1>2, <1>4
<1>6. value[3] = 0 /\ value[2] = bytes[2] + Base * value[3] /\ value[1] = bytes[1] + Base * value[2]
  BY <1>2, <1>5
<1>7. value[2] = bytes[2]
  BY <1>2, <1>6
<1>. QED
  BY <1>1, <1>6, <1>7

LEMMA ReceivedElement ==
  ASSUME NEW bytes \in Seq(Nat), NEW s \in Nat, ElementBytes * (s + 1) <= Len(bytes)
  PROVE  Received!element(bytes, s)
           = bytes[ElementBytes * s + 1] + Base * bytes[ElementBytes * s + 2]
<1>. DEFINE first == ElementBytes * s + 1  last == ElementBytes * (s + 1)
            part  == SubSeq(bytes, first, last)
<1>1. /\ first \in Nat \ {0} /\ last = first + 1 /\ last <= Len(bytes) /\ Len(bytes) \in Nat
      /\ ElementBytes * s + 2 = last
  BY LenProperties DEF ElementBytes
<1>. HIDE DEF first, last
<1>2. \A k \in first .. last : bytes[k] \in Nat
  BY <1>1, ElementOfSeq
<1>3. /\ part \in Seq(Nat) /\ Len(part) = last - first + 1
      /\ \A k \in 1 .. last - first + 1 : part[k] = bytes[first + k - 1]
  BY <1>1, <1>2, SubSeqProperties
<1>4. Len(part) = 2 /\ part[1] = bytes[first] /\ part[2] = bytes[last]
  BY <1>1, <1>3
<1>5. Received!Number(part) = part[1] + Base * part[2]
  BY <1>3, <1>4, TwoByteNumber
<1>6. Received!element(bytes, s) = Received!Number(part)
  BY DEF Received!element, part, first, last
<1>. QED
  BY <1>1, <1>4, <1>5, <1>6 DEF first

(* Its elements are those of the table they were copied from.              *)
LEMMA ReadsBack ==
  ASSUME NEW counts \in [Slot -> Count], NEW bytes \in Seq(0 .. Base - 1),
         NEW s \in Nat, ElementBytes * (s + 1) <= Len(bytes), Len(bytes) <= TableBytes,
         bytes[ElementBytes * s + 1] = ByteAt(counts, ElementBytes * s),
         bytes[ElementBytes * s + 2] = ByteAt(counts, ElementBytes * s + 1)
  PROVE  Received!element(bytes, s) = counts[s]
<1>1. /\ Base \in Nat \ {0, 1} /\ TableBytes \in Nat
      /\ 2 * (s + 1) <= Len(bytes) /\ Len(bytes) \in Nat /\ s \in Slot
  <2>1. Len(bytes) \in Nat /\ TableBytes \in Nat
    BY LenProperties, TimeSeriesAssumption
  <2>. QED
    BY <2>1, TimeSeriesAssumption DEF ElementBytes, Slot
<1>2. bytes \in Seq(Nat)
  <2>1. 0 .. Base - 1 \subseteq Nat
    BY <1>1
  <2>. QED
    BY <2>1, SeqMonotonic
<1>3. Received!element(bytes, s)
        = bytes[ElementBytes * s + 1] + Base * bytes[ElementBytes * s + 2]
  BY <1>2, ReceivedElement
<1>4. SlotAt(2 * s) = s /\ SlotAt(2 * s + 1) = s /\ (2 * s) % 2 = 0 /\ (2 * s + 1) % 2 # 0
  BY DEF SlotAt, ElementBytes
<1>5. ByteAt(counts, 2 * s) = counts[s] % Base /\ ByteAt(counts, 2 * s + 1) = counts[s] \div Base
  BY <1>4 DEF ByteAt, ElementBytes
<1>6. counts[s] \in Nat
  BY <1>1 DEF Count
<1>7. /\ counts[s] \div Base \in Nat /\ counts[s] % Base \in 0 .. Base - 1
      /\ counts[s] = Base * (counts[s] \div Base) + (counts[s] % Base)
  BY <1>1, <1>6, DivisionWithRemainder
<1>8. \A low, high \in Nat : low + Base * high = Base * high + low
  BY <1>1
<1>9. counts[s] % Base \in Nat
  BY <1>1, <1>7
<1>10. (counts[s] % Base) + Base * (counts[s] \div Base)
         = Base * (counts[s] \div Base) + (counts[s] % Base)
  BY <1>7, <1>8, <1>9, Zenon
<1>. QED
  BY <1>3, <1>5, <1>7, <1>10 DEF ElementBytes

(***************************************************************************)
(* The time a table stands for, by the duration get_duration() told and    *)
(* the size it is sent with, is the time that has passed; within one       *)
(* interval when the measurement goes on in between.                       *)
(***************************************************************************)
THEOREM TablesTellTheTime == Spec => TimeFitsTable
<1>1. ASSUME IInv, ExactInv, Next, main = "size", main' = "send"
      PROVE  IF frame.reason = "intermediate"
             THEN StandsFor' \in (seconds - Timer) .. (seconds + Timer)
             ELSE StandsFor' = seconds
  <2>1. ReadSize
    BY <1>1 DEF Next, MainProgram, NotFinished, Finished, FinishedTwice, NoCommand, Start,
       Intermediate, Abort, Resend, ResetCommand, Announce, SendByte, EndTable, BeginTable,
       Reset, Pulse, Second
  <2>2. /\ frame'.to_send = size /\ frame'.duration = frame.duration
        /\ frame.duration \in 0 .. Timer /\ timer1_count \in 0 .. Timer
        /\ Timer \in Nat /\ pstate # "READY"
    BY <1>1, <2>1, TimeSeriesAssumption DEF ReadSize, IInv, TypeOK, ModeOK, Frame
  <2>3. /\ StandsFor' = (SlotAt(size) - 1) * Timer + frame.duration
        /\ SlotAt(size) \in Nat \ {0}
        /\ seconds = (SlotAt(size) - 1) * Timer + (Timer - timer1_count)
    BY <1>1, <2>2 DEF StandsFor, ExactInv, ClockOK, SlotAt, ElementBytes
  <2>4. PICK whole \in Int : whole = (SlotAt(size) - 1) * Timer
    BY <2>2, <2>3
  <2>5. CASE frame.reason = "intermediate"
    BY <2>2, <2>3, <2>4, <2>5
  <2>6. CASE frame.reason # "intermediate"
    BY <1>1, <2>3, <2>6 DEF ExactInv, SentOK, InFrame
  <2>. QED
    BY <2>5, <2>6
<1>2. IInv /\ ExactInv /\ [Next]_vars =>
        [main = "size" /\ main' = "send" =>
           IF frame.reason = "intermediate"
           THEN StandsFor' \in (seconds - Timer) .. (seconds + Timer)
           ELSE StandsFor' = seconds]_vars
  BY <1>1
<1>. QED
  BY <1>2, Invariant, ExactInvariant, PTL DEF Spec, TimeFitsTable

(***************************************************************************)
(* The host reads, from the table of a measurement that is over, the       *)
(* pulses of every interval; of one that ran to its end, all of them.      *)
(***************************************************************************)
THEOREM FinalTablesAreExact == Spec => FinalTableExact
<1>. DEFINE Exact ==
       /\ frame.announced = Len(frame.payload)
       /\ \A s \in 0 .. Received!element_count(frame.payload) - 1 :
            Received!element(frame.payload, s) = arrived[s]
       /\ frame.reason = "done" =>
            /\ Len(frame.payload) = ElementBytes * (TableBytes \div ElementBytes)
            /\ frame.duration = Timer
            /\ seconds = Timer * (TableBytes \div ElementBytes)
<1>1. ASSUME IInv, ExactInv, Next, EndsTable, frame.reason # "intermediate"
      PROVE  Exact
  <2>1. EndTable
    BY <1>1 DEF EndsTable, Next, MainProgram, NotFinished, Finished, FinishedTwice, NoCommand,
       Start, Intermediate, Abort, Resend, ResetCommand, Announce, ReadSize, SendByte,
       BeginTable, Reset, Pulse, Second
  <2>2. /\ frame.announced = size /\ Len(frame.payload) = size /\ pstate = "DONE"
        /\ frame.payload \in Seq(0 .. Base - 1) /\ main = "send"
        /\ size \in 0 .. TableBytes /\ table \in [Slot -> Count] /\ table_cur \in Nat
        /\ timer1_count \in 0 .. Timer /\ Timer \in Nat /\ TableBytes \in Nat
        /\ Base \in Nat \ {0, 1}
    BY <1>1, <2>1, TimeSeriesAssumption
       DEF EndTable, IInv, TypeOK, FrameOK, InFrame, EndsTable, Frame
  <2>3. /\ table = arrived /\ size = ElementBytes * SlotAt(size) /\ SlotAt(size) \in Nat \ {0}
        /\ seconds = (SlotAt(size) - 1) * Timer + (Timer - timer1_count)
        /\ frame.duration = Timer - timer1_count
        /\ frame.reason = "done" => table_cur >= table_end /\ timer1_count = 0
        /\ \A k \in 1 .. Len(frame.payload) : frame.payload[k] = ByteAt(table, k - 1)
    BY <1>1, <2>2 DEF ExactInv, ClockOK, SentOK, InFrame
  <2>4. ASSUME NEW s \in 0 .. Received!element_count(frame.payload) - 1
        PROVE  Received!element(frame.payload, s) = arrived[s]
    <3>1. /\ s \in Nat /\ 2 * (s + 1) <= size /\ 2 * s + 1 \in 1 .. Len(frame.payload)
          /\ 2 * s + 2 \in 1 .. Len(frame.payload)
          /\ (2 * s + 1) - 1 = 2 * s /\ (2 * s + 2) - 1 = 2 * s + 1 /\ s \in Slot
      BY <2>2 DEF Received!element_count, ElementBytes, Slot
    <3>2. frame.payload[2 * s + 1] = ByteAt(table, 2 * s)
          /\ frame.payload[2 * s + 2] = ByteAt(table, 2 * s + 1)
      BY <2>3, <3>1
    <3>3. /\ frame.payload \in Seq(0 .. Base - 1) /\ Len(frame.payload) <= TableBytes
          /\ ElementBytes * (s + 1) <= Len(frame.payload)
          /\ frame.payload[ElementBytes * s + 1] = ByteAt(table, ElementBytes * s)
          /\ frame.payload[ElementBytes * s + 2] = ByteAt(table, ElementBytes * s + 1)
      BY <2>2, <3>1, <3>2 DEF ElementBytes
    <3>4. Received!element(frame.payload, s) = table[s]
      BY <2>2, <3>1, <3>3, ReadsBack, Zenon
    <3>. QED
      BY <2>3, <3>4
  <2>5. ASSUME frame.reason = "done"
        PROVE  /\ Len(frame.payload) = ElementBytes * (TableBytes \div ElementBytes)
               /\ frame.duration = Timer
               /\ seconds = Timer * (TableBytes \div ElementBytes)
    <3>1. timer1_count = 0 /\ size = table_cur /\ table_cur >= TableBytes - 1 /\ size = 2 * SlotAt(size)
      BY <1>1, <2>2, <2>3, <2>5 DEF IInv, TableOK, table_end, ElementBytes
    <3>2. SlotAt(size) = TableBytes \div 2
      <4>1. \A n \in Nat, s \in Nat : 2 * s <= n /\ 2 * s >= n - 1 => s = n \div 2
        OBVIOUS
      <4>2. 2 * SlotAt(size) <= TableBytes /\ 2 * SlotAt(size) >= TableBytes - 1
        BY <2>2, <3>1
      <4>3. SlotAt(size) \in Nat
        BY <2>3
      <4>. QED
        BY <2>2, <4>1, <4>2, <4>3, Zenon
    <3>3. \A s \in Nat \ {0}, t \in Nat : (s - 1) * t + (t - 0) = t * s
      OBVIOUS
    <3>. QED
      BY <2>2, <2>3, <3>1, <3>2, <3>3 DEF ElementBytes
  <2>. QED
    BY <2>2, <2>4, <2>5
<1>2. IInv /\ ExactInv /\ [Next]_vars =>
        [EndsTable /\ frame.reason # "intermediate" => Exact]_vars
  BY <1>1
<1>. QED
  BY <1>2, Invariant, ExactInvariant, PTL DEF Spec, FinalTableExact

-----------------------------------------------------------------------------
(***************************************************************************)
(* What the file says.  An intermediate table is sent while the counts go  *)
(* on: its elements but the last are those of intervals that are complete, *)
(* and so is the last one when its interval was over at the beginning.     *)
(***************************************************************************)
Settled(s) == s + 1 < SlotAt(frame.to_send) \/ frame.duration = Timer

PartOK ==
  InFrame /\ frame.reason = "intermediate" =>
    /\ frame.duration = Timer => table_cur >= table_end
    /\ main = "send" => /\ frame.to_send = ElementBytes * SlotAt(frame.to_send)
                        /\ SlotAt(frame.to_send) <= SlotAt(size)
    /\ \A k \in 1 .. Len(frame.payload) :
         Settled(SlotAt(k - 1)) => frame.payload[k] = ByteAt(table, k - 1)

(* A pulse is counted into the last element, and into none of a table that *)
(* is full.                                                                *)
LEMMA PulsePart ==
  ASSUME IInv, ExactInv, PartOK, Pulse
  PROVE  PartOK'
<1>1. /\ UNCHANGED <<pstate, main, interrupts, gf, table_cur, size, timer1_count, seconds, frame>>
      /\ table' = IF table_cur < table_end THEN Increment(table, SlotAt(table_cur)) ELSE table
      /\ table_cur \in Nat /\ table \in [Slot -> Count]
  BY DEF Pulse, IInv, TypeOK
<1>. SUFFICES ASSUME InFrame, frame.reason = "intermediate"
              PROVE  /\ frame.duration = Timer => table_cur >= table_end
                     /\ main = "send" => /\ frame.to_send = ElementBytes * SlotAt(frame.to_send)
                                         /\ SlotAt(frame.to_send) <= SlotAt(size)
                     /\ \A k \in 1 .. Len(frame.payload) :
                          Settled(SlotAt(k - 1)) => frame.payload[k] = ByteAt(table', k - 1)
  BY <1>1 DEF PartOK, InFrame, Settled, table_end, ByteAt
<1>2. /\ frame.duration = Timer => table_cur >= table_end
      /\ main = "send" => /\ frame.to_send = ElementBytes * SlotAt(frame.to_send)
                          /\ SlotAt(frame.to_send) <= SlotAt(size)
      /\ \A k \in 1 .. Len(frame.payload) :
           Settled(SlotAt(k - 1)) => frame.payload[k] = ByteAt(table, k - 1)
  BY DEF PartOK
<1>3. ASSUME NEW k \in 1 .. Len(frame.payload), Settled(SlotAt(k - 1))
      PROVE  table'[SlotAt(k - 1)] = table[SlotAt(k - 1)]
  <2>1. main = "send" /\ SlotAt(frame.to_send) \in Int /\ SlotAt(k - 1) \in Int
        /\ SlotAt(size) \in Int
    <3>1. main = "send"
      BY DEF IInv, FrameOK, InFrame
    <3>2. frame.to_send \in Int /\ k - 1 \in Int /\ size \in Int
      BY DEF IInv, TypeOK, Frame
    <3>. QED
      BY <3>1, <3>2 DEF SlotAt, ElementBytes
  <2>2. CASE table_cur >= table_end
    BY <1>1, <2>2, TimeSeriesAssumption DEF table_end, ElementBytes
  <2>3. CASE table_cur < table_end
    <3>1. SlotAt(size) = SlotAt(table_cur) + 1 /\ SlotAt(table_cur) \in Int
      BY <1>1, <2>3, Slots DEF IInv, TableOK, SlotAt, ElementBytes
    <3>2. SlotAt(k - 1) + 1 < SlotAt(frame.to_send)
      BY <1>1, <1>2, <1>3, <2>3, TimeSeriesAssumption DEF Settled, table_end, ElementBytes
    <3>3. SlotAt(k - 1) # SlotAt(table_cur)
      BY <1>2, <2>1, <3>1, <3>2
    <3>. QED
      BY <1>1, <2>3, <3>3 DEF Increment
  <2>. QED
    BY <1>1, <2>2, <2>3, TimeSeriesAssumption DEF table_end, ElementBytes
<1>. QED
  BY <1>2, <1>3 DEF ByteAt

(* The table grows behind what is sent of it.                              *)
LEMMA SecondPart ==
  ASSUME IInv, ExactInv, PartOK, Second
  PROVE  PartOK'
<1>1. pstate = "MEASURING" /\ ~gf /\ table_cur < table_end
  BY DEF Second, Armed, IInv, TypeOK, ModeOK
<1>2. /\ UNCHANGED <<pstate, main, interrupts, table, arrived, frame>>
      /\ size' = size \/ size' = size + ElementBytes
      /\ size \in Nat /\ table_cur \in Nat /\ table_end \in Int
  BY TimeSeriesAssumption DEF Second, IInv, TypeOK, table_end, ElementBytes
<1>3. SlotAt(size) <= SlotAt(size')
  BY <1>2 DEF SlotAt, ElementBytes
<1>4. InFrame /\ frame.reason = "intermediate" => frame.duration # Timer
  BY <1>1, <1>2 DEF PartOK
<1>5. ASSUME InFrame, frame.reason = "intermediate", main = "send"
      PROVE  SlotAt(frame.to_send) <= SlotAt(size')
  <2>1. SlotAt(frame.to_send) <= SlotAt(size)
    BY <1>5 DEF PartOK
  <2>2. SlotAt(frame.to_send) \in Int /\ SlotAt(size) \in Int /\ SlotAt(size') \in Int
    BY <1>2 DEF IInv, TypeOK, Frame, SlotAt, ElementBytes
  <2>. QED
    BY <1>3, <2>1, <2>2
<1>. QED
  BY <1>2, <1>4, <1>5 DEF PartOK, InFrame, Settled, ByteAt

(* A table begins without bytes, and a byte is copied from its place.      *)
LEMMA MainPart ==
  ASSUME IInv, ExactInv, PartOK, MainProgram
  PROVE  PartOK'
<1>. USE DEF isr_vars, table_vars
<1>1. CASE NotFinished \/ NoCommand \/ Start \/ EndTable \/ FinishedTwice \/ ResetCommand
  BY <1>1 DEF NotFinished, NoCommand, Start, EndTable, FinishedTwice, ResetCommand, Reset,
     PartOK, InFrame
<1>2. CASE Finished \/ Abort \/ Resend
  BY <1>2 DEF Finished, Abort, Resend, BeginTable, NoFrame, PartOK
<1>3. CASE Intermediate
  <2>1. /\ frame'.payload = <<>> /\ frame'.duration = Timer - timer1_count
        /\ main' = "announce" /\ pstate = "MEASURING" /\ UNCHANGED isr_vars
    BY <1>3 DEF Intermediate, BeginTable, NoFrame
  <2>2. Timer - timer1_count = Timer => timer1_count = 0
    BY TimeSeriesAssumption DEF IInv, TypeOK
  <2>3. frame'.duration = Timer => table_cur >= table_end
    BY <2>1, <2>2 DEF IInv, ModeOK, ExactInv, ClockOK
  <2>. QED
    BY <2>1, <2>3 DEF PartOK, table_end
<1>4. CASE Announce \/ ReadSize
  <2>1. /\ frame'.payload = frame.payload /\ frame'.reason = frame.reason
        /\ frame'.duration = frame.duration /\ UNCHANGED isr_vars
        /\ main \in {"announce", "size"}
        /\ main' = "send" => frame'.to_send = size
    BY <1>4 DEF Announce, ReadSize, IInv, TypeOK, Frame
  <2>2. frame'.payload = <<>>
    BY <2>1 DEF IInv, FrameOK
  <2>3. size = ElementBytes * SlotAt(size) /\ SlotAt(size) <= SlotAt(size)
    BY DEF ExactInv, ClockOK
  <2>. QED
    BY <2>1, <2>2, <2>3 DEF PartOK, InFrame, table_end, SlotAt
<1>5. CASE SendByte
  <2>1. /\ frame.payload \in Seq(0 .. Base - 1) /\ Len(frame.payload) \in Nat
        /\ Len(frame.payload) < frame.to_send /\ frame.to_send \in 0 .. TableBytes
        /\ UNCHANGED <<pstate, main, interrupts, isr_vars>> /\ main = "send"
    BY <1>5 DEF SendByte, IInv, TypeOK, Frame
  <2>2. ByteAt(table, Len(frame.payload)) \in 0 .. Base - 1
    BY <2>1, SendsBytes, TimeSeriesAssumption DEF IInv, TypeOK
  <2>3. PICK byte \in 0 .. Base - 1 : /\ byte = ByteAt(table, Len(frame.payload))
                                      /\ frame' = [frame EXCEPT !.payload = Append(frame.payload, byte)]
    BY <1>5, <2>2 DEF SendByte
  <2>4. /\ frame'.payload = Append(frame.payload, byte) /\ frame'.reason = frame.reason
        /\ frame'.duration = frame.duration /\ frame'.to_send = frame.to_send
    BY <2>3 DEF IInv, TypeOK, Frame
  <2>5. /\ Len(frame'.payload) = Len(frame.payload) + 1
        /\ \A k \in 1 .. Len(frame.payload) : frame'.payload[k] = frame.payload[k]
        /\ frame'.payload[Len(frame.payload) + 1] = byte
    BY <2>1, <2>4, AppendProperties
  <2>6. ASSUME InFrame, frame.reason = "intermediate",
               NEW k \in 1 .. Len(frame'.payload), Settled(SlotAt(k - 1))
        PROVE  frame'.payload[k] = ByteAt(table, k - 1)
    <3>1. k \in 1 .. Len(frame.payload) \/ k = Len(frame.payload) + 1
      BY <2>1, <2>5
    <3>2. CASE k = Len(frame.payload) + 1
      <4>1. k - 1 = Len(frame.payload)
        BY <2>1, <3>2
      <4>. QED
        BY <2>3, <2>5, <3>2, <4>1
    <3>3. CASE k \in 1 .. Len(frame.payload)
      BY <2>5, <2>6, <3>3 DEF PartOK
    <3>. QED
      BY <3>1, <3>2, <3>3
  <2>. QED
    BY <2>1, <2>4, <2>6 DEF PartOK, InFrame, Settled, table_end, ByteAt
<1>. QED
  BY <1>1, <1>2, <1>3, <1>4, <1>5 DEF MainProgram

LEMMA PartInvariant == Spec => []PartOK
<1>1. Init => PartOK
  BY DEF Init, PartOK, InFrame
<1>2. IInv /\ ExactInv /\ PartOK /\ [Next]_vars => PartOK'
  <2>1. PartOK /\ UNCHANGED vars => PartOK'
    BY DEF vars, isr_vars, table_vars, PartOK, InFrame, Settled, table_end, ByteAt
  <2>. QED
    BY <2>1, MainPart, PulsePart, SecondPart DEF Next
<1>. QED
  BY <1>1, <1>2, Invariant, ExactInvariant, PTL DEF Spec

(* The host's numbers are the same wherever they are read.                 *)
LEMMA HostReads ==
  /\ \A bytes : Host!Number(bytes) = Received!Number(bytes)
  /\ \A bytes, s : Host!element(bytes, s) = Received!element(bytes, s)
BY Zenon DEF Host!Number, Received!Number, Host!element, Received!element

LEMMA OneByteNumber ==
  ASSUME NEW bytes \in Seq(Nat), Len(bytes) = 1
  PROVE  Received!Number(bytes) = bytes[1]
<1>. DEFINE Is(f) == f = [k \in 1 .. Len(bytes) + 1 |->
                            IF k > Len(bytes) THEN 0 ELSE bytes[k] + Base * f[k + 1]]
            value == CHOOSE f : Is(f)
            given == [k \in 1 .. 2 |-> IF k = 2 THEN 0 ELSE bytes[1]]
<1>1. Received!Number(bytes) = value[1]
  BY Zenon DEF Received!Number
<1>2. Base \in Nat /\ Base * 0 = 0 /\ Len(bytes) + 1 = 2 /\ bytes[1] \in Nat
  <2>1. 1 \in 1 .. Len(bytes)
    OBVIOUS
  <2>2. bytes[1] \in Nat
    BY <2>1, ElementOfSeq
  <2>. QED
    BY <2>2, TimeSeriesAssumption
<1>3. Is(given)
  <2>1. ASSUME NEW k \in 1 .. 2
        PROVE  given[k] = IF k > Len(bytes) THEN 0 ELSE bytes[k] + Base * given[k + 1]
    <3>1. k = 1 \/ k = 2
      OBVIOUS
    <3>. QED
      BY <1>2, <3>1
  <2>2. given = [k \in 1 .. 2 |-> IF k > Len(bytes) THEN 0 ELSE bytes[k] + Base * given[k + 1]]
    BY <2>1
  <2>. QED
    BY <1>2, <2>2
<1>4. Is(value)
  BY <1>3, Zenon
<1>. HIDE DEF value
<1>5. value[2] = 0 /\ value[1] = bytes[1] + Base * value[2]
  BY <1>2, <1>4
<1>. QED
  BY <1>1, <1>2, <1>5

(* The parameters tell the timer value and the time of the start.          *)
LEMMA ParametersComeBack ==
  /\ Host!total_duration(Parameters, personality_info) = Timer
  /\ Host!Number(Host!token(Parameters, personality_info)) = Started
<1>. DEFINE low == Timer % Base  high == Timer \div Base
<1>1. low \in Nat /\ high \in Nat /\ Timer = Base * high + low /\ Base \in Nat
  <2>1. Base \in Nat \ {0} /\ Timer \in Nat
    BY TimeSeriesAssumption
  <2>2. high \in Nat /\ low \in 0 .. Base - 1 /\ Timer = Base * high + low
    BY <2>1, DivisionWithRemainder
  <2>. QED
    BY <2>1, <2>2
<1>. HIDE DEF low, high
<1>2. Parameters = <<low, high, Started>>
  BY DEF Parameters, low, high
<1>3. /\ Parameters \in Seq(Nat) /\ Len(Parameters) = 3
      /\ Parameters[1] = low /\ Parameters[2] = high /\ Parameters[3] = Started
  BY <1>1, <1>2 DEF Started
<1>4. \A k \in 1 .. 3 : Parameters[k] \in Nat
  BY <1>1, <1>3 DEF Started
<1>5. /\ Host!AfterTimer(Parameters, personality_info) = 2
      /\ Host!AfterSkip(Parameters, personality_info) = 2
  BY <1>3 DEF Host!AfterTimer, Host!AfterSkip, Host!Holds, personality_info
<1>6. Host!TimerValue(Parameters, 0) = Timer
  <2>. DEFINE part == SubSeq(Parameters, 1, 2)
  <2>1. part \in Seq(Nat) /\ Len(part) = 2 /\ part[1] = low /\ part[2] = high
    <3>1. /\ part \in Seq(Nat) /\ Len(part) = 2 - 1 + 1
          /\ \A k \in 1 .. 2 - 1 + 1 : part[k] = Parameters[1 + k - 1]
      BY <1>3, <1>4, SubSeqProperties
    <3>. QED
      BY <1>3, <3>1
  <2>2. Host!TimerValue(Parameters, 0) = Received!Number(part)
    BY HostReads DEF Host!TimerValue
  <2>. HIDE DEF part
  <2>3. Received!Number(part) = low + Base * high
    BY <2>1, TwoByteNumber
  <2>4. low + Base * high = Timer
    BY <1>1
  <2>. QED
    BY <2>2, <2>3, <2>4
<1>7. Host!Number(Host!token(Parameters, personality_info)) = Started
  <2>. DEFINE part == SubSeq(Parameters, 3, 3)
  <2>1. part \in Seq(Nat) /\ Len(part) = 1 /\ part[1] = Started
    <3>1. /\ part \in Seq(Nat) /\ Len(part) = 3 - 3 + 1
          /\ \A k \in 1 .. 3 - 3 + 1 : part[k] = Parameters[3 + k - 1]
      BY <1>3, <1>4, SubSeqProperties
    <3>. QED
      BY <1>3, <3>1
  <2>2. Host!token(Parameters, personality_info) = part
    BY <1>3, <1>5 DEF Host!token
  <2>. HIDE DEF part
  <2>. QED
    BY <2>1, <2>2, HostReads, OneByteNumber
<1>. QED
  BY <1>5, <1>6, <1>7 DEF Host!total_duration

(* A set of numbers has a least one.                                       *)
LEMMA LeastElement ==
  ASSUME NEW S \in SUBSET Nat, S # {}
  PROVE  Host!Min(S) \in S /\ \A k \in S : Host!Min(S) <= k
<1>1. PICK x \in S : \A y \in S : ~(<<y, x>> \in OpToRel(<, Nat))
  BY NatLessThanWellFounded, WFMin, Zenon
<1>2. \A y \in S : x <= y
  <2>1. \A k, m \in Nat : <<k, m>> \in OpToRel(<, Nat) <=> k < m
    BY Zenon DEF OpToRel
  <2>2. \A y \in S : ~(y < x)
    BY <1>1, <2>1, Zenon
  <2>. QED
    BY <2>2
<1>. QED
  BY <1>2 DEF Host!Min

(* More elements have no greater least one.                                *)
LEMMA LeastOfMore ==
  ASSUME NEW S \in SUBSET Nat, NEW T \in SUBSET Nat, S # {}, S \subseteq T
  PROVE  Host!Min(S) >= Host!Min(T)
<1>1. Host!Min(S) \in S /\ Host!Min(T) \in T /\ \A k \in T : Host!Min(T) <= k
  BY LeastElement
<1>. QED
  BY <1>1

(* What the host makes of a table, by its elements.                        *)
Elements == Len(frame.payload) \div ElementBytes

(* The same elements have the same sum, in whatever order it is taken.      *)
LEMMA SameSum ==
  ASSUME \A s \in 0 .. Elements - 1 : Host!element(frame.payload, s) = arrived[s]
  PROVE  Host!MapThenSumSet(LAMBDA s : Host!element(frame.payload, s), 0 .. Elements - 1)
           = Host!MapThenSumSet(LAMBDA s : arrived[s], 0 .. Elements - 1)
<1>. DEFINE S == 0 .. Elements - 1
            Any(s) == CHOOSE x \in s : TRUE
            F(sum) == sum = [s \in SUBSET S |->
                               IF s = {} THEN 0
                               ELSE LET x == Any(s) IN Host!element(frame.payload, x) + sum[s \ {x}]]
            G(sum) == sum = [s \in SUBSET S |->
                               IF s = {} THEN 0 ELSE LET x == Any(s) IN arrived[x] + sum[s \ {x}]]
<1>1. Host!MapThenSumSet(LAMBDA s : Host!element(frame.payload, s), 0 .. Elements - 1)
        = (CHOOSE sum : F(sum))[S]
  BY Zenon DEF Host!MapThenSumSet, Host!MapThenFoldSet
<1>2. Host!MapThenSumSet(LAMBDA s : arrived[s], 0 .. Elements - 1)
        = (CHOOSE sum : G(sum))[S]
  BY Zenon DEF Host!MapThenSumSet, Host!MapThenFoldSet
<1>3. ASSUME NEW sum PROVE F(sum) <=> G(sum)
  <2>1. \A s \in SUBSET S : s # {} => Host!element(frame.payload, Any(s)) = arrived[Any(s)]
    OBVIOUS
  <2>. QED
    BY <2>1
<1>. HIDE DEF F, G
<1>4. (CHOOSE sum : F(sum)) = (CHOOSE sum : G(sum))
  BY <1>3, Zenon
<1>. QED
  BY <1>1, <1>2, <1>4, Zenon

Whole == {s \in 0 .. Elements - 1 :
            \/ frame.reason \in {"done", "resend"}
            \/ s + 1 < Elements
            \/ frame.duration = Timer}

LEMMA SummaryOf ==
  /\ Summary.start_time = Started
  /\ Summary.elapsed_time = frame.duration + Timer * (Elements - 1)
  /\ Summary.min_value
       = Host!Min({Host!element(frame.payload, s) : s \in Whole} \cup {Host!UINT32_MAX})
  /\ Summary.total_count
       = Host!MapThenSumSet(LAMBDA s : Host!element(frame.payload, s), 0 .. Elements - 1)
  /\ Summary.time_to_go = (Capacity - Elements) * Timer
  /\ Summary.rows = [s \in 0 .. Elements - 1 |->
                       <<Host!element(frame.payload, s), Started + s * Timer>>]
<1>1. /\ Received_table.payload = frame.payload /\ Received_table.reason = frame.reason
      /\ Received_table.duration = frame.duration /\ Received_table.total_duration = Timer
      /\ Host!start_time(Received_table) = Started
      /\ Host!element_count(frame.payload) = Elements
  BY ParametersComeBack DEF Received_table, Host!start_time, Host!element_count, Elements
<1>2. Host!Measured(Received_table) = Whole
  BY <1>1 DEF Host!Measured, Whole
<1>. USE <1>1, <1>2 DEF Summary, Host!export_time_series_vtable
<1>3. Summary.start_time = Started
  BY SMT
<1>4. Summary.elapsed_time = frame.duration + Timer * (Elements - 1)
  BY SMT
<1>5. Summary.min_value
        = Host!Min({Host!element(frame.payload, s) : s \in Whole} \cup {Host!UINT32_MAX})
  BY SMT
<1>6. Summary.total_count
        = Host!MapThenSumSet(LAMBDA s : Host!element(frame.payload, s), 0 .. Elements - 1)
  BY SMT
<1>7. Summary.time_to_go = (Capacity - Elements) * Timer
  BY SMT DEF Capacity
<1>8. Summary.rows = [s \in 0 .. Elements - 1 |->
                        <<Host!element(frame.payload, s), Started + s * Timer>>]
  BY SMT
<1>. QED
  BY <1>3, <1>4, <1>5, <1>6, <1>7, <1>8

(* The table ends with the last byte of an element.                        *)
LEMMA EndedTable ==
  ASSUME IInv, ExactInv, PartOK, Next, EndsTable
  PROVE  /\ InFrame /\ pstate # "READY" /\ frame.payload \in Seq(0 .. Base - 1)
         /\ Len(frame.payload) = ElementBytes * Elements /\ Len(frame.payload) <= TableBytes
         /\ Elements \in Nat /\ SlotAt(size) \in Nat \ {0} /\ Elements <= SlotAt(size)
         /\ frame.reason # "intermediate" => Elements = SlotAt(size)
         /\ SlotAt(frame.to_send) = Elements
         /\ Timer \in Nat \ {0} /\ timer1_count \in 0 .. Timer /\ frame.duration \in 0 .. Timer
         /\ seconds = (SlotAt(size) - 1) * Timer + (Timer - timer1_count)
<1>1. EndTable
  BY DEF EndsTable, Next, MainProgram, NotFinished, Finished, FinishedTwice, NoCommand,
     Start, Intermediate, Abort, Resend, ResetCommand, Announce, ReadSize, SendByte,
     BeginTable, Reset, Pulse, Second
<1>2. /\ Len(frame.payload) = frame.to_send /\ InFrame /\ main = "send"
      /\ frame.payload \in Seq(0 .. Base - 1) /\ frame.to_send \in 0 .. TableBytes
      /\ size \in 0 .. TableBytes /\ pstate # "READY" /\ TableBytes \in Nat
      /\ Timer \in Nat \ {0} /\ timer1_count \in 0 .. Timer /\ frame.duration \in 0 .. Timer
  BY <1>1, TimeSeriesAssumption DEF EndTable, InFrame, IInv, TypeOK, ModeOK, Frame
<1>3. /\ size = ElementBytes * SlotAt(size) /\ SlotAt(size) \in Nat \ {0}
      /\ seconds = (SlotAt(size) - 1) * Timer + (Timer - timer1_count)
  BY <1>2 DEF ExactInv, ClockOK
<1>4. /\ frame.to_send = ElementBytes * SlotAt(frame.to_send)
      /\ SlotAt(frame.to_send) <= SlotAt(size)
      /\ frame.reason # "intermediate" => frame.to_send = size
  BY <1>2, <1>3 DEF PartOK, IInv, FrameOK
<1>5. Elements = SlotAt(frame.to_send) /\ SlotAt(frame.to_send) \in Nat
  BY <1>2 DEF Elements, SlotAt, ElementBytes
<1>. QED
  BY <1>2, <1>3, <1>4, <1>5

(* The intervals a time completes.                                         *)
LEMMA IntervalsIn ==
  ASSUME NEW T \in Nat \ {0}, NEW n \in Nat \ {0}, NEW d \in 0 .. T
  PROVE  ((n - 1) * T + d) \div T = IF d = T THEN n ELSE n - 1
<1>1. CASE d = T
  <2>1. (n - 1) * T + T = T * n + 0
    BY SMT
  <2>2. (T * n + 0) \div T = n
    BY DivisionIsUnique
  <2>. QED
    BY <1>1, <2>1, <2>2
<1>2. CASE d # T
  <2>1. PICK q \in Nat : q = n - 1
    OBVIOUS
  <2>2. d \in 0 .. T - 1 /\ (n - 1) * T + d = T * q + d
    BY <1>2, <2>1, SMT
  <2>3. (T * q + d) \div T = q
    BY <2>2, DivisionIsUnique
  <2>. QED
    BY <1>2, <2>1, <2>2, <2>3
<1>. QED
  BY <1>1, <1>2

FileSaysAll ==
  LET sent == 0 .. Elements - 1 IN
    /\ Summary.start_time = Started /\ Summary.elapsed_time = seconds
    /\ Summary.elapsed_time + Summary.time_to_go + (Timer - frame.duration) = Timer * Capacity
    /\ Summary.total_count = Host!MapThenSumSet(LAMBDA s : arrived[s], sent)
    /\ Summary.rows = [s \in sent |-> <<arrived[s], Started + s * Timer>>]
    /\ Summary.min_value = Least(IF frame.reason = "resend" THEN sent ELSE Complete)

LEMMA FinalFile ==
  ASSUME IInv, ExactInv, PartOK, Next, EndsTable, frame.reason # "intermediate"
  PROVE  FileSaysAll
<1>. DEFINE n == Elements  d == frame.duration
<1>1. /\ InFrame /\ frame.payload \in Seq(0 .. Base - 1)
      /\ Len(frame.payload) = ElementBytes * n /\ Len(frame.payload) <= TableBytes
      /\ n \in Nat \ {0} /\ Timer \in Nat \ {0} /\ d \in 0 .. Timer
      /\ d = Timer - timer1_count /\ seconds = (n - 1) * Timer + d
      /\ frame.reason = "done" => d = Timer
  <2>1. /\ d = Timer - timer1_count
        /\ frame.reason = "done" => timer1_count = 0
    BY EndedTable DEF ExactInv, SentOK, ClockOK
  <2>. QED
    BY <2>1, EndedTable
<1>2. ASSUME NEW s \in 0 .. n - 1
      PROVE  Host!element(frame.payload, s) = arrived[s]
  <2>1. /\ s \in Nat /\ ElementBytes * (s + 1) <= Len(frame.payload)
        /\ ElementBytes * s + 1 \in 1 .. Len(frame.payload)
        /\ ElementBytes * s + 2 \in 1 .. Len(frame.payload)
        /\ (ElementBytes * s + 1) - 1 = ElementBytes * s
        /\ (ElementBytes * s + 2) - 1 = ElementBytes * s + 1
    BY <1>1 DEF ElementBytes
  <2>2. \A k \in 1 .. Len(frame.payload) : frame.payload[k] = ByteAt(table, k - 1)
    BY <1>1 DEF ExactInv, SentOK
  <2>3. /\ frame.payload[ElementBytes * s + 1] = ByteAt(table, ElementBytes * s)
        /\ frame.payload[ElementBytes * s + 2] = ByteAt(table, ElementBytes * s + 1)
    BY <2>1, <2>2
  <2>4. table \in [Slot -> Count] /\ table = arrived
    BY DEF IInv, TypeOK, ExactInv
  <2>5. Received!element(frame.payload, s) = table[s]
    BY <1>1, <2>1, <2>3, <2>4, ReadsBack, Zenon
  <2>. QED
    BY <2>4, <2>5, HostReads, Zenon
<1>. HIDE DEF n, d
<1>3. Summary.elapsed_time = seconds
  <2>1. \A a, t, b \in Int : b + t * a = a * t + b
    OBVIOUS
  <2>2. Summary.elapsed_time = d + Timer * (n - 1) /\ n - 1 \in Int
    BY <1>1, SummaryOf DEF n, d
  <2>. QED
    BY <1>1, <2>1, <2>2
<1>4. Summary.elapsed_time + Summary.time_to_go + (Timer - d) = Timer * Capacity
  <2>1. Summary.elapsed_time = d + Timer * (n - 1) /\ Summary.time_to_go = (Capacity - n) * Timer
    BY SummaryOf DEF n, d
  <2>2. Capacity \in Int
    BY TimeSeriesAssumption DEF Capacity, ElementBytes
  <2>3. \A t, m, b, c \in Int : (b + t * (m - 1)) + (c - m) * t + (t - b) = t * c
    OBVIOUS
  <2>. QED
    BY <1>1, <2>1, <2>2, <2>3
<1>5. Summary.total_count = Host!MapThenSumSet(LAMBDA s : arrived[s], 0 .. n - 1)
  BY <1>2, SameSum, SummaryOf, Zenon DEF n
<1>6. Summary.rows = [s \in 0 .. n - 1 |-> <<arrived[s], Started + s * Timer>>]
  <2>1. Summary.rows = [s \in 0 .. n - 1 |->
                         <<Host!element(frame.payload, s), Started + s * Timer>>]
    BY SummaryOf DEF n
  <2>. QED
    BY <1>2, <2>1, Zenon
<1>7. Whole = IF frame.reason = "resend" THEN 0 .. n - 1 ELSE Complete
  <2>1. Complete = 0 .. (IF d = Timer THEN n ELSE n - 1) - 1
    BY <1>1, IntervalsIn DEF Complete
  <2>2. Whole = {s \in 0 .. n - 1 : frame.reason \in {"done", "resend"} \/ s + 1 < n \/ d = Timer}
    BY DEF Whole, n, d
  <2>. QED
    BY <1>1, <2>1, <2>2
<1>8. Summary.min_value = Least(IF frame.reason = "resend" THEN 0 .. n - 1 ELSE Complete)
  <2>1. Whole \subseteq 0 .. n - 1
    BY DEF Whole, n
  <2>2. {Host!element(frame.payload, s) : s \in Whole} = Counts(Whole)
    BY <1>2, <2>1, Zenon DEF Counts
  <2>. QED
    BY <1>7, <2>2, SummaryOf DEF Least
<1>. QED
  BY <1>3, <1>4, <1>5, <1>6, <1>8, SummaryOf DEF FileSaysAll, n, d

(* The elements of an intermediate table that are taken for complete are.  *)
LEMMA IntermediateFile ==
  ASSUME IInv, ExactInv, PartOK, Next, EndsTable, frame.reason = "intermediate"
  PROVE  Summary.min_value >= Least(Complete)
<1>. DEFINE n == Elements  S == SlotAt(size)
<1>1. /\ InFrame /\ frame.payload \in Seq(0 .. Base - 1)
      /\ Len(frame.payload) = ElementBytes * n /\ Len(frame.payload) <= TableBytes
      /\ n \in Nat /\ S \in Nat \ {0} /\ n <= S /\ n = SlotAt(frame.to_send)
      /\ Timer \in Nat \ {0} /\ timer1_count \in 0 .. Timer
      /\ seconds = (S - 1) * Timer + (Timer - timer1_count)
      /\ frame.duration = Timer => timer1_count = 0
  <2>1. frame.duration = Timer => timer1_count = 0
    BY EndedTable DEF PartOK, ExactInv, ClockOK
  <2>. QED
    BY <2>1, EndedTable
<1>. HIDE DEF n, S
<1>2. ASSUME NEW s \in Whole
      PROVE  Host!element(frame.payload, s) = arrived[s] /\ arrived[s] \in Nat /\ s \in Complete
  <2>1. s \in 0 .. n - 1 /\ Settled(s)
    BY <1>1, <1>2 DEF Whole, Settled, n
  <2>2. /\ s \in Nat /\ ElementBytes * (s + 1) <= Len(frame.payload)
        /\ ElementBytes * s + 1 \in 1 .. Len(frame.payload)
        /\ ElementBytes * s + 2 \in 1 .. Len(frame.payload)
        /\ (ElementBytes * s + 1) - 1 = ElementBytes * s
        /\ (ElementBytes * s + 2) - 1 = ElementBytes * s + 1
    BY <1>1, <2>1 DEF ElementBytes
  <2>3. \A k \in 1 .. Len(frame.payload) :
          Settled(SlotAt(k - 1)) => frame.payload[k] = ByteAt(table, k - 1)
    BY <1>1 DEF PartOK
  <2>4. SlotAt(ElementBytes * s) = s /\ SlotAt(ElementBytes * s + 1) = s
    BY <2>2, Slots
  <2>5. /\ frame.payload[ElementBytes * s + 1] = ByteAt(table, ElementBytes * s)
        /\ frame.payload[ElementBytes * s + 2] = ByteAt(table, ElementBytes * s + 1)
    BY <2>1, <2>2, <2>3, <2>4
  <2>6. table \in [Slot -> Count] /\ table = arrived /\ s \in Slot
    <3>1. s \in Slot
      BY <1>1, <2>1, TimeSeriesAssumption DEF ElementBytes, Slot
    <3>. QED
      BY <3>1 DEF IInv, TypeOK, ExactInv
  <2>7. Received!element(frame.payload, s) = table[s]
    BY <1>1, <2>2, <2>5, <2>6, ReadsBack, Zenon
  <2>8. arrived[s] \in Nat
    BY <2>6, TimeSeriesAssumption DEF Count
  <2>9. s \in Complete
    <3>1. seconds \div Timer = IF Timer - timer1_count = Timer THEN S ELSE S - 1
      <4>1. Timer - timer1_count \in 0 .. Timer
        BY <1>1
      <4>. QED
        BY <1>1, <4>1, IntervalsIn
    <3>2. s + 1 < n \/ timer1_count = 0
      BY <1>1, <2>1 DEF Settled
    <3>. QED
      BY <1>1, <2>1, <3>1, <3>2 DEF Complete
  <2>. QED
    BY <2>6, <2>7, <2>8, <2>9, HostReads, Zenon
<1>3. {Host!element(frame.payload, s) : s \in Whole} \subseteq Counts(Complete)
  BY <1>2, Zenon DEF Counts
<1>4. Host!UINT32_MAX \in Nat
  <2>1. \A b \in Nat \ {0} : b * b \in Nat \ {0}
    BY Products
  <2>2. Base * Base * Base * Base \in Nat \ {0}
    <3>1. Base \in Nat \ {0}
      BY TimeSeriesAssumption
    <3>. QED
      BY <3>1, Products
  <2>. QED
    BY <2>2 DEF Host!UINT32_MAX
<1>5. \A s \in Complete : arrived[s] \in Nat
  <2>1. Complete \subseteq Slot
    <3>1. S <= TableBytes \div 2 /\ TableBytes \div 2 \in Nat
      BY TimeSeriesAssumption DEF S, SlotAt, ElementBytes, IInv, TypeOK
    <3>2. seconds \div Timer \in {S, S - 1}
      <4>1. Timer - timer1_count \in 0 .. Timer
        BY <1>1
      <4>. QED
        BY <1>1, <4>1, IntervalsIn
    <3>3. seconds \div Timer <= TableBytes \div 2 /\ seconds \div Timer \in Int
      BY <1>1, <3>1, <3>2
    <3>. QED
      BY <3>1, <3>3 DEF Complete, Slot, ElementBytes
  <2>. QED
    BY <2>1 DEF IInv, TypeOK, Count
<1>6. DEFINE some == {Host!element(frame.payload, s) : s \in Whole} \cup {Host!UINT32_MAX}
             all  == Counts(Complete) \cup {Host!UINT32_MAX}
<1>7. some \in SUBSET Nat /\ all \in SUBSET Nat /\ some # {} /\ some \subseteq all
  BY <1>3, <1>4, <1>5 DEF Counts
<1>8. Summary.min_value = Host!Min(some) /\ Least(Complete) = Host!Min(all)
  BY SummaryOf DEF Least
<1>. HIDE DEF some, all
<1>. QED
  BY <1>7, <1>8, LeastOfMore

(***************************************************************************)
(* From the pulses to the file: the host's summary of a measurement that   *)
(* is over is the measurement's, and of one that goes on its least number  *)
(* is that of complete intervals.                                          *)
(***************************************************************************)
THEOREM FilesTellTheTruth == Spec => FileTellsTruth
<1>1. ASSUME IInv, ExactInv, PartOK, Next, EndsTable
      PROVE  IF frame.reason = "intermediate" THEN Summary.min_value >= Least(Complete)
             ELSE FileSaysAll
  BY <1>1, FinalFile, IntermediateFile
<1>2. IInv /\ ExactInv /\ PartOK /\ [Next]_vars =>
        [EndsTable => IF frame.reason = "intermediate" THEN Summary.min_value >= Least(Complete)
                      ELSE FileSaysAll]_vars
  BY <1>1
<1>. QED
  BY <1>2, Invariant, ExactInvariant, PartInvariant, PTL
     DEF Spec, FileTellsTruth, FileSaysAll, Elements

=============================================================================
