------------------------------ MODULE AdcProofs ------------------------------
(***************************************************************************)
(* For every size of memory, width of an element, channel range and timer, *)
(* and any number of conversions: the personalities that use the converter *)
(* write and send inside their tables; what the host reads of a            *)
(* measurement that is over are the conversions that were kept, and of one *)
(* that goes on, it is close to them.                                      *)
(***************************************************************************)
EXTENDS AdcPersonalities, Division, SequenceTheorems, FiniteSetTheorems, TLAPS

-----------------------------------------------------------------------------
(***************************************************************************)
(* The inductive invariant.  A table's size is made of whole elements, so  *)
(* that every byte sent belongs to one; conversions can come only as long  *)
(* as there is an element for another sample; and the flag is cleared only *)
(* when interrupts are disabled, so that the timer does not run below 0.   *)
(***************************************************************************)
Whole(bytes) == bytes = ElementBytes * (bytes \div ElementBytes)

TableOK ==
  /\ Whole(size)
  /\ perso = "sampling" =>
       /\ size = table_cur /\ size <= TableBytes
       /\ triggered \/ pstate = "READY" => table_cur < table_end
  /\ perso # "sampling" => size = ElementBytes * Channels
  /\ frame.to_send <= size

ModeOK ==
  /\ pstate = "READY" => ~triggered
  /\ pstate = "DONE" => ~interrupts
  /\ frame.reason = "done" => pstate = "DONE"
  /\ perso = "mca" /\ pstate = "MEASURING" /\ ~gf => timer1_count > 0

IInv == TypeOK /\ TableOK /\ ModeOK

-----------------------------------------------------------------------------
(* The weights of an element's bytes.                                      *)
Weight == [i \in 0 .. ElementBytes |-> Base ^ i]

LEMMA Weights ==
  /\ Weight \in [0 .. ElementBytes -> Nat \ {0}] /\ Weight[0] = 1
  /\ \A i \in 0 .. ElementBytes - 1 : Weight[i + 1] = Base * Weight[i]
<1>1. ElementBytes \in Nat \ {0} /\ Base \in Nat \ {0}
  BY AdcAssumption
<1>2. Weight[0] = 1
  BY <1>1, PowersAssumption DEF Weight
<1>3. \A i \in 0 .. ElementBytes - 1 : Weight[i + 1] = Base * Weight[i]
  <2>. SUFFICES ASSUME NEW i \in 0 .. ElementBytes - 1
                PROVE  Weight[i + 1] = Base * Weight[i]
    OBVIOUS
  <2>1. i \in 0 .. ElementBytes /\ i + 1 \in 0 .. ElementBytes
    BY <1>1
  <2>2. Weight[i] = Base ^ i /\ Weight[i + 1] = Base ^ (i + 1)
    BY <2>1, Zenon DEF Weight
  <2>. QED
    BY <2>2, PowersAssumption
<1>4. ASSUME NEW i \in 0 .. ElementBytes PROVE Weight[i] \in Nat \ {0}
  <2>. DEFINE T == {k \in 0 .. i : Weight[k] \in Nat \ {0}}
  <2>1. 0 \in T
    BY <1>2
  <2>2. ASSUME NEW k \in 0 .. i - 1, k \in T PROVE k + 1 \in T
    <3>1. k + 1 \in 0 .. i /\ Weight[k + 1] = Base * Weight[k] /\ Weight[k] \in Nat \ {0}
      BY <1>1, <1>3, <2>2
    <3>2. Base * Weight[k] \in Nat \ {0}
      BY <1>1, <3>1, Products
    <3>. QED
      BY <3>1, <3>2
  <2>3. i \in T
    <3>. HIDE DEF T
    <3>. QED
      BY <2>1, <2>2, SetInduction
  <2>. QED
    BY <2>3
<1>. QED
  BY <1>2, <1>3, <1>4 DEF Weight

LEMMA Powers == \A i \in 0 .. ElementBytes : Base ^ i = Weight[i] /\ Base ^ i \in Nat \ {0}
BY Weights DEF Weight

(* Consequences of the assumption on the constants.                        *)
LEMMA Constants ==
  /\ ElementBytes \in Nat \ {0} /\ TableBytes \in Nat /\ TableBytes >= ElementBytes
  /\ Base \in Nat \ {0} /\ Channels \in Nat \ {0} /\ Word \in Nat /\ Word > 1
  /\ 0 \in Count /\ Channel \subseteq Count
  /\ Base ^ ElementBytes \in Nat \ {0}
<1>1. ElementBytes \in 0 .. ElementBytes
  BY AdcAssumption
<1>2. Base ^ ElementBytes \in Nat \ {0} /\ Channels <= Base ^ ElementBytes
  BY <1>1, Powers, AdcAssumption
<1>. DEFINE W == Base ^ ElementBytes
<1>. HIDE DEF W
<1>3. W \in Nat \ {0} /\ Channels <= W /\ Channels \in Nat
  BY <1>2, AdcAssumption DEF W
<1>4. 0 \in 0 .. W - 1 /\ 0 .. Channels - 1 \subseteq 0 .. W - 1
  BY <1>3
<1>. QED
  BY <1>2, <1>4, AdcAssumption DEF Count, Channel, W

(* A count stays a count, even when it wraps.                              *)
LEMMA IncrementKeepsCounts ==
  ASSUME table \in [Places -> Count], NEW channel \in Channel, perso # "sampling"
  PROVE  Increment(table, channel) \in [Places -> Count]
<1>. DEFINE W == Base ^ ElementBytes
<1>1. W \in Nat \ {0} /\ Count = 0 .. W - 1
  BY Constants DEF Count
<1>. HIDE DEF W
<1>2. table[channel] \in 0 .. W - 1
  BY <1>1 DEF Places
<1>3. (table[channel] + 1) % W \in 0 .. W - 1
  BY <1>1, <1>2
<1>4. (table[channel] + 1) % W \in Count
  BY <1>1, <1>3
<1>. QED
  BY <1>4 DEF Increment, W

(* What is empty is made of whole elements, as is a whole histogram.       *)
LEMMA InitialSizeIsWhole ==
  /\ InitialSize \in Nat /\ Whole(InitialSize)
<1>1. ElementBytes * Channels \in Nat
  BY Constants, SMT
<1>2. Channels \in Nat /\ 0 \in 0 .. ElementBytes - 1
  BY Constants
<1>3. (ElementBytes * Channels + 0) \div ElementBytes = Channels
  BY <1>2, Constants, DivisionIsUnique
<1>4. (ElementBytes * 0 + 0) \div ElementBytes = 0
  BY <1>2, Constants, DivisionIsUnique
<1>5. Whole(ElementBytes * Channels)
  BY <1>1, <1>3 DEF Whole
<1>6. Whole(0)
  BY <1>4, Constants DEF Whole
<1>. QED
  BY <1>1, <1>5, <1>6 DEF InitialSize

(* The values a reset leaves are in the ranges of the variables.           *)
LEMMA InitialValues ==
  /\ [p \in Places |-> 0] \in [Places -> Count]
  /\ NoFrame \in Frame /\ NoFrame.to_send = 0 /\ NoFrame.reason = "none"
  /\ 0 \in 0 .. Word - 1 /\ <<>> \in Seq(Channel)
<1>1. <<>> \in Seq(0 .. Base - 1) /\ <<>> \in Seq(Channel)
  OBVIOUS
<1>2. NoFrame \in Frame /\ NoFrame.to_send = 0 /\ NoFrame.reason = "none"
  BY <1>1 DEF NoFrame, Frame
<1>. QED
  BY <1>1, <1>2, Constants

(* The invariant holds at startup.                                         *)
LEMMA InitInvariant == Init => IInv
<1>. SUFFICES ASSUME Init PROVE IInv
  OBVIOUS
<1>. USE DEF Init
<1>1. TypeOK
  BY InitialValues, InitialSizeIsWhole DEF TypeOK
<1>2. table_cur < table_end
  BY Constants DEF table_end
<1>3. TableOK
  BY <1>2, InitialValues, InitialSizeIsWhole, Constants DEF TableOK, InitialSize
<1>4. ModeOK
  BY InitialValues DEF ModeOK
<1>. QED
  BY <1>1, <1>3, <1>4 DEF IInv

(* A reset brings the initial state back.                                  *)
LEMMA ResetInvariant == IInv /\ Reset => IInv'
<1>. SUFFICES ASSUME IInv, Reset PROVE IInv'
  OBVIOUS
<1>. USE DEF Reset
<1>1. TypeOK'
  BY InitialValues, InitialSizeIsWhole DEF IInv, TypeOK, Places
<1>2. 0 < table_end
  BY Constants DEF table_end
<1>3. TableOK'
  BY <1>2, InitialValues, InitialSizeIsWhole, Constants DEF TableOK, InitialSize, table_end, Whole
<1>4. ModeOK'
  BY InitialValues DEF ModeOK
<1>. QED
  BY <1>1, <1>3, <1>4 DEF IInv

-----------------------------------------------------------------------------
(* The routine of the sampling personality stores below the memory's end.  *)
LEMMA SampleInvariant ==
  ASSUME IInv, NEW value \in Channel, Sample(value)
  PROVE  IInv'
<1>. USE DEF Sample, Conversion, params
<1>1. perso = "sampling" /\ size \in Nat /\ table_cur = size /\ Whole(size)
      /\ size < table_end /\ frame.to_send <= size /\ frame.to_send \in Nat
  BY DEF IInv, TableOK, TypeOK, Frame
<1>2. converted' \in Seq(Channel) /\ Places' = Places
  BY DEF IInv, TypeOK, Places
<1>3. CASE Skip
  <2>1. skip_samples - 1 \in 0 .. Word - 1
    BY <1>3, Constants DEF Skip, IInv, TypeOK
  <2>2. TypeOK'
    BY <1>2, <1>3, <2>1 DEF Skip, IInv, TypeOK
  <2>3. TableOK' /\ ModeOK'
    BY <1>3 DEF Skip, IInv, TableOK, ModeOK, Whole, table_end
  <2>. QED
    BY <2>2, <2>3 DEF IInv
<1>4. CASE ~Skip
  <2>1. /\ table' = [table EXCEPT ![table_cur \div ElementBytes] = value]
        /\ table_cur' = table_cur + ElementBytes /\ size' = size + ElementBytes
        /\ skip_samples' = orig_skip_samples
        /\ gf' = (table_cur' >= table_end) /\ triggered' = (table_cur' < table_end)
    BY <1>4
  <2>2. table' \in [Places -> Count]
    BY <2>1, Constants DEF IInv, TypeOK
  <2>3. size' \in Nat /\ table_cur' = size'
    BY <1>1, <2>1, Constants
  <2>4. TypeOK'
    BY <1>2, <2>1, <2>2, <2>3 DEF IInv, TypeOK
  <2>5. Whole(size')
    <3>1. size \div ElementBytes \in Nat /\ 0 \in 0 .. ElementBytes - 1
      <4>1. size \div ElementBytes \in Nat
        BY <1>1, Constants, DivisionWithRemainder
      <4>2. 0 \in 0 .. ElementBytes - 1
        BY Constants
      <4>. QED
        BY <4>1, <4>2
    <3>. DEFINE q == size \div ElementBytes
    <3>2. q \in Nat /\ size = ElementBytes * q
      BY <1>1, <3>1 DEF Whole
    <3>. HIDE DEF q
    <3>3. ElementBytes * (q + 1) = ElementBytes * q + ElementBytes /\ q + 1 \in Nat
      BY <3>2, Constants, SMT
    <3>4. (ElementBytes * (q + 1) + 0) \div ElementBytes = q + 1
      BY <3>1, <3>3, Constants, DivisionIsUnique
    <3>5. size' = ElementBytes * (q + 1) /\ size' \in Nat
      BY <2>1, <2>3, <3>2, <3>3
    <3>6. size' \div ElementBytes = q + 1
      BY <3>4, <3>5
    <3>. QED
      BY <3>5, <3>6 DEF Whole
  <2>6. size' <= TableBytes
    BY <1>1, <2>1, Constants DEF table_end
  <2>7. frame'.to_send <= size'
    BY <1>1, <2>1, Constants
  <2>8. TableOK'
    BY <1>1, <2>1, <2>3, <2>5, <2>6, <2>7 DEF TableOK, Whole, table_end, IInv, ModeOK
  <2>9. ModeOK'
    BY <1>1, <2>1 DEF IInv, ModeOK, TypeOK
  <2>. QED
    BY <2>4, <2>8, <2>9 DEF IInv
<1>. QED
  BY <1>3, <1>4

(* The routine of the timed histogram.                                     *)
LEMMA CountTimedInvariant ==
  ASSUME IInv, NEW value \in Channel, CountTimed(value)
  PROVE  IInv'
<1>. USE DEF CountTimed, Conversion, Skip, params
<1>1. perso = "mca-timed" /\ Places' = Places /\ converted' \in Seq(Channel)
  BY DEF IInv, TypeOK, Places
<1>2. table' \in [Places -> Count]
  BY <1>1, IncrementKeepsCounts DEF IInv, TypeOK
<1>3. skip_samples' \in 0 .. Word - 1
  BY Constants DEF IInv, TypeOK
<1>4. timer1_count' \in 0 .. Word - 1 /\ gf' \in BOOLEAN
  <2>1. (timer1_count - 1) % Word \in 0 .. Word - 1
    BY Constants DEF IInv, TypeOK
  <2>. QED
    BY <2>1 DEF IInv, TypeOK
<1>5. TypeOK'
  BY <1>1, <1>2, <1>3, <1>4 DEF IInv, TypeOK
<1>6. TableOK' /\ ModeOK'
  BY <1>1 DEF IInv, TableOK, ModeOK, Whole
<1>. QED
  BY <1>5, <1>6 DEF IInv

(* The routine of the externally triggered histogram.                      *)
LEMMA CountPulseInvariant ==
  ASSUME IInv, NEW value \in Channel, CountPulse(value)
  PROVE  IInv'
<1>. USE DEF CountPulse, Conversion, params
<1>1. perso = "mca" /\ Places' = Places /\ converted' \in Seq(Channel)
  BY DEF IInv, TypeOK, Places
<1>2. table' \in [Places -> Count]
  BY <1>1, IncrementKeepsCounts DEF IInv, TypeOK
<1>3. TypeOK'
  BY <1>1, <1>2 DEF IInv, TypeOK
<1>4. TableOK' /\ ModeOK'
  BY <1>1 DEF IInv, TableOK, ModeOK, Whole
<1>. QED
  BY <1>3, <1>4 DEF IInv

(* Its measurement ends before the timer runs below 0.                     *)
LEMMA SecondInvariant == IInv /\ Second => IInv'
<1>. SUFFICES ASSUME IInv, Second PROVE IInv'
  OBVIOUS
<1>. USE DEF Second, params, table_vars
<1>1. perso = "mca" /\ Places' = Places /\ timer1_count > 0
  BY DEF IInv, TypeOK, ModeOK, Places
<1>2. timer1_count' \in 0 .. Word - 1
  BY <1>1, Constants DEF IInv, TypeOK
<1>3. TypeOK'
  BY <1>1, <1>2 DEF IInv, TypeOK
<1>4. TableOK'
  BY <1>1 DEF IInv, TableOK, Whole
<1>5. ~gf' => timer1_count' > 0
  <2>1. gf' <=> timer1_count' = 0
    OBVIOUS
  <2>2. \A x \in 0 .. Word - 1 : x # 0 => x > 0
    OBVIOUS
  <2>. QED
    BY <2>1, <2>2, <1>2
<1>6. ModeOK'
  BY <1>5 DEF IInv, ModeOK
<1>. QED
  BY <1>3, <1>4, <1>6 DEF IInv

-----------------------------------------------------------------------------
(* A frame begins with no size and no bytes.                               *)
LEMMA BeginInvariant ==
  ASSUME IInv, NEW why \in {"intermediate", "done", "aborted", "resend"}, BeginTable(why),
         \/ why = "intermediate" /\ UNCHANGED <<pstate, interrupts>>
         \/ why = "resend" /\ UNCHANGED <<pstate, interrupts>>
         \/ why \in {"done", "aborted"} /\ interrupts' = FALSE /\ pstate' = "DONE"
  PROVE  IInv'
<1>. USE DEF BeginTable, isr_vars, table_vars, params
<1>. DEFINE seen == Len(converted) \div (orig_skip_samples + 1)
<1>1. seen \in Nat
  <2>1. Len(converted) \in Nat /\ orig_skip_samples + 1 \in Nat \ {0}
    BY Constants DEF IInv, TypeOK
  <2>. QED
    BY <2>1, DivisionWithRemainder
<1>2. frame' = [NoFrame EXCEPT !.reason = why, !.seen = seen]
  OBVIOUS
<1>. HIDE DEF seen
<1>3. frame' \in Frame /\ frame'.to_send = 0 /\ frame'.reason = why
  BY <1>1, <1>2, InitialValues DEF NoFrame, Frame
<1>4. Places' = Places
  BY DEF Places
<1>5. TypeOK'
  BY <1>3, <1>4 DEF IInv, TypeOK
<1>6. TableOK'
  BY <1>3 DEF IInv, TableOK, TypeOK, ModeOK, Whole
<1>7. ModeOK'
  BY <1>3 DEF IInv, ModeOK
<1>. QED
  BY <1>5, <1>6, <1>7 DEF IInv

(* Whatever is sent next is a byte of an element.                          *)
LEMMA SendsBytes ==
  ASSUME IInv, NEW address \in Nat, address < size
  PROVE  ByteAt(address) \in 0 .. Base - 1
<1>. DEFINE place == address \div ElementBytes  q == size \div ElementBytes
            weight == Base ^ (address % ElementBytes)
<1>1. q \in Nat /\ size = ElementBytes * q /\ size \in Nat
  BY Constants, DivisionWithRemainder DEF IInv, TypeOK, TableOK, Whole
<1>2. place \in Nat /\ place < q
  BY <1>1, Constants, QuotientOfLess
<1>3. place \in Places
  <2>1. CASE perso = "sampling"
    <3>1. q <= TableBytes \div ElementBytes /\ TableBytes \div ElementBytes \in Nat
      BY <2>1, <1>1, Constants, QuotientIsMonotonic, DivisionWithRemainder DEF IInv, TableOK
    <3>. QED
      BY <2>1, <3>1, <1>1, <1>2 DEF Places
  <2>2. CASE perso # "sampling"
    <3>1. size = ElementBytes * Channels
      BY <2>2 DEF IInv, TableOK
    <3>2. place < Channels
      BY <3>1, Constants, QuotientOfLess
    <3>. QED
      BY <2>2, <3>2, <1>2, Constants DEF Places, Channel
  <2>. QED
    BY <2>1, <2>2
<1>4. weight \in Nat \ {0}
  <2>1. address % ElementBytes \in 0 .. ElementBytes
    BY Constants, DivisionWithRemainder
  <2>. QED
    BY <2>1, Powers
<1>5. table[place] \in Nat
  BY <1>3 DEF IInv, TypeOK, Count
<1>. HIDE DEF place, weight, q
<1>6. table[place] \div weight \in Nat
  BY <1>4, <1>5, DivisionWithRemainder
<1>7. (table[place] \div weight) % Base \in 0 .. Base - 1
  BY <1>6, Constants, DivisionWithRemainder
<1>. QED
  BY <1>7 DEF ByteAt, place, weight

(* The steps of a frame that is under way.                                 *)
LEMMA FrameInvariant ==
  ASSUME IInv, Announce \/ ReadSize \/ SendByte \/ EndTable
  PROVE  IInv'
<1>. USE DEF isr_vars, table_vars, params
<1>0. frame \in Frame /\ size \in Nat /\ frame.to_send <= size
  BY DEF IInv, TypeOK, TableOK
<1>1. CASE Announce
  <2>1. frame' \in Frame /\ frame'.to_send = frame.to_send /\ frame'.reason = frame.reason
    BY <1>0, <1>1 DEF Announce, Frame
  <2>2. TypeOK' /\ TableOK' /\ ModeOK'
    BY <2>1, <1>1 DEF Announce, IInv, TypeOK, Places, TableOK, ModeOK, Whole
  <2>. QED
    BY <2>2 DEF IInv
<1>2. CASE ReadSize
  <2>1. frame' \in Frame /\ frame'.to_send = size /\ frame'.reason = frame.reason
    BY <1>0, <1>2 DEF ReadSize, Frame
  <2>2. TypeOK'
    BY <2>1, <1>2 DEF ReadSize, IInv, TypeOK, Places
  <2>3. TableOK'
    BY <2>1, <1>0, <1>2 DEF ReadSize, IInv, TableOK, Whole
  <2>4. ModeOK'
    BY <2>1, <1>2 DEF ReadSize, IInv, ModeOK
  <2>. QED
    BY <2>2, <2>3, <2>4 DEF IInv
<1>3. CASE SendByte
  <2>1. Len(frame.payload) \in Nat /\ Len(frame.payload) < size
    BY <1>0, <1>3 DEF SendByte, Frame
  <2>2. ByteAt(Len(frame.payload)) \in 0 .. Base - 1
    BY <2>1, SendsBytes
  <2>. DEFINE payload == Append(frame.payload, ByteAt(Len(frame.payload)))
  <2>5. payload \in Seq(0 .. Base - 1)
    BY <2>2, <1>0 DEF Frame
  <2>6. frame' = [frame EXCEPT !.payload = payload]
    BY <1>3 DEF SendByte
  <2>. HIDE DEF payload
  <2>3. frame' \in Frame /\ frame'.to_send = frame.to_send /\ frame'.reason = frame.reason
    BY <2>5, <2>6, <1>0 DEF Frame
  <2>4. TypeOK' /\ TableOK' /\ ModeOK'
    BY <2>3, <1>3 DEF SendByte, IInv, TypeOK, Places, TableOK, ModeOK, Whole
  <2>. QED
    BY <2>4 DEF IInv
<1>4. CASE EndTable
  <2>1. frame' \in Frame /\ frame'.to_send = 0 /\ frame'.reason = "none"
    BY <1>4, InitialValues DEF EndTable
  <2>2. TypeOK'
    BY <2>1, <1>4 DEF EndTable, IInv, TypeOK, Places
  <2>3. TableOK'
    BY <2>1, <1>0, <1>4 DEF EndTable, IInv, TableOK, Whole
  <2>4. gf' = gf \/ pstate = "DONE"
    BY <1>4 DEF EndTable, IInv, ModeOK, TypeOK
  <2>5. ModeOK'
    BY <2>1, <2>4, <1>4 DEF EndTable, IInv, ModeOK
  <2>. QED
    BY <2>2, <2>3, <2>5 DEF IInv
<1>. QED
  BY <1>1, <1>2, <1>3, <1>4

(* A measurement starts with parameters the personality accepts.           *)
LEMMA StartInvariant ==
  ASSUME IInv, NEW timer \in ParameterValues, NEW skip \in ParameterValues, Start(timer, skip)
  PROVE  IInv'
<1>. USE DEF Start, table_vars
<1>1. timer \in 0 .. Word - 1 /\ skip \in 0 .. Word - 1
  BY AdcAssumption, Constants DEF ParameterValues
<1>2. TypeOK'
  BY <1>1 DEF IInv, TypeOK, Places
<1>3. TableOK'
  BY DEF IInv, TableOK, Whole, table_end
<1>4. perso = "mca" => timer > 0
  BY <1>1 DEF Accepted
<1>5. ModeOK'
  BY <1>4 DEF IInv, ModeOK
<1>. QED
  BY <1>2, <1>3, <1>5 DEF IInv

(* The event loop does nothing else to the state.                          *)
LEMMA IdleInvariant ==
  ASSUME IInv, NotFinished \/ NoCommand \/ UNCHANGED vars
  PROVE  IInv'
<1>. USE DEF NotFinished, NoCommand, vars, isr_vars, table_vars, params
<1>1. TypeOK'
  BY DEF IInv, TypeOK, Places
<1>2. TableOK' /\ ModeOK'
  BY DEF IInv, TableOK, ModeOK, Whole, table_end
<1>. QED
  BY <1>1, <1>2 DEF IInv

LEMMA StepInvariant == IInv /\ [Next]_vars => IInv'
<1>. SUFFICES ASSUME IInv, [Next]_vars
              PROVE  IInv'
  OBVIOUS
<1>1. CASE NotFinished \/ NoCommand \/ UNCHANGED vars
  BY <1>1, IdleInvariant
<1>2. CASE Finished \/ Intermediate \/ Abort \/ Resend
  BY <1>2, BeginInvariant DEF Finished, Intermediate, Abort, Resend
<1>3. CASE Announce \/ ReadSize \/ SendByte \/ EndTable
  BY <1>3, FrameInvariant
<1>4. CASE FinishedTwice \/ ResetCommand \/ \E timer \in ParameterValues : StartRefused(timer)
  BY <1>4, ResetInvariant DEF FinishedTwice, ResetCommand, StartRefused
<1>5. CASE \E timer \in ParameterValues : \E skip \in ParameterValues : Start(timer, skip)
  BY <1>5, StartInvariant
<1>6. CASE TimedConversion \/ Second \/ \E value \in Channel : CountPulse(value)
  BY <1>6, SampleInvariant, CountTimedInvariant, CountPulseInvariant, SecondInvariant
     DEF TimedConversion
<1>. QED
  BY <1>1, <1>2, <1>3, <1>4, <1>5, <1>6 DEF Next, MainProgram

THEOREM Invariant == Spec => []IInv
<1>. QED
  BY InitInvariant, StepInvariant, PTL DEF Spec

-----------------------------------------------------------------------------
(***************************************************************************)
(* All variables of the three personalities keep their ranges: no timer    *)
(* runs below 0, counts wrap at the width of an element, and every byte    *)
(* sent is one of an element of the table.                                 *)
(***************************************************************************)
THEOREM TypeCorrect == Spec => []TypeOK
<1>1. IInv => TypeOK
  BY DEF IInv
<1>. QED
  BY <1>1, Invariant, PTL

(***************************************************************************)
(* The routine that writes before it compares never writes behind the      *)
(* memory, for every size of it, and no frame holds what was not stored.   *)
(***************************************************************************)
THEOREM SamplesStayInBounds == Spec => []StoresInBounds
<1>1. IInv => StoresInBounds
  <2>. SUFFICES ASSUME IInv, perso = "sampling"
                PROVE  /\ triggered /\ interrupts => table_cur + ElementBytes <= TableBytes
                       /\ size = table_cur /\ size <= TableBytes
                       /\ frame.to_send <= size
    BY DEF StoresInBounds
  <2>1. table_cur \in Nat /\ (triggered => table_cur < table_end)
    BY DEF IInv, TypeOK, TableOK
  <2>2. triggered => table_cur + ElementBytes <= TableBytes
    BY <2>1, Constants DEF table_end
  <2>. QED
    BY <2>2 DEF IInv, TableOK
<1>. QED
  BY <1>1, Invariant, PTL

(* Both together, which the runs check.                                    *)
THEOREM StaysInBounds == Spec => []InBounds
BY TypeCorrect, SamplesStayInBounds, PTL DEF InBounds

-----------------------------------------------------------------------------
(* The host reads a number byte by byte from the highest one.              *)
LEMMA NumberIsRecursive ==
  ASSUME NEW bytes \in Seq(Nat)
  PROVE  \E value \in [1 .. Len(bytes) + 1 -> Nat] :
           /\ value[Len(bytes) + 1] = 0
           /\ \A k \in 1 .. Len(bytes) : value[k] = bytes[k] + Base * value[k + 1]
           /\ Received!Number(bytes) = value[1]
<1>. DEFINE n == Len(bytes)
            Is(f) == f = [k \in 1 .. n + 1 |-> IF k > n THEN 0 ELSE bytes[k] + Base * f[k + 1]]
            value == CHOOSE f : Is(f)
            From(m) == {f \in [(n + 1) - m .. n + 1 -> Nat] :
                          \A k \in (n + 1) - m .. n + 1 :
                            f[k] = IF k > n THEN 0 ELSE bytes[k] + Base * f[k + 1]}
            T == {m \in 0 .. n : From(m) # {}}
<1>1. n \in Nat /\ Base \in Nat /\ \A k \in 1 .. n : bytes[k] \in Nat
  BY Constants, ElementOfSeq
<1>. DEFINE Sum == \A a, b, c \in Nat : a + b * c \in Nat
<1>0. Sum
  BY SMT
<1>. HIDE DEF Sum
<1>2. 0 \in T
  <2>1. [k \in n + 1 .. n + 1 |-> 0] \in From(0)
    BY <1>1
  <2>2. 0 \in 0 .. n
    BY <1>1
  <2>. HIDE DEF From
  <2>3. From(0) # {}
    BY <2>1
  <2>. QED
    BY <2>2, <2>3
<1>3. ASSUME NEW m \in 0 .. n - 1, m \in T PROVE m + 1 \in T
  <2>1. PICK f \in From(m) : TRUE
    BY <1>3
  <2>. DEFINE first == n - m
              g == [k \in first .. n + 1 |-> IF k = first THEN bytes[first] + Base * f[first + 1]
                                             ELSE f[k]]
  <2>2. first \in 1 .. n /\ (n + 1) - m = first + 1 /\ (n + 1) - (m + 1) = first
    BY <1>1
  <2>3. f \in [first + 1 .. n + 1 -> Nat]
        /\ \A k \in first + 1 .. n + 1 : f[k] = IF k > n THEN 0 ELSE bytes[k] + Base * f[k + 1]
    BY <2>1, <2>2
  <2>. HIDE DEF first
  <2>4. bytes[first] + Base * f[first + 1] \in Nat
    <3>1. first + 1 \in first + 1 .. n + 1
      BY <1>1, <2>2
    <3>2. f[first + 1] \in Nat /\ bytes[first] \in Nat
      BY <1>1, <2>2, <2>3, <3>1
    <3>. QED
      BY <1>0, <1>1, <3>2, Zenon DEF Sum
  <2>5. g \in [first .. n + 1 -> Nat]
    <3>1. ASSUME NEW k \in first .. n + 1, k # first PROVE f[k] \in Nat
      <4>1. k \in first + 1 .. n + 1
        BY <1>1, <2>2, <3>1
      <4>. QED
        BY <2>3, <4>1
    <3>. QED
      BY <2>4, <3>1
  <2>6. ASSUME NEW k \in first .. n + 1
        PROVE  g[k] = IF k > n THEN 0 ELSE bytes[k] + Base * g[k + 1]
    <3>1. CASE k = first
      <4>1. first + 1 \in first .. n + 1 /\ first + 1 # first /\ ~(k > n)
        BY <1>1, <2>2, <3>1
      <4>. QED
        BY <3>1, <4>1
    <3>2. CASE k # first
      <4>1. k \in first + 1 .. n + 1 /\ (k <= n => k + 1 \in first .. n + 1 /\ k + 1 # first)
        BY <1>1, <2>2, <3>2
      <4>2. f[k] = IF k > n THEN 0 ELSE bytes[k] + Base * f[k + 1]
        BY <2>3, <4>1
      <4>. QED
        BY <3>2, <4>1, <4>2, <1>1, <2>2
    <3>. QED
      BY <3>1, <3>2
  <2>7. g \in From(m + 1)
    <3>. HIDE DEF g
    <3>. QED
      BY <2>2, <2>5, <2>6
  <2>8. m + 1 \in 0 .. n
    BY <1>1
  <2>. HIDE DEF From, g
  <2>9. From(m + 1) # {}
    BY <2>7
  <2>. QED
    BY <2>8, <2>9
<1>4. n \in T
  <2>. HIDE DEF T
  <2>. QED
    BY <1>1, <1>2, <1>3, SetInduction
<1>5. PICK f \in From(n) : TRUE
  BY <1>4
<1>6. Is(f) /\ f \in [1 .. n + 1 -> Nat]
  <2>1. (n + 1) - n = 1
    BY <1>1
  <2>. QED
    BY <1>5, <2>1
<1>7. Is(value)
  BY <1>6, Zenon
<1>8. Received!Number(bytes) = value[1]
  BY Zenon DEF Received!Number
<1>. HIDE DEF value
<1>9. /\ value = [k \in 1 .. n + 1 |-> IF k > n THEN 0 ELSE bytes[k] + Base * value[k + 1]]
      /\ \A k \in 1 .. n + 1 : value[k] = IF k > n THEN 0 ELSE bytes[k] + Base * value[k + 1]
  BY <1>7
<1>10. value \in [1 .. n + 1 -> Nat]
  <2>. DEFINE V == {m \in 0 .. n : value[(n + 1) - m] \in Nat}
  <2>1. 0 \in V
    BY <1>1, <1>9
  <2>2. ASSUME NEW m \in 0 .. n - 1, m \in V PROVE m + 1 \in V
    <3>1. PICK k \in 1 .. n : k = n - m
      <4>1. n - m \in 1 .. n
        BY <1>1
      <4>. QED
        BY <4>1
    <3>2. (n + 1) - m = k + 1 /\ (n + 1) - (m + 1) = k /\ m + 1 \in 0 .. n
      BY <1>1, <3>1
    <3>3. value[k + 1] \in Nat /\ bytes[k] \in Nat
      BY <1>1, <2>2, <3>2
    <3>4. bytes[k] + Base * value[k + 1] \in Nat
      BY <1>0, <1>1, <3>3, Zenon DEF Sum
    <3>5. value[k] = bytes[k] + Base * value[k + 1]
      <4>1. k \in 1 .. n + 1 /\ ~(k > n)
        BY <1>1
      <4>. QED
        BY <1>9, <4>1
    <3>. QED
      BY <3>2, <3>4, <3>5
  <2>3. ASSUME NEW k \in 1 .. n + 1 PROVE value[k] \in Nat
    <3>1. PICK m \in 0 .. n : m = (n + 1) - k
      <4>1. (n + 1) - k \in 0 .. n
        BY <1>1
      <4>. QED
        BY <4>1
    <3>2. m \in V
      <4>1. \A j \in 0 .. m - 1 : j \in V => j + 1 \in V
        BY <2>2, <1>1
      <4>. HIDE DEF V
      <4>. QED
        BY <2>1, <4>1, SetInduction
    <3>3. (n + 1) - m = k
      BY <1>1, <3>1
    <3>. QED
      BY <3>2, <3>3
  <2>. QED
    BY <1>9, <2>3
<1>11. value[n + 1] = 0 /\ \A k \in 1 .. n : value[k] = bytes[k] + Base * value[k + 1]
  <2>1. n + 1 \in 1 .. n + 1 /\ n + 1 > n /\ \A k \in 1 .. n : k \in 1 .. n + 1 /\ ~(k > n)
    BY <1>1
  <2>. QED
    BY <1>9, <2>1
<1>. QED
  BY <1>8, <1>10, <1>11

(***************************************************************************)
(* What the host makes of an element each byte of which was read from a    *)
(* number that had grown meanwhile: no less than the number at first, and  *)
(* no more than the last one and the weight of the highest byte.           *)
(***************************************************************************)
LEMMA TornNumber ==
  ASSUME NEW bytes \in Seq(Nat), Len(bytes) = ElementBytes,
         NEW seen \in [1 .. ElementBytes -> Nat],
         \A k \in 1 .. ElementBytes : bytes[k] = (seen[k] \div Weight[k - 1]) % Base,
         \A k \in 1 .. ElementBytes - 1 : seen[k] <= seen[k + 1],
         seen[ElementBytes] < Weight[ElementBytes]
  PROVE  /\ Received!Number(bytes) \in Nat
         /\ seen[1] <= Received!Number(bytes)
         /\ Received!Number(bytes) < seen[ElementBytes] + Weight[ElementBytes - 1]
         /\ (\A k \in 1 .. ElementBytes : seen[k] = seen[1]) => Received!Number(bytes) = seen[1]
<1>. DEFINE n == ElementBytes
            same == \A k \in 1 .. n : seen[k] = seen[1]
            bound == seen[n] + Weight[n - 1]
            Q(k) == seen[k] \div Weight[k - 1]
<1>1. PICK value \in [1 .. n + 1 -> Nat] :
           /\ value[n + 1] = 0
           /\ \A k \in 1 .. n : value[k] = bytes[k] + Base * value[k + 1]
           /\ Received!Number(bytes) = value[1]
  BY NumberIsRecursive
<1>. DEFINE Close(k) == /\ Q(k) <= value[k]
                        /\ Weight[k - 1] * value[k] + Weight[k - 1] <= bound
                        /\ same => value[k] = Q(k)
            T == {m \in 0 .. n - 1 : Close(n - m)}
<1>2. /\ n \in Nat \ {0} /\ Base \in Nat \ {0}
      /\ \A k \in 1 .. n : /\ Weight[k - 1] \in Nat \ {0} /\ Weight[k] \in Nat \ {0}
                          /\ Weight[k] = Base * Weight[k - 1] /\ seen[k] \in Nat
                          /\ value[k] \in Nat /\ value[k + 1] \in Nat
                          /\ Q(k) \in Nat
  <2>1. n \in Nat \ {0} /\ Base \in Nat \ {0}
    BY Constants
  <2>. SUFFICES ASSUME NEW k \in 1 .. n
                PROVE  /\ Weight[k - 1] \in Nat \ {0} /\ Weight[k] \in Nat \ {0}
                       /\ Weight[k] = Base * Weight[k - 1] /\ seen[k] \in Nat
                       /\ value[k] \in Nat /\ value[k + 1] \in Nat
                       /\ Q(k) \in Nat
    BY <2>1
  <2>2. k - 1 \in 0 .. n - 1 /\ k - 1 \in 0 .. n /\ k \in 0 .. n /\ (k - 1) + 1 = k
        /\ k \in 1 .. n + 1 /\ k + 1 \in 1 .. n + 1
    BY <2>1
  <2>3. Weight[k - 1] \in Nat \ {0} /\ Weight[k] \in Nat \ {0}
    BY <2>2, Weights
  <2>4. Weight[(k - 1) + 1] = Base * Weight[k - 1]
    BY <2>2, Weights
  <2>5. seen[k] \in Nat
    OBVIOUS
  <2>6. value[k] \in Nat /\ value[k + 1] \in Nat
    BY <1>1, <2>2
  <2>7. seen[k] \div Weight[k - 1] \in Nat
    BY <2>3, <2>5, DivisionWithRemainder
  <2>. QED
    BY <2>2, <2>3, <2>4, <2>5, <2>6, <2>7
<1>3. Close(n)
  <2>. DEFINE w == Weight[n - 1]  s == seen[n]
  <2>1. w \in Nat \ {0} /\ s \in Nat /\ Weight[n] = Base * w /\ n \in 1 .. n
    BY <1>2
  <2>2. s < w * Base
    <3>1. Base * w = w * Base
      BY <1>2, <2>1, SMT
    <3>2. s < Weight[n]
      OBVIOUS
    <3>. QED
      BY <2>1, <3>1, <3>2
  <2>3. s \div w \in Nat /\ s \div w < Base
    BY <1>2, <2>1, <2>2, QuotientOfLess
  <2>4. (s \div w) % Base = s \div w
    <3>1. ASSUME NEW a \in Nat, a < Base PROVE a % Base = a
      <4>1. a \in 0 .. Base - 1 /\ Base * 0 + a = a
        BY <1>2, <3>1
      <4>2. (Base * 0 + a) % Base = a
        BY <1>2, <4>1, DivisionIsUnique
      <4>. QED
        BY <4>1, <4>2
    <3>. HIDE DEF w, s
    <3>. QED
      BY <2>3, <3>1
  <2>5. value[n] = s \div w
    <3>1. bytes[n] = (s \div w) % Base
      BY <2>1
    <3>2. value[n] = bytes[n] + Base * value[n + 1] /\ value[n + 1] = 0
      BY <1>1, <2>1
    <3>3. \A a \in Nat, b \in Nat : a + b * 0 = a
      OBVIOUS
    <3>4. bytes[n] = s \div w
      BY <2>4, <3>1
    <3>. QED
      BY <1>2, <2>3, <3>2, <3>3, <3>4
  <2>6. w * (s \div w) <= s
    <3>1. s = w * (s \div w) + (s % w) /\ s % w \in 0 .. w - 1
      BY <2>1, DivisionWithRemainder
    <3>. DEFINE p == w * (s \div w)  r == s % w
    <3>2. p \in Nat /\ r \in Nat /\ s = p + r
      <4>1. p \in Nat
        BY <2>1, <2>3, SMT
      <4>. QED
        BY <2>1, <3>1, <4>1
    <3>. HIDE DEF p, r
    <3>3. p <= s
      BY <3>2
    <3>. QED
      BY <3>3 DEF p
  <2>7. w * value[n] + w <= s + w
    <3>. DEFINE p == w * (s \div w)
    <3>1. p \in Nat
      BY <2>1, <2>3, SMT
    <3>2. p <= s
      BY <2>6
    <3>. HIDE DEF p, w, s
    <3>3. p + w <= s + w
      BY <2>1, <3>1, <3>2
    <3>. QED
      BY <2>5, <3>3 DEF p
  <2>8. Q(n) <= value[n]
    BY <2>3, <2>5
  <2>. QED
    BY <2>5, <2>7, <2>8
<1>4. ASSUME NEW k \in 1 .. n - 1, Close(k + 1) PROVE Close(k)
  <2>. DEFINE w == Weight[k - 1]  ww == Weight[k]  s == seen[k]  ss == seen[k + 1]
              d == (s \div w) % Base  rest == value[k + 1]
  <2>0. k \in 1 .. n /\ k + 1 \in 1 .. n /\ (k + 1) - 1 = k
    BY <1>2
  <2>1. /\ w \in Nat \ {0} /\ ww \in Nat \ {0} /\ s \in Nat /\ ss \in Nat /\ ww = Base * w
        /\ rest \in Nat /\ s \div w \in Nat /\ value[k] = d + Base * rest
    BY <1>1, <1>2, <2>0
  <2>2. s <= ss
    OBVIOUS
  <2>3. ss \div ww <= rest /\ ww * rest + ww <= bound /\ (same => rest = ss \div ww)
    BY <1>4, <2>0
  <2>4. same => s = ss
    BY <2>0
  <2>. HIDE DEF w, ww, s, ss, rest, same
  <2>5. d \in 0 .. Base - 1
    BY <1>2, <2>1, DivisionWithRemainder
  <2>6. s \div w = d + Base * (s \div ww)
    BY <1>2, <2>1, DigitAndRest
  <2>7. s \div ww \in Nat /\ ss \div ww \in Nat /\ s \div ww <= ss \div ww
    BY <2>1, <2>2, DivisionWithRemainder, QuotientIsMonotonic
  <2>8. s \div ww <= rest
    BY <2>1, <2>3, <2>7
  <2>. HIDE DEF d
  <2>9. d + Base * (s \div ww) <= d + Base * rest
    <3>1. \A a, b, c, e \in Nat : b <= c => a + e * b <= a + e * c
      <4>1. \A b, c, e \in Nat : b <= c => e * (c - b) >= 0
        BY SMT
      <4>. QED
        BY <4>1, SMT
    <3>2. d \in Nat /\ Base \in Nat
      BY <1>2, <2>5
    <3>. QED
      BY <2>1, <2>7, <2>8, <3>1, <3>2, Zenon
  <2>10. w * (d + Base * rest) + w <= ww * rest + ww
    <3>1. w * d + w <= w * Base
      BY <1>2, <2>1, <2>5, MultiplesAreApart
    <3>2. \A a, b, c, e \in Nat : a * b + a <= a * c => a * (b + c * e) + a <= (c * a) * e + c * a
      <4>. SUFFICES ASSUME NEW a \in Nat, NEW b \in Nat, NEW c \in Nat, NEW e \in Nat,
                           a * b + a <= a * c
                    PROVE  a * (b + c * e) + a <= (c * a) * e + c * a
        OBVIOUS
      <4>1. a * (b + c * e) = a * b + (c * a) * e /\ a * c = c * a
        BY SMT
      <4>2. a * b \in Nat /\ (c * a) * e \in Nat /\ c * a \in Nat
        BY SMT
      <4>. QED
        BY <4>1, <4>2
    <3>3. w \in Nat /\ d \in Nat /\ Base \in Nat /\ rest \in Nat
      BY <1>2, <2>1, <2>5
    <3>. QED
      BY <2>1, <3>1, <3>2, <3>3, Zenon
  <2>11. ww * rest + ww \in Int /\ w * (d + Base * rest) + w \in Int /\ bound \in Int
    <3>1. \A a, b \in Int : a * b + a \in Int
      BY SMT
    <3>2. d + Base * rest \in Int
      BY <1>2, <2>1, <2>5, SMT
    <3>3. bound \in Int
      <4>1. n \in 1 .. n
        BY <1>2
      <4>2. seen[n] \in Nat /\ Weight[n - 1] \in Nat
        BY <1>2, <4>1
      <4>. QED
        BY <4>2
    <3>4. w \in Int /\ ww \in Int /\ rest \in Int
      BY <2>1
    <3>. QED
      BY <3>1, <3>2, <3>3, <3>4, Zenon
  <2>12. w * (d + Base * rest) + w <= bound
    <3>. DEFINE x == w * (d + Base * rest) + w  y == ww * rest + ww
    <3>. HIDE DEF bound
    <3>1. x \in Int /\ y \in Int /\ bound \in Int /\ x <= y /\ y <= bound
      BY <2>3, <2>10, <2>11
    <3>. HIDE DEF x, y
    <3>2. x <= bound
      BY <3>1
    <3>. QED
      BY <3>2 DEF x
  <2>13. same => d + Base * rest = s \div w
    BY <2>3, <2>4, <2>6
  <2>14. Q(k) = s \div w
    BY DEF s, w
  <2>15. Q(k) <= value[k]
    BY <2>1, <2>6, <2>9, <2>14
  <2>. QED
    BY <2>1, <2>12, <2>13, <2>14, <2>15 DEF w
<1>5. Close(1)
  <2>1. 0 \in T
    BY <1>2, <1>3
  <2>2. ASSUME NEW m \in 0 .. (n - 1) - 1, m \in T PROVE m + 1 \in T
    <3>1. (n - m) - 1 \in 1 .. n - 1 /\ ((n - m) - 1) + 1 = n - m /\ n - (m + 1) = (n - m) - 1
          /\ m + 1 \in 0 .. n - 1
      BY <1>2
    <3>2. Close(n - m)
      BY <2>2
    <3>. HIDE DEF Close
    <3>3. Close(((n - m) - 1) + 1)
      BY <3>1, <3>2
    <3>4. Close((n - m) - 1)
      BY <1>4, <3>1, <3>3
    <3>. QED
      BY <3>1, <3>4
  <2>3. n - 1 \in T
    <3>1. n - 1 \in Nat
      BY <1>2
    <3>. HIDE DEF T
    <3>. QED
      BY <2>1, <2>2, <3>1, SetInduction
  <2>4. n - (n - 1) = 1
    BY <1>2
  <2>. HIDE DEF Close
  <2>. QED
    BY <2>3, <2>4
<1>6. Q(1) = seen[1] /\ Weight[0] = 1
  <2>1. seen[1] \in Nat
    BY <1>2
  <2>2. \A a \in Nat : a \div 1 = a
    OBVIOUS
  <2>. QED
    BY <2>1, <2>2, Weights
<1>7. value[1] \in Nat /\ bound \in Nat /\ seen[1] \in Nat
  <2>1. 1 \in 1 .. n /\ n \in 1 .. n
    BY <1>2
  <2>2. /\ value[1] \in Nat /\ seen[1] \in Nat /\ seen[n] \in Nat /\ Weight[n - 1] \in Nat
    BY <1>2, <2>1
  <2>. QED
    BY <2>2
<1>8. value[1] + 1 <= bound /\ seen[1] <= value[1] /\ (same => value[1] = seen[1])
  <2>1. 1 * value[1] + 1 = value[1] + 1
    BY <1>7
  <2>. HIDE DEF bound, same
  <2>. QED
    BY <1>5, <1>6, <2>1
<1>9. value[1] < bound
  <2>. HIDE DEF bound
  <2>. QED
    BY <1>7, <1>8
<1>. QED
  BY <1>1, <1>7, <1>8, <1>9

-----------------------------------------------------------------------------
(* What is kept of conversions, as a function of them.                     *)
KeptOf(conversions, step) ==
  [k \in 1 .. Len(conversions) \div step |-> conversions[k * step]]

LEMMA KeptGrows ==
  ASSUME NEW conversions \in Seq(Channel), NEW step \in Nat \ {0}, NEW value \in Channel
  PROVE  /\ KeptOf(conversions, step) \in Seq(Channel)
         /\ Len(KeptOf(conversions, step)) = Len(conversions) \div step
         /\ IF Len(conversions) % step = step - 1
            THEN /\ KeptOf(Append(conversions, value), step)
                      = Append(KeptOf(conversions, step), value)
                 /\ (Len(conversions) + 1) % step = 0
            ELSE /\ KeptOf(Append(conversions, value), step) = KeptOf(conversions, step)
                 /\ (Len(conversions) + 1) % step = (Len(conversions) % step) + 1
<1>. DEFINE n == Len(conversions)  q == n \div step  r == n % step
            longer == Append(conversions, value)
<1>1. n \in Nat
  OBVIOUS
<1>2. q \in Nat /\ r \in 0 .. step - 1 /\ n = step * q + r
  BY <1>1, DivisionWithRemainder
<1>3. Len(longer) = n + 1 /\ \A k \in 1 .. n : longer[k] = conversions[k]
  BY AppendProperties
<1>4. longer[n + 1] = value /\ \A k \in 1 .. n : conversions[k] \in Channel
  BY AppendProperties, ElementOfSeq
<1>. HIDE DEF q, r, longer, n
<1>5. ASSUME NEW k \in 1 .. q PROVE k * step \in 1 .. n
  <2>1. k * step = step * k
    BY <1>2, SMT
  <2>2. step * 0 + step <= step * k
    BY MultiplesAreApart
  <2>3. step * k <= step * q
    <3>1. step * (q - k) >= 0
      BY <1>2, SMT
    <3>2. step * (q - k) = step * q - step * k /\ step * q \in Int /\ step * k \in Int
      BY <1>2, SMT
    <3>. QED
      BY <3>1, <3>2
  <2>4. step * 0 = 0 /\ step * k \in Int /\ step * q \in Int
    BY <1>2, SMT
  <2>. DEFINE a == step * k  b == step * q
  <2>5. a \in Int /\ b \in Int /\ step <= a /\ a <= b /\ n = b + r
    BY <1>2, <2>2, <2>3, <2>4
  <2>. HIDE DEF a, b
  <2>6. a \in 1 .. n
    BY <1>1, <1>2, <2>5
  <2>. QED
    BY <2>1, <2>6 DEF a
<1>6. KeptOf(conversions, step) = [k \in 1 .. q |-> conversions[k * step]]
  BY DEF KeptOf, q, n
<1>7. KeptOf(conversions, step) \in [1 .. q -> Channel]
  BY <1>4, <1>5, <1>6
<1>8. KeptOf(conversions, step) \in Seq(Channel) /\ Len(KeptOf(conversions, step)) = q
  BY <1>2, <1>7 DEF Seq
<1>9. KeptOf(longer, step) = [k \in 1 .. (n + 1) \div step |-> longer[k * step]]
  BY <1>3 DEF KeptOf
<1>10. CASE r = step - 1
  <2>1. n + 1 = step * (q + 1) + 0 /\ q + 1 \in Nat /\ 0 \in 0 .. step - 1
    <3>1. step * (q + 1) = step * q + step /\ step * q \in Int
      BY <1>2, SMT
    <3>. QED
      BY <1>2, <1>10, <3>1
  <2>2. (n + 1) \div step = q + 1 /\ (n + 1) % step = 0
    BY <2>1, DivisionIsUnique
  <2>3. (q + 1) * step = n + 1
    BY <1>1, <1>2, <2>1, SMT
  <2>4. KeptOf(longer, step) = [k \in 1 .. q + 1 |-> IF k = q + 1 THEN value ELSE conversions[k * step]]
    <3>1. ASSUME NEW k \in 1 .. q + 1
          PROVE  longer[k * step] = IF k = q + 1 THEN value ELSE conversions[k * step]
      <4>1. CASE k = q + 1
        BY <4>1, <1>4, <2>3
      <4>2. CASE k # q + 1
        <5>1. k \in 1 .. q
          BY <1>2, <4>2
        <5>. QED
          BY <4>2, <5>1, <1>3, <1>5
      <4>. QED
        BY <4>1, <4>2
    <3>. QED
      BY <1>9, <2>2, <3>1
  <2>5. Append(KeptOf(conversions, step), value)
          = [k \in 1 .. q + 1 |-> IF k = q + 1 THEN value ELSE conversions[k * step]]
    <3>. DEFINE kept == KeptOf(conversions, step)
    <3>1. kept \in Seq(Channel) /\ Len(kept) = q /\ \A k \in 1 .. q : kept[k] = conversions[k * step]
      BY <1>6, <1>8
    <3>. HIDE DEF kept
    <3>2. /\ Append(kept, value) \in Seq(Channel) /\ Len(Append(kept, value)) = q + 1
          /\ Append(kept, value)[q + 1] = value
          /\ \A k \in 1 .. q : Append(kept, value)[k] = conversions[k * step]
      BY <3>1, AppendProperties
    <3>3. Append(kept, value) = [k \in 1 .. q + 1 |-> Append(kept, value)[k]]
      <4>1. Append(kept, value) \in [1 .. q + 1 -> Channel]
        BY <3>2, LenProperties
      <4>. QED
        BY <4>1
    <3>4. ASSUME NEW k \in 1 .. q + 1
          PROVE  Append(kept, value)[k] = IF k = q + 1 THEN value ELSE conversions[k * step]
      BY <1>2, <3>2
    <3>5. Append(kept, value)
            = [k \in 1 .. q + 1 |-> IF k = q + 1 THEN value ELSE conversions[k * step]]
      BY <3>3, <3>4
    <3>. QED
      BY <3>5 DEF kept
  <2>. QED
    BY <1>8, <1>10, <2>2, <2>4, <2>5 DEF q, r, n, longer
<1>11. CASE r # step - 1
  <2>1. n + 1 = step * q + (r + 1) /\ r + 1 \in 0 .. step - 1
    <3>1. step * q \in Int
      BY <1>2, SMT
    <3>. QED
      BY <1>2, <1>11, <3>1
  <2>2. (n + 1) \div step = q /\ (n + 1) % step = r + 1
    BY <1>2, <2>1, DivisionIsUnique
  <2>3. KeptOf(longer, step) = KeptOf(conversions, step)
    BY <1>3, <1>5, <1>6, <1>9, <2>2
  <2>. QED
    BY <1>8, <1>11, <2>2, <2>3 DEF q, r, n, longer
<1>. QED
  BY <1>10, <1>11

(* How often a value occurs.                                               *)
LEMMA Counting ==
  ASSUME NEW kept \in Seq(Channel), NEW channel
  PROVE  /\ Counted(kept, channel) \in Nat
         /\ \A value \in Channel :
              Counted(Append(kept, value), channel)
                = Counted(kept, channel) + (IF value = channel THEN 1 ELSE 0)
         /\ \A n \in 0 .. Len(kept) :
              Counted(SubSeq(kept, 1, n), channel) <= Counted(kept, channel)
<1>. DEFINE At(s) == {k \in DOMAIN s : s[k] = channel}
<1>1. Len(kept) \in Nat /\ DOMAIN kept = 1 .. Len(kept)
  OBVIOUS
<1>2. IsFiniteSet(At(kept)) /\ Cardinality(At(kept)) \in Nat
  <2>1. IsFiniteSet(1 .. Len(kept))
    BY <1>1, FS_Interval
  <2>2. At(kept) \in SUBSET (1 .. Len(kept))
    BY <1>1
  <2>. HIDE DEF At
  <2>3. IsFiniteSet(At(kept))
    BY <2>1, <2>2, FS_Subset
  <2>. QED
    BY <2>3, FS_CardinalityType
<1>3. ASSUME NEW value \in Channel
      PROVE  Counted(Append(kept, value), channel)
               = Counted(kept, channel) + (IF value = channel THEN 1 ELSE 0)
  <2>. DEFINE longer == Append(kept, value)  last == Len(kept) + 1
  <2>1. /\ DOMAIN longer = 1 .. last /\ longer[last] = value
        /\ \A k \in 1 .. Len(kept) : longer[k] = kept[k]
    <3>1. longer \in Seq(Channel) /\ Len(longer) = last
      BY AppendProperties
    <3>. QED
      BY <3>1, AppendProperties
  <2>. HIDE DEF longer
  <2>2. last \notin At(kept)
    BY <1>1
  <2>3. CASE value = channel
    <3>1. At(longer) = At(kept) \cup {last}
      BY <1>1, <2>1, <2>3
    <3>2. Cardinality(At(kept) \cup {last}) = Cardinality(At(kept)) + 1
      <4>. HIDE DEF At, last
      <4>. QED
        BY <1>2, <2>2, FS_AddElement
    <3>. QED
      BY <2>3, <3>1, <3>2 DEF Counted, longer
  <2>4. CASE value # channel
    <3>1. At(longer) = At(kept)
      BY <1>1, <2>1, <2>4
    <3>2. Counted(longer, channel) = Counted(kept, channel)
      BY <3>1 DEF Counted
    <3>3. Counted(kept, channel) \in Nat
      BY <1>2 DEF Counted
    <3>. QED
      BY <2>4, <3>2, <3>3 DEF longer
  <2>. QED
    BY <2>3, <2>4
<1>4. ASSUME NEW n \in 0 .. Len(kept)
      PROVE  Counted(SubSeq(kept, 1, n), channel) <= Counted(kept, channel)
  <2>1. DOMAIN SubSeq(kept, 1, n) = 1 .. n /\ \A k \in 1 .. n : SubSeq(kept, 1, n)[k] = kept[k]
    BY <1>1
  <2>2. At(SubSeq(kept, 1, n)) \in SUBSET At(kept)
    BY <1>1, <2>1
  <2>3. Cardinality(At(SubSeq(kept, 1, n))) <= Cardinality(At(kept))
    <3>. HIDE DEF At
    <3>. QED
      BY <1>2, <2>2, FS_Subset
  <2>. QED
    BY <2>3 DEF Counted
<1>. QED
  BY <1>2, <1>3, <1>4 DEF Counted

(* A count that wraps is the remainder of the one that does not.           *)
LEMMA CountsWrap ==
  ASSUME NEW width \in Nat \ {0}, NEW count \in Nat
  PROVE  ((count % width) + 1) % width = (count + 1) % width
<1>. DEFINE q == count \div width  r == count % width
<1>1. q \in Nat /\ r \in 0 .. width - 1 /\ count = width * q + r
  BY DivisionWithRemainder
<1>. HIDE DEF q, r
<1>2. width * q \in Nat
  BY <1>1, SMT
<1>3. CASE r + 1 < width
  <2>1. r + 1 \in 0 .. width - 1 /\ width * 0 + (r + 1) = r + 1 /\ count + 1 = width * q + (r + 1)
    BY <1>1, <1>2, <1>3
  <2>2. (width * q + (r + 1)) % width = r + 1 /\ (width * 0 + (r + 1)) % width = r + 1
    BY <1>1, <2>1, DivisionIsUnique
  <2>. QED
    BY <2>1, <2>2 DEF r
<1>4. CASE ~(r + 1 < width)
  <2>1. width * (q + 1) = width * q + width /\ width * 1 = width /\ width * 0 = 0
    BY <1>1, SMT
  <2>2. r + 1 = width * 1 + 0 /\ count + 1 = width * (q + 1) + 0 /\ 0 \in 0 .. width - 1 /\ q + 1 \in Nat
    BY <1>1, <1>2, <1>4, <2>1
  <2>3. (width * (q + 1) + 0) % width = 0 /\ (width * 1 + 0) % width = 0
    BY <2>2, DivisionIsUnique
  <2>. QED
    BY <2>2, <2>3 DEF r
<1>. QED
  BY <1>3, <1>4

-----------------------------------------------------------------------------
(***************************************************************************)
(* The inductive invariant of what a table holds.  The conversions left to *)
(* skip follow from how many there were; samples are the ones kept, in     *)
(* their order, a histogram counts them; and the flag is set when the      *)
(* memory is full or as many conversions came as were asked for.           *)
(***************************************************************************)
Lasts == IF orig_timer1_count = 0 THEN Word ELSE orig_timer1_count

Left == IF Lasts - Len(converted) = Word THEN 0 ELSE Lasts - Len(converted)

KeepsOK ==
  /\ pstate = "READY" => converted = <<>>
  /\ perso = "mca" => orig_skip_samples = 0
  /\ skip_samples = orig_skip_samples - (Len(converted) % (orig_skip_samples + 1))

TimerOK ==
  perso = "mca-timed" =>
    /\ gf => Len(converted) >= Lasts
    /\ pstate = "MEASURING" /\ ~gf => Len(converted) < Lasts /\ timer1_count = Left

SamplesOK ==
  perso = "sampling" =>
    /\ gf => table_cur >= table_end
    /\ size = ElementBytes * Len(Kept)
    /\ \A p \in 0 .. Len(Kept) - 1 : table[p] = Kept[p + 1]

CountsOK ==
  perso # "sampling" => \A p \in Channel : table[p] = Counted(Kept, p) % (Base ^ ElementBytes)

StoreInv == KeepsOK /\ TimerOK /\ SamplesOK /\ CountsOK

(* What is kept, of the state.                                             *)
LEMMA KeptIs ==
  ASSUME IInv
  PROVE  /\ Kept = KeptOf(converted, orig_skip_samples + 1)
         /\ Kept \in Seq(Channel)
         /\ converted \in Seq(Channel) /\ orig_skip_samples + 1 \in Nat \ {0}
<1>1. converted \in Seq(Channel) /\ orig_skip_samples + 1 \in Nat \ {0}
  BY Constants DEF IInv, TypeOK
<1>2. Kept = KeptOf(converted, orig_skip_samples + 1)
  BY DEF Kept, KeptOf
<1>3. 0 \in Channel
  BY Constants DEF Channel
<1>. QED
  BY <1>1, <1>2, <1>3, KeptGrows

(* Nothing is kept of no conversions.                                      *)
LEMMA NothingKept ==
  /\ \A step \in Nat \ {0} : KeptOf(<<>>, step) = <<>>
  /\ \A channel : Counted(<<>>, channel) = 0
<1>1. ASSUME NEW step \in Nat \ {0} PROVE KeptOf(<<>>, step) = <<>>
  <2>1. step * 0 + 0 = 0 /\ 0 \in 0 .. step - 1
    OBVIOUS
  <2>2. (step * 0 + 0) \div step = 0
    BY <2>1, DivisionIsUnique
  <2>3. Len(<<>>) \div step = 0
    BY <2>1, <2>2
  <2>4. KeptOf(<<>>, step) = [k \in 1 .. 0 |-> <<>>[k * step]]
    BY <2>3 DEF KeptOf
  <2>. QED
    BY <2>4
<1>2. ASSUME NEW channel PROVE Counted(<<>>, channel) = 0
  <2>1. {k \in DOMAIN <<>> : <<>>[k] = channel} = {}
    OBVIOUS
  <2>. QED
    BY <2>1, FS_EmptySet DEF Counted
<1>. QED
  BY <1>1, <1>2

(* A conversion is kept when the samples to skip are used up.              *)
LEMMA ConversionKeeps ==
  ASSUME IInv, KeepsOK, NEW value \in Channel, converted' = Append(converted, value),
         UNCHANGED orig_skip_samples
  PROVE  /\ Len(converted') = Len(converted) + 1
         /\ skip_samples = 0 =>
              /\ Kept' = Append(Kept, value)
              /\ orig_skip_samples = orig_skip_samples - (Len(converted') % (orig_skip_samples + 1))
         /\ skip_samples # 0 =>
              /\ Kept' = Kept
              /\ skip_samples - 1 = orig_skip_samples - (Len(converted') % (orig_skip_samples + 1))
<1>. DEFINE step == orig_skip_samples + 1  r == Len(converted) % step
<1>1. /\ Kept = KeptOf(converted, step) /\ converted \in Seq(Channel) /\ step \in Nat \ {0}
      /\ orig_skip_samples \in Nat
  BY KeptIs, Constants DEF IInv, TypeOK
<1>2. Kept' = KeptOf(Append(converted, value), step)
  BY DEF Kept, KeptOf
<1>3. Len(converted') = Len(converted) + 1 /\ Len(converted) \in Nat
  BY <1>1, AppendProperties
<1>4. r \in 0 .. step - 1
  BY <1>1, <1>3, DivisionWithRemainder
<1>5. skip_samples = orig_skip_samples - r
  BY DEF KeepsOK
<1>6. IF r = step - 1
      THEN /\ KeptOf(Append(converted, value), step) = Append(KeptOf(converted, step), value)
           /\ (Len(converted) + 1) % step = 0
      ELSE /\ KeptOf(Append(converted, value), step) = KeptOf(converted, step)
           /\ (Len(converted) + 1) % step = r + 1
  BY <1>1, KeptGrows
<1>7. (skip_samples = 0 <=> r = step - 1) /\ r \in Nat
  BY <1>1, <1>4, <1>5
<1>8. Len(converted') % step = (Len(converted) + 1) % step
  BY <1>3
<1>9. CASE skip_samples = 0
  <2>1. Kept' = Append(Kept, value) /\ Len(converted') % step = 0
    BY <1>1, <1>2, <1>6, <1>7, <1>8, <1>9, Zenon
  <2>2. orig_skip_samples = orig_skip_samples - 0
    BY <1>1
  <2>. QED
    BY <1>3, <1>9, <2>1, <2>2
<1>10. CASE skip_samples # 0
  <2>1. Kept' = Kept /\ Len(converted') % step = r + 1
    BY <1>1, <1>2, <1>6, <1>7, <1>8, <1>10, Zenon
  <2>2. skip_samples - 1 = orig_skip_samples - (r + 1)
    <3>. HIDE DEF r
    <3>. QED
      BY <1>1, <1>5, <1>7
  <2>. QED
    BY <1>3, <1>10, <2>1, <2>2
<1>. QED
  BY <1>9, <1>10

(* A reset empties the table.                                              *)
LEMMA NothingStored ==
  ASSUME NEW width \in Nat \ {0} PROVE 0 % width = 0
<1>1. width * 0 + 0 = 0 /\ 0 \in 0 .. width - 1
  OBVIOUS
<1>2. (width * 0 + 0) % width = 0
  BY <1>1, DivisionIsUnique
<1>. QED
  BY <1>1, <1>2

LEMMA StoreBegins ==
  /\ Init => StoreInv
  /\ IInv /\ Reset => StoreInv'
<1>1. /\ KeptOf(<<>>, 0 + 1) = <<>> /\ \A channel : Counted(<<>>, channel) % (Base ^ ElementBytes) = 0
      /\ Len(<<>>) = 0 /\ 0 % (0 + 1) = 0 /\ ElementBytes * 0 = 0
  <2>1. Base ^ ElementBytes \in Nat \ {0}
    BY Constants
  <2>2. \A channel : Counted(<<>>, channel) % (Base ^ ElementBytes) = 0
    BY <2>1, NothingKept, NothingStored
  <2>3. ElementBytes * 0 = 0
    BY Constants
  <2>. QED
    BY <2>2, <2>3, NothingKept
<1>2. ASSUME Init PROVE StoreInv
  <2>1. Kept = <<>>
    BY <1>1, <1>2 DEF Init, Kept, KeptOf
  <2>2. KeepsOK /\ TimerOK
    BY <1>1, <1>2 DEF Init, KeepsOK, TimerOK
  <2>3. SamplesOK
    BY <1>1, <1>2, <2>1 DEF Init, SamplesOK, InitialSize
  <2>4. CountsOK
    BY <1>1, <1>2, <2>1 DEF Init, CountsOK, Places
  <2>. QED
    BY <2>2, <2>3, <2>4 DEF StoreInv
<1>3. ASSUME Reset PROVE StoreInv'
  <2>1. Kept' = <<>>
    BY <1>1, <1>3 DEF Reset, Kept, KeptOf
  <2>2. KeepsOK' /\ TimerOK'
    BY <1>1, <1>3 DEF Reset, KeepsOK, TimerOK
  <2>3. SamplesOK'
    BY <1>1, <1>3, <2>1 DEF Reset, SamplesOK, InitialSize
  <2>4. CountsOK'
    BY <1>1, <1>3, <2>1 DEF Reset, CountsOK, Places
  <2>. QED
    BY <2>2, <2>3, <2>4 DEF StoreInv
<1>. QED
  BY <1>2, <1>3

(* The parameters are taken when nothing was converted yet.                *)
LEMMA StartStores ==
  ASSUME IInv, StoreInv, NEW timer \in ParameterValues, NEW skip \in ParameterValues,
         Start(timer, skip)
  PROVE  StoreInv'
<1>1. converted = <<>> /\ skip \in Nat /\ orig_skip_samples \in Nat /\ timer \in 0 .. Word - 1
  BY AdcAssumption DEF ParameterValues, Start, StoreInv, KeepsOK, IInv, TypeOK
<1>2. Kept = <<>> /\ Kept' = <<>>
  BY <1>1, NothingKept DEF Start, Kept, KeptOf
<1>3. Len(<<>>) = 0 /\ 0 % (skip + 1) = 0 /\ skip = skip - 0
  <2>1. skip + 1 \in Nat \ {0} /\ skip = skip - 0
    BY <1>1
  <2>. QED
    BY <2>1, NothingStored
<1>4. KeepsOK'
  BY <1>1, <1>3 DEF Start, Parameters, KeepsOK
<1>5. TimerOK'
  <2>1. perso = "mca-timed" => ~gf
    BY <1>1, Constants DEF Start, StoreInv, TimerOK, Lasts, IInv, TypeOK
  <2>. QED
    BY <1>1, <2>1, Constants DEF Start, TimerOK, Lasts, Left
<1>6. SamplesOK'
  BY <1>2 DEF Start, StoreInv, SamplesOK, table_vars, table_end
<1>7. CountsOK'
  BY <1>2 DEF Start, StoreInv, CountsOK, table_vars
<1>. QED
  BY <1>4, <1>5, <1>6, <1>7 DEF StoreInv

(* A sample goes where the ones before it end.                             *)
LEMMA SampleStores ==
  ASSUME IInv, StoreInv, NEW value \in Channel, Sample(value)
  PROVE  StoreInv'
<1>1. /\ perso = "sampling" /\ perso' = perso /\ triggered /\ converted' = Append(converted, value)
      /\ UNCHANGED <<pstate, orig_skip_samples>>
  BY DEF Sample, Conversion, params
<1>2. pstate # "READY" /\ KeepsOK
  BY <1>1 DEF IInv, ModeOK, StoreInv
<1>3. CASE Skip
  <2>1. skip_samples # 0 /\ skip_samples' = skip_samples - 1 /\ table' = table
        /\ UNCHANGED <<gf, table_cur, size>>
    BY <1>3 DEF Sample, Skip
  <2>2. Kept' = Kept /\ skip_samples' = orig_skip_samples - (Len(converted') % (orig_skip_samples + 1))
    BY <1>1, <1>2, <2>1, ConversionKeeps
  <2>. QED
    BY <1>1, <1>2, <2>1, <2>2 DEF StoreInv, KeepsOK, TimerOK, SamplesOK, CountsOK, table_end
<1>4. CASE ~Skip
  <2>1. /\ skip_samples = 0 /\ table' = [table EXCEPT ![table_cur \div ElementBytes] = value]
        /\ table_cur' = table_cur + ElementBytes /\ size' = size + ElementBytes
        /\ skip_samples' = orig_skip_samples /\ gf' = (table_cur' >= table_end)
    BY <1>4 DEF Sample
  <2>2. /\ Kept' = Append(Kept, value)
        /\ skip_samples' = orig_skip_samples - (Len(converted') % (orig_skip_samples + 1))
    BY <1>1, <1>2, <2>1, ConversionKeeps
  <2>3. /\ Kept \in Seq(Channel) /\ Len(Kept) \in Nat /\ size = ElementBytes * Len(Kept)
        /\ table_cur = size /\ size < table_end /\ table \in [Places -> Count]
        /\ \A p \in 0 .. Len(Kept) - 1 : table[p] = Kept[p + 1]
    BY <1>1, KeptIs DEF IInv, TypeOK, TableOK, StoreInv, SamplesOK
  <2>. DEFINE n == Len(Kept)
  <2>4. table_cur \div ElementBytes = n
    <3>1. ElementBytes * n + 0 = table_cur /\ 0 \in 0 .. ElementBytes - 1
      <4>1. table_cur \in Nat
        BY DEF IInv, TypeOK
      <4>. QED
        BY <2>3, <4>1, Constants
    <3>2. (ElementBytes * n + 0) \div ElementBytes = n
      BY <2>3, <3>1, Constants, DivisionIsUnique
    <3>. QED
      BY <3>1, <3>2
  <2>5. Len(Kept') = n + 1 /\ Kept'[n + 1] = value /\ \A k \in 1 .. n : Kept'[k] = Kept[k]
    BY <2>2, <2>3, AppendProperties
  <2>6. size' = ElementBytes * (n + 1)
    <3>1. \A a, b \in Nat : a * b + a = a * (b + 1)
      BY SMT
    <3>. QED
      BY <2>1, <2>3, <3>1, Constants
  <2>7. ASSUME NEW p \in 0 .. Len(Kept') - 1 PROVE table'[p] = Kept'[p + 1]
    <3>1. n \in Places
      <4>1. table_cur + ElementBytes <= TableBytes /\ TableBytes \in Nat /\ ElementBytes \in Nat \ {0}
        BY <2>3, Constants DEF table_end, IInv, TypeOK
      <4>2. ElementBytes * (n + 1) <= TableBytes
        BY <2>1, <2>3, <2>6, <4>1
      <4>3. ElementBytes * (n + 1) + 0 = ElementBytes * (n + 1) /\ 0 \in 0 .. ElementBytes - 1
            /\ n + 1 \in Nat /\ ElementBytes * (n + 1) \in Nat
        BY <2>3, <4>1, SMT
      <4>4. (ElementBytes * (n + 1) + 0) \div ElementBytes = n + 1
        BY <4>1, <4>3, DivisionIsUnique
      <4>5. n + 1 <= TableBytes \div ElementBytes /\ TableBytes \div ElementBytes \in Nat
        <5>. DEFINE x == ElementBytes * (n + 1)
        <5>1. x \in Nat /\ x <= TableBytes /\ x \div ElementBytes = n + 1
          BY <4>2, <4>3, <4>4
        <5>. HIDE DEF x
        <5>2. x \div ElementBytes <= TableBytes \div ElementBytes
          BY <4>1, <5>1, QuotientIsMonotonic
        <5>. QED
          BY <4>1, <5>1, <5>2, DivisionWithRemainder
      <4>. QED
        BY <1>1, <2>3, <4>5 DEF Places
    <3>2. CASE p = n
      BY <2>1, <2>3, <2>4, <2>5, <3>1, <3>2
    <3>3. CASE p # n
      <4>1. p \in 0 .. n - 1 /\ p + 1 \in 1 .. n
        BY <2>3, <2>5, <3>3
      <4>. QED
        BY <2>1, <2>3, <2>4, <2>5, <3>3, <4>1
    <3>. QED
      BY <3>2, <3>3
  <2>8. SamplesOK'
    BY <2>1, <2>5, <2>6, <2>7 DEF SamplesOK, table_end
  <2>. QED
    BY <1>1, <1>2, <2>1, <2>2, <2>8 DEF StoreInv, KeepsOK, TimerOK, CountsOK
<1>. QED
  BY <1>3, <1>4

(* A value is counted once.                                                *)
LEMMA CountsOneMore ==
  ASSUME IInv, StoreInv, perso # "sampling", NEW value \in Channel,
         table' = Increment(table, value), Kept' = Append(Kept, value), perso' = perso
  PROVE  CountsOK'
<1>. DEFINE width == Base ^ ElementBytes
<1>1. width \in Nat \ {0} /\ Kept \in Seq(Channel) /\ table \in [Channel -> Count]
  BY Constants, KeptIs DEF IInv, TypeOK, Places
<1>2. \A p \in Channel : table[p] = Counted(Kept, p) % width
  BY DEF StoreInv, CountsOK
<1>3. table' = [table EXCEPT ![value] = (table[value] + 1) % width]
  BY DEF Increment
<1>. HIDE DEF width
<1>4. ASSUME NEW p \in Channel PROVE table'[p] = Counted(Kept', p) % width
  <2>1. Counted(Kept, p) \in Nat
        /\ Counted(Append(Kept, value), p) = Counted(Kept, p) + (IF value = p THEN 1 ELSE 0)
    BY <1>1, Counting
  <2>2. CASE value = p
    <3>1. table'[p] = (table[p] + 1) % width
      BY <1>1, <1>3, <2>2
    <3>2. ((Counted(Kept, p) % width) + 1) % width = (Counted(Kept, p) + 1) % width
      BY <1>1, <2>1, CountsWrap
    <3>3. Counted(Kept', p) = Counted(Kept, p) + 1
      BY <2>1, <2>2
    <3>. QED
      BY <1>2, <3>1, <3>2, <3>3
  <2>3. CASE value # p
    <3>1. table'[p] = table[p]
      BY <1>1, <1>3, <2>3
    <3>2. Counted(Kept', p) = Counted(Kept, p)
      BY <2>1, <2>3
    <3>. QED
      BY <1>2, <3>1, <3>2
  <2>. QED
    BY <2>2, <2>3
<1>. QED
  BY <1>4 DEF CountsOK, width

(* The flag is set when as many conversions came as were asked for.        *)
LEMMA CountTimedStores ==
  ASSUME IInv, StoreInv, NEW value \in Channel, CountTimed(value)
  PROVE  StoreInv'
<1>1. /\ perso = "mca-timed" /\ perso' = perso /\ triggered /\ converted' = Append(converted, value)
      /\ UNCHANGED <<pstate, orig_skip_samples, orig_timer1_count, table_cur, size>>
  BY DEF CountTimed, Conversion, params
<1>2. /\ pstate = "MEASURING" /\ KeepsOK /\ TimerOK
  <2>1. interrupts
    BY DEF CountTimed, Conversion
  <2>. QED
    BY <1>1, <2>1 DEF IInv, ModeOK, TypeOK, StoreInv
<1>3. /\ converted \in Seq(Channel) /\ Len(converted) \in Nat /\ Len(converted') = Len(converted) + 1
      /\ orig_timer1_count \in 0 .. Word - 1 /\ Word \in Nat /\ Word > 1
  BY <1>1, AppendProperties, Constants DEF IInv, TypeOK
<1>4. TimerOK'
  <2>1. CASE gf
    <3>1. gf' = gf
      BY <2>1 DEF CountTimed
    <3>2. Lasts' = Lasts /\ Lasts \in Nat
      BY <1>1, <1>3 DEF Lasts
    <3>3. Len(converted') >= Lasts
      BY <1>1, <1>2, <1>3, <2>1, <3>2 DEF TimerOK
    <3>. QED
      BY <1>1, <2>1, <3>1, <3>2, <3>3 DEF TimerOK
  <2>2. CASE ~gf
    <3>1. timer1_count' = (timer1_count - 1) % Word /\ gf' = (timer1_count' = 0)
      BY <2>2 DEF CountTimed
    <3>2. Len(converted) < Lasts /\ timer1_count = Left
      BY <1>1, <1>2, <2>2 DEF TimerOK
    <3>3. Lasts \in 1 .. Word /\ Lasts' = Lasts
      BY <1>1, <1>3 DEF Lasts
    <3>. DEFINE left == Lasts - Len(converted)
    <3>4. left \in 1 .. Word /\ timer1_count = IF left = Word THEN 0 ELSE left
      BY <1>3, <3>2, <3>3 DEF Left
    <3>. HIDE DEF left
    <3>5. timer1_count' = left - 1
      <4>1. CASE left = Word
        <5>1. timer1_count - 1 = -1
          BY <3>4, <4>1
        <5>2. \A w \in Nat : w > 1 => (-1) % w = w - 1
          OBVIOUS
        <5>. QED
          BY <1>3, <3>1, <4>1, <5>1, <5>2
      <4>2. CASE left # Word
        <5>1. timer1_count - 1 = left - 1 /\ left - 1 \in 0 .. Word - 1
          BY <1>3, <3>4, <4>2
        <5>2. Word * 0 + (left - 1) = left - 1
          BY <1>3, <5>1
        <5>3. (Word * 0 + (left - 1)) % Word = left - 1
          BY <1>3, <5>1, DivisionIsUnique
        <5>. QED
          BY <3>1, <5>1, <5>2, <5>3
      <4>. QED
        BY <4>1, <4>2
    <3>6. Lasts' - Len(converted') = left - 1 /\ Len(converted') = Lasts - (left - 1)
      BY <1>3, <3>3 DEF left
    <3>7. gf' = (left - 1 = 0) /\ left - 1 # Word
      BY <1>3, <3>1, <3>4, <3>5
    <3>8. Left' = left - 1
      BY <3>6, <3>7 DEF Left
    <3>9. (gf' => Len(converted') >= Lasts') /\ (~gf' => Len(converted') < Lasts')
      <4>1. \A total \in Int, rest \in Nat \ {0} :
               /\ rest - 1 = 0 => total - (rest - 1) >= total
               /\ rest - 1 # 0 => total - (rest - 1) < total
        OBVIOUS
      <4>2. Lasts \in Int /\ left \in Nat \ {0}
        BY <1>3, <3>3, <3>4
      <4>3. /\ left - 1 = 0 => Lasts - (left - 1) >= Lasts
            /\ left - 1 # 0 => Lasts - (left - 1) < Lasts
        BY <4>1, <4>2
      <4>4. Len(converted') = Lasts - (left - 1) /\ Lasts' = Lasts /\ gf' = (left - 1 = 0)
        BY <3>3, <3>6, <3>7
      <4>. QED
        BY <4>3, <4>4, Zenon
    <3>. QED
      BY <3>5, <3>8, <3>9 DEF TimerOK
  <2>. QED
    BY <2>1, <2>2
<1>5. CASE Skip
  <2>1. skip_samples # 0 /\ skip_samples' = skip_samples - 1 /\ table' = table
    BY <1>5 DEF Skip
  <2>2. Kept' = Kept /\ skip_samples' = orig_skip_samples - (Len(converted') % (orig_skip_samples + 1))
    BY <1>1, <1>2, <2>1, ConversionKeeps
  <2>. QED
    BY <1>1, <1>2, <1>4, <2>1, <2>2 DEF StoreInv, KeepsOK, SamplesOK, CountsOK
<1>6. CASE ~Skip
  <2>1. skip_samples = 0 /\ skip_samples' = orig_skip_samples /\ table' = Increment(table, value)
    BY <1>6 DEF CountTimed
  <2>2. /\ Kept' = Append(Kept, value)
        /\ skip_samples' = orig_skip_samples - (Len(converted') % (orig_skip_samples + 1))
    BY <1>1, <1>2, <2>1, ConversionKeeps
  <2>3. CountsOK'
    BY <1>1, <2>1, <2>2, CountsOneMore
  <2>. QED
    BY <1>1, <1>2, <1>4, <2>2, <2>3 DEF StoreInv, KeepsOK, SamplesOK
<1>. QED
  BY <1>5, <1>6

LEMMA CountPulseStores ==
  ASSUME IInv, StoreInv, NEW value \in Channel, CountPulse(value)
  PROVE  StoreInv'
<1>1. /\ perso = "mca" /\ perso' = perso /\ triggered /\ converted' = Append(converted, value)
      /\ UNCHANGED <<pstate, orig_skip_samples, skip_samples>> /\ table' = Increment(table, value)
  BY DEF CountPulse, Conversion, params
<1>2. pstate # "READY" /\ KeepsOK
  BY <1>1 DEF IInv, ModeOK, StoreInv
<1>3. skip_samples = 0
  <2>1. orig_skip_samples = 0 /\ skip_samples \in Nat /\ Len(converted) \in Nat
    BY <1>1, <1>2, KeptIs DEF KeepsOK, IInv, TypeOK
  <2>2. Len(converted) % 1 \in Nat
    BY <2>1
  <2>3. skip_samples = 0 - (Len(converted) % 1)
    BY <1>2, <2>1 DEF KeepsOK
  <2>. QED
    BY <2>1, <2>2, <2>3
<1>4. /\ Kept' = Append(Kept, value) /\ orig_skip_samples = 0
      /\ orig_skip_samples = orig_skip_samples - (Len(converted') % (orig_skip_samples + 1))
  BY <1>1, <1>2, <1>3, ConversionKeeps DEF KeepsOK
<1>5. CountsOK'
  BY <1>1, <1>4, CountsOneMore
<1>. QED
  BY <1>1, <1>2, <1>3, <1>4, <1>5 DEF StoreInv, KeepsOK, SamplesOK, TimerOK

(* Nothing else writes to the table.                                       *)
LEMMA OthersStore ==
  ASSUME IInv, StoreInv,
         \/ Second
         \/ EndTable
         \/ /\ UNCHANGED <<perso, isr_vars, params>>
            /\ pstate' = pstate \/ pstate' = "DONE"
  PROVE  StoreInv'
<1>1. CASE Second
  <2>1. Kept' = Kept /\ perso = "mca"
    BY <1>1 DEF Second, params, Kept
  <2>. QED
    BY <1>1, <2>1 DEF Second, params, table_vars, StoreInv, KeepsOK, TimerOK, SamplesOK, CountsOK
<1>2. CASE EndTable
  <2>1. Kept' = Kept /\ (gf' => gf) /\ (~gf' => ~gf \/ pstate = "DONE")
    BY <1>2 DEF EndTable, params, Kept, IInv, ModeOK
  <2>2. Lasts' = Lasts /\ Left' = Left
    BY <1>2 DEF EndTable, params, Lasts, Left
  <2>. QED
    BY <1>2, <2>1, <2>2
       DEF EndTable, params, table_vars, StoreInv, KeepsOK, TimerOK, SamplesOK, CountsOK, table_end
<1>3. CASE UNCHANGED <<perso, isr_vars, params>> /\ (pstate' = pstate \/ pstate' = "DONE")
  <2>1. Kept' = Kept /\ Lasts' = Lasts /\ Left' = Left
    BY <1>3 DEF isr_vars, params, Kept, Lasts, Left
  <2>. QED
    BY <1>3, <2>1
       DEF isr_vars, params, table_vars, StoreInv, KeepsOK, TimerOK, SamplesOK, CountsOK, table_end
<1>. QED
  BY <1>1, <1>2, <1>3

LEMMA StoreStep == IInv /\ StoreInv /\ [Next]_vars => StoreInv'
<1>. SUFFICES ASSUME IInv, StoreInv, [Next]_vars PROVE StoreInv'
  OBVIOUS
<1>1. CASE NotFinished \/ NoCommand \/ Finished \/ Intermediate \/ Abort \/ Resend
           \/ Announce \/ ReadSize \/ SendByte \/ UNCHANGED vars
  <2>1. UNCHANGED <<perso, isr_vars, params>> /\ (pstate' = pstate \/ pstate' = "DONE")
    BY <1>1 DEF NotFinished, NoCommand, Finished, Intermediate, Abort, Resend, Announce, ReadSize,
       SendByte, BeginTable, vars
  <2>. QED
    BY <2>1, OthersStore
<1>2. CASE Second \/ EndTable
  BY <1>2, OthersStore
<1>3. CASE FinishedTwice \/ ResetCommand \/ \E timer \in ParameterValues : StartRefused(timer)
  BY <1>3, StoreBegins DEF FinishedTwice, ResetCommand, StartRefused
<1>4. CASE \E timer \in ParameterValues : \E skip \in ParameterValues : Start(timer, skip)
  BY <1>4, StartStores
<1>5. CASE TimedConversion \/ \E value \in Channel : CountPulse(value)
  BY <1>5, SampleStores, CountTimedStores, CountPulseStores DEF TimedConversion
<1>. QED
  BY <1>1, <1>2, <1>3, <1>4, <1>5 DEF Next, MainProgram

-----------------------------------------------------------------------------
(***************************************************************************)
(* The inductive invariant of what was sent of a table.  Of a measurement  *)
(* that is over nothing changes any more; of one that goes on, every byte  *)
(* of a count is one of what the count was when the byte was sent, no less *)
(* than when the table was begun, no more than it is now.                  *)
(***************************************************************************)
InFrame == main \in {"announce", "size", "send"}

(* The element a byte that was sent belongs to, and the byte of a number.  *)
Place(k) == (k - 1) \div ElementBytes

Digit(number, k) == (number \div (Base ^ ((k - 1) % ElementBytes))) % Base

HeaderOK ==
  /\ InFrame /\ frame.reason # "intermediate" => pstate = "DONE"
  /\ InFrame /\ frame.reason = "done" => gf
  /\ main \in {"size", "send"} /\ frame.reason # "intermediate" => frame.announced = size
  /\ main = "send" /\ frame.reason # "intermediate" => frame.to_send = size
  /\ main # "send" => frame.payload = <<>>
  /\ Len(frame.payload) <= frame.to_send
  /\ frame.seen <= Len(Kept)

SamplesSent ==
  perso = "sampling" =>
    \A k \in 1 .. Len(frame.payload) : frame.payload[k] = Digit(Kept[Place(k) + 1], k)

(* What the count of a byte was when the byte was sent.                    *)
Observed(counts) ==
  /\ \A k \in 1 .. Len(frame.payload) :
       /\ frame.payload[k] = Digit(counts[k] % (Base ^ ElementBytes), k)
       /\ Counted(Before(frame.seen), Place(k)) <= counts[k]
       /\ counts[k] <= Counted(Kept, Place(k))
       /\ frame.reason # "intermediate" => counts[k] = Counted(Kept, Place(k))
  /\ \A k \in 1 .. Len(frame.payload) - 1 :
       Place(k + 1) = Place(k) => counts[k] <= counts[k + 1]

CountsSent ==
  perso # "sampling" => \E counts \in [1 .. Len(frame.payload) -> Nat] : Observed(counts)

SentInv == HeaderOK /\ SamplesSent /\ CountsSent


(* What is sent belongs to an element that is there.                       *)
LEMMA PlaceIsThere ==
  ASSUME IInv, StoreInv, NEW k \in Nat \ {0}, k <= size
  PROVE  /\ Place(k) \in Nat
         /\ perso = "sampling" => Place(k) + 1 \in 1 .. Len(Kept)
         /\ perso # "sampling" => Place(k) \in Channel
<1>1. k - 1 \in Nat /\ size \in Nat /\ ElementBytes \in Nat \ {0} /\ Channels \in Nat \ {0}
  BY Constants DEF IInv, TypeOK
<1>2. k - 1 < size
  BY <1>1
<1>3. Place(k) \in Nat
  BY <1>1, DivisionWithRemainder DEF Place
<1>4. CASE perso = "sampling"
  <2>1. size = ElementBytes * Len(Kept) /\ Len(Kept) \in Nat
    BY <1>4, KeptIs DEF StoreInv, SamplesOK
  <2>2. Place(k) < Len(Kept)
    BY <1>1, <1>2, <2>1, QuotientOfLess DEF Place
  <2>. QED
    BY <1>3, <1>4, <2>1, <2>2
<1>5. CASE perso # "sampling"
  <2>1. size = ElementBytes * Channels
    BY <1>5 DEF IInv, TableOK
  <2>2. Place(k) < Channels
    BY <1>1, <1>2, <2>1, QuotientOfLess DEF Place
  <2>. QED
    BY <1>1, <1>3, <1>5, <2>2 DEF Channel
<1>. QED
  BY <1>4, <1>5, <1>3

(* Of a frame that is not under way nothing was sent.                      *)
LEMMA NothingSent ==
  /\ frame.payload = <<>> => SamplesSent /\ CountsSent
  /\ frame'.payload = <<>> => SamplesSent' /\ CountsSent'
<1>1. PICK nothing : nothing = [k \in 1 .. 0 |-> 0]
  OBVIOUS
<1>2. Len(<<>>) = 0 /\ 1 .. 0 = {} /\ 1 .. 0 - 1 = {} /\ nothing \in [1 .. 0 -> Nat]
  BY <1>1
<1>3. ASSUME frame.payload = <<>> PROVE SamplesSent /\ CountsSent
  <2>1. SamplesSent
    BY <1>2, <1>3 DEF SamplesSent
  <2>2. Observed(nothing) /\ nothing \in [1 .. Len(frame.payload) -> Nat]
    BY <1>2, <1>3 DEF Observed
  <2>. QED
    BY <2>1, <2>2 DEF CountsSent
<1>4. ASSUME frame'.payload = <<>> PROVE SamplesSent' /\ CountsSent'
  <2>1. SamplesSent'
    BY <1>2, <1>4 DEF SamplesSent
  <2>2. Observed(nothing)' /\ nothing \in [1 .. Len(frame.payload') -> Nat]
    BY <1>2, <1>4 DEF Observed
  <2>. QED
    BY <2>1, <2>2 DEF CountsSent
<1>. QED
  BY <1>3, <1>4

(* While a measurement goes on, what was sent stays within the bounds.     *)
LEMMA GrowthKeepsSent ==
  ASSUME IInv, StoreInv, SentInv, interrupts, NEW value \in Channel,
         Kept' = Kept \/ Kept' = Append(Kept, value),
         UNCHANGED <<perso, pstate, main, frame>>
  PROVE  SentInv'
<1>1. /\ Kept \in Seq(Channel) /\ frame \in Frame /\ Len(frame.payload) \in Nat /\ Len(Kept) \in Nat
      /\ Len(frame.payload) <= size /\ frame.seen \in 0 .. Len(Kept) /\ size \in Nat
  <2>1. frame \in Frame /\ size \in Nat
    BY DEF IInv, TypeOK
  <2>2. frame.payload \in Seq(0 .. Base - 1) /\ frame.to_send \in Nat /\ frame.seen \in Nat
    BY <2>1 DEF Frame
  <2>3. frame.to_send <= size /\ Len(frame.payload) <= frame.to_send /\ frame.seen <= Len(Kept)
    BY DEF IInv, TableOK, SentInv, HeaderOK
  <2>4. Len(frame.payload) \in Nat /\ Kept \in Seq(Channel) /\ Len(Kept) \in Nat
    BY <2>2, KeptIs
  <2>. QED
    BY <2>1, <2>2, <2>3, <2>4
<1>2. pstate # "DONE"
  BY DEF IInv, ModeOK
<1>3. InFrame => frame.reason = "intermediate"
  BY <1>2 DEF SentInv, HeaderOK
<1>4. /\ Kept' \in Seq(Channel) /\ Len(Kept') \in Nat /\ Len(Kept) <= Len(Kept')
      /\ \A k \in 1 .. Len(Kept) : Kept'[k] = Kept[k]
      /\ SubSeq(Kept', 1, frame.seen) = SubSeq(Kept, 1, frame.seen)
  <2>1. CASE Kept' = Kept
    BY <1>1, <2>1
  <2>2. CASE Kept' = Append(Kept, value)
    <3>1. /\ Append(Kept, value) \in Seq(Channel) /\ Len(Append(Kept, value)) = Len(Kept) + 1
          /\ \A k \in 1 .. Len(Kept) : Append(Kept, value)[k] = Kept[k]
      BY <1>1, AppendProperties
    <3>2. SubSeq(Append(Kept, value), 1, frame.seen) = SubSeq(Kept, 1, frame.seen)
      <4>. DEFINE longer == Append(Kept, value)
      <4>1. /\ SubSeq(longer, 1, frame.seen) = [k \in 1 .. frame.seen |-> longer[k]]
            /\ SubSeq(Kept, 1, frame.seen) = [k \in 1 .. frame.seen |-> Kept[k]]
        BY <1>1, <3>1
      <4>2. \A k \in 1 .. frame.seen : longer[k] = Kept[k]
        BY <1>1, <3>1
      <4>. HIDE DEF longer
      <4>3. [k \in 1 .. frame.seen |-> longer[k]] = [k \in 1 .. frame.seen |-> Kept[k]]
        BY <4>2
      <4>. QED
        BY <4>1, <4>3 DEF longer
    <3>. QED
      BY <1>1, <2>2, <3>1, <3>2
  <2>. QED
    BY <2>1, <2>2
<1>5. HeaderOK'
  BY <1>1, <1>2, <1>3, <1>4 DEF SentInv, HeaderOK, InFrame
<1>6. SamplesSent'
  <2>. SUFFICES ASSUME perso = "sampling", NEW k \in 1 .. Len(frame.payload)
                PROVE  frame.payload[k] = Digit(Kept'[Place(k) + 1], k)
    BY DEF SamplesSent
  <2>1. Place(k) + 1 \in 1 .. Len(Kept)
    BY <1>1, PlaceIsThere
  <2>. QED
    BY <1>4, <2>1 DEF SentInv, SamplesSent
<1>7. CountsSent'
  <2>. SUFFICES ASSUME perso # "sampling", frame.payload # <<>>
                PROVE  \E counts \in [1 .. Len(frame.payload) -> Nat] : Observed(counts)'
    BY NothingSent DEF CountsSent
  <2>0. frame.reason = "intermediate"
    BY <1>3 DEF SentInv, HeaderOK, InFrame
  <2>1. PICK counts \in [1 .. Len(frame.payload) -> Nat] : Observed(counts)
    BY DEF SentInv, CountsSent
  <2>2. Observed(counts)'
    <3>1. Before(frame.seen)' = Before(frame.seen)
      BY <1>4 DEF Before
    <3>2. ASSUME NEW k \in 1 .. Len(frame.payload)
          PROVE  /\ frame.payload[k] = Digit(counts[k] % (Base ^ ElementBytes), k)
                 /\ Counted(Before(frame.seen), Place(k)) <= counts[k]
                 /\ counts[k] <= Counted(Kept', Place(k))
      <4>1. /\ frame.payload[k] = Digit(counts[k] % (Base ^ ElementBytes), k)
            /\ Counted(Before(frame.seen), Place(k)) <= counts[k]
            /\ counts[k] <= Counted(Kept, Place(k)) /\ counts[k] \in Nat
        BY <2>1 DEF Observed
      <4>2. Counted(Kept, Place(k)) \in Nat /\ Counted(Kept', Place(k)) \in Nat
            /\ Counted(Kept, Place(k)) <= Counted(Kept', Place(k))
        <5>1. Counted(Kept, Place(k)) \in Nat
          BY <1>1, Counting
        <5>2. CASE Kept' = Kept
          BY <5>1, <5>2
        <5>3. CASE Kept' = Append(Kept, value)
          <6>1. Counted(Append(Kept, value), Place(k))
                  = Counted(Kept, Place(k)) + (IF value = Place(k) THEN 1 ELSE 0)
            BY <1>1, Counting
          <6>. QED
            BY <5>1, <5>3, <6>1
        <5>. QED
          BY <5>2, <5>3
      <4>. QED
        BY <4>1, <4>2
    <3>3. \A k \in 1 .. Len(frame.payload) - 1 : Place(k + 1) = Place(k) => counts[k] <= counts[k + 1]
      BY <2>1 DEF Observed
    <3>. QED
      BY <2>0, <3>1, <3>2, <3>3 DEF Observed
  <2>. QED
    BY <2>2
<1>. QED
  BY <1>5, <1>6, <1>7 DEF SentInv

(* No frame is under way when the device starts.                           *)
LEMMA SentBegins ==
  /\ Init => SentInv
  /\ IInv /\ Reset => SentInv'
<1>1. /\ NoFrame.payload = <<>> /\ NoFrame.seen = 0 /\ NoFrame.to_send = 0 /\ Len(<<>>) = 0
      /\ "poll" \notin {"announce", "size", "send"}
  BY DEF NoFrame
<1>2. /\ KeptOf(<<>>, 0 + 1) = <<>>
  BY NothingKept
<1>3. ASSUME Init PROVE SentInv
  <2>1. Kept = <<>> /\ frame = NoFrame /\ main = "poll"
    BY <1>2, <1>3 DEF Init, Kept, KeptOf
  <2>2. HeaderOK
    BY <1>1, <2>1 DEF HeaderOK, InFrame
  <2>. QED
    BY <1>1, <2>1, <2>2, NothingSent DEF SentInv
<1>4. ASSUME Reset PROVE SentInv'
  <2>1. Kept' = <<>> /\ frame' = NoFrame /\ main' = "poll"
    BY <1>2, <1>4 DEF Reset, Kept, KeptOf
  <2>2. HeaderOK'
    BY <1>1, <2>1 DEF HeaderOK, InFrame
  <2>. QED
    BY <1>1, <2>1, <2>2, NothingSent DEF SentInv
<1>. QED
  BY <1>3, <1>4

(* A frame begins with nothing sent.                                       *)
LEMMA BeginSends ==
  ASSUME IInv, NEW why \in {"intermediate", "done", "aborted", "resend"}, BeginTable(why),
         why # "intermediate" => pstate' = "DONE",
         why = "done" => gf
  PROVE  SentInv'
<1>1. /\ main' = "announce" /\ Kept' = Kept /\ gf' = gf
      /\ frame' = [NoFrame EXCEPT !.reason = why, !.seen = Len(converted) \div (orig_skip_samples + 1)]
  BY DEF BeginTable, isr_vars, params, Kept
<1>2. Len(Kept) = Len(converted) \div (orig_skip_samples + 1) /\ Len(Kept) \in Nat
  <2>1. 0 \in Channel
    BY Constants DEF Channel
  <2>. QED
    BY <2>1, KeptIs, KeptGrows
<1>3. frame'.payload = <<>> /\ frame'.seen = Len(Kept) /\ frame'.to_send = 0 /\ frame'.reason = why
  BY <1>1, <1>2 DEF NoFrame
<1>4. Len(<<>>) = 0
  OBVIOUS
<1>5. HeaderOK'
  BY <1>1, <1>2, <1>3, <1>4 DEF HeaderOK, InFrame
<1>. QED
  BY <1>3, <1>5, NothingSent DEF SentInv

(* A frame's headers, and its end.                                         *)
LEMMA HeadersSend ==
  ASSUME IInv, SentInv, Announce \/ ReadSize \/ EndTable
  PROVE  SentInv'
<1>1. Kept' = Kept /\ pstate' = pstate /\ size' = size /\ frame \in Frame
  BY DEF Announce, ReadSize, EndTable, isr_vars, table_vars, params, Kept, IInv, TypeOK
<1>2. Len(<<>>) = 0 /\ size \in Nat
  BY DEF IInv, TypeOK
<1>3. CASE Announce
  <2>1. /\ main = "announce" /\ main' = "size" /\ gf' = gf
        /\ frame' = [frame EXCEPT !.announced = size]
    BY <1>3 DEF Announce, isr_vars
  <2>2. /\ frame'.payload = frame.payload /\ frame'.reason = frame.reason /\ frame'.seen = frame.seen
        /\ frame'.to_send = frame.to_send /\ frame'.announced = size
    BY <1>1, <2>1 DEF Frame
  <2>3. frame.payload = <<>>
    BY <2>1 DEF SentInv, HeaderOK
  <2>4. HeaderOK'
    BY <1>1, <1>2, <2>1, <2>2, <2>3 DEF SentInv, HeaderOK, InFrame
  <2>. QED
    BY <2>2, <2>3, <2>4, NothingSent DEF SentInv
<1>4. CASE ReadSize
  <2>1. /\ main = "size" /\ main' = "send" /\ gf' = gf
        /\ frame' = [frame EXCEPT !.to_send = size]
    BY <1>4 DEF ReadSize, isr_vars
  <2>2. /\ frame'.payload = frame.payload /\ frame'.reason = frame.reason /\ frame'.seen = frame.seen
        /\ frame'.to_send = size /\ frame'.announced = frame.announced
    BY <1>1, <2>1 DEF Frame
  <2>3. frame.payload = <<>>
    BY <2>1 DEF SentInv, HeaderOK
  <2>4. HeaderOK'
    BY <1>1, <1>2, <2>1, <2>2, <2>3 DEF SentInv, HeaderOK, InFrame
  <2>. QED
    BY <2>2, <2>3, <2>4, NothingSent DEF SentInv
<1>5. CASE EndTable
  <2>1. main' = "poll" /\ frame' = NoFrame
    BY <1>5 DEF EndTable
  <2>2. frame'.payload = <<>> /\ frame'.seen = 0 /\ frame'.to_send = 0
    BY <2>1 DEF NoFrame
  <2>3. Len(Kept) \in Nat
    BY KeptIs
  <2>4. HeaderOK'
    BY <1>1, <1>2, <2>1, <2>2, <2>3 DEF HeaderOK, InFrame
  <2>. QED
    BY <2>2, <2>4, NothingSent DEF SentInv
<1>. QED
  BY <1>3, <1>4, <1>5

(* What is sent next is a byte of the element as it is now.                *)
LEMMA ByteSends ==
  ASSUME IInv, StoreInv, SentInv, SendByte
  PROVE  SentInv'
<1>. DEFINE n == Len(frame.payload)
<1>1. /\ Kept' = Kept /\ perso' = perso /\ pstate' = pstate /\ gf' = gf /\ size' = size
      /\ main = "send" /\ main' = "send" /\ n < frame.to_send
      /\ frame' = [frame EXCEPT !.payload = Append(frame.payload, ByteAt(n))]
  BY DEF SendByte, isr_vars, table_vars, params, Kept
<1>2. /\ frame \in Frame /\ frame.payload \in Seq(0 .. Base - 1) /\ n \in Nat /\ size \in Nat
      /\ frame.to_send \in Nat /\ frame.to_send <= size /\ frame.seen \in Nat
  <2>1. frame \in Frame /\ size \in Nat /\ frame.to_send <= size
    BY DEF IInv, TypeOK, TableOK
  <2>2. frame.payload \in Seq(0 .. Base - 1) /\ frame.to_send \in Nat /\ frame.seen \in Nat
    BY <2>1 DEF Frame
  <2>. QED
    BY <2>1, <2>2
<1>3. PICK last : last = n + 1
  OBVIOUS
<1>4. last \in Nat \ {0} /\ last <= size /\ last <= frame.to_send /\ last - 1 = n
  BY <1>1, <1>2, <1>3
<1>5. ByteAt(n) \in 0 .. Base - 1
  BY <1>1, <1>2, SendsBytes
<1>6. PICK byte : byte = ByteAt(n)
  OBVIOUS
<1>7. /\ frame'.payload \in Seq(0 .. Base - 1) /\ Len(frame'.payload) = last /\ frame'.payload[last] = byte
      /\ \A k \in 1 .. n : frame'.payload[k] = frame.payload[k]
  <2>1. frame'.payload = Append(frame.payload, byte)
    BY <1>1, <1>2, <1>6 DEF Frame
  <2>. QED
    BY <1>2, <1>3, <1>5, <1>6, <2>1, AppendProperties
<1>8. /\ frame'.reason = frame.reason /\ frame'.seen = frame.seen /\ frame'.to_send = frame.to_send
      /\ frame'.announced = frame.announced
  BY <1>1, <1>2 DEF Frame
<1>9. byte = Digit(table[Place(last)], last)
  BY <1>4, <1>6 DEF ByteAt, Digit, Place
<1>10. HeaderOK'
  BY <1>1, <1>4, <1>7, <1>8 DEF SentInv, HeaderOK, InFrame
<1>11. ASSUME NEW k \in 1 .. last, k # last PROVE k \in 1 .. n
  BY <1>2, <1>3, <1>11
<1>. HIDE DEF n
<1>12. SamplesSent'
  <2>. SUFFICES ASSUME perso = "sampling", NEW k \in 1 .. last
                PROVE  frame'.payload[k] = Digit(Kept[Place(k) + 1], k)
    BY <1>1, <1>7 DEF SamplesSent
  <2>1. CASE k = last
    <3>1. Place(last) + 1 \in 1 .. Len(Kept) /\ Place(last) \in Nat
      BY <1>4, PlaceIsThere
    <3>2. Len(Kept) \in Nat
      BY KeptIs
    <3>3. Place(last) \in 0 .. Len(Kept) - 1
      BY <3>1, <3>2
    <3>4. table[Place(last)] = Kept[Place(last) + 1]
      BY <3>3 DEF StoreInv, SamplesOK
    <3>. QED
      BY <1>7, <1>9, <2>1, <3>4
  <2>2. CASE k # last
    BY <1>7, <1>11, <2>2 DEF n, SentInv, SamplesSent
  <2>. QED
    BY <2>1, <2>2
<1>13. CountsSent'
  <2>. SUFFICES ASSUME perso # "sampling"
                PROVE  \E counts \in [1 .. last -> Nat] : Observed(counts)'
    BY <1>1, <1>7 DEF CountsSent
  <2>1. PICK old \in [1 .. n -> Nat] : Observed(old)
    BY DEF SentInv, CountsSent, n
  <2>2. PICK now : now = Counted(Kept, Place(last))
    OBVIOUS
  <2>3. PICK counts : counts = [k \in 1 .. last |-> IF k = last THEN now ELSE old[k]]
    OBVIOUS
  <2>4. /\ Kept \in Seq(Channel) /\ Place(last) \in Channel /\ now \in Nat
        /\ frame.seen \in 0 .. Len(Kept)
    <3>1. Kept \in Seq(Channel) /\ frame.seen <= Len(Kept)
      BY KeptIs DEF SentInv, HeaderOK
    <3>2. Len(Kept) \in Nat
      BY <3>1
    <3>. QED
      BY <1>2, <1>4, <2>2, <3>1, <3>2, PlaceIsThere, Counting
  <2>5. counts \in [1 .. last -> Nat]
    BY <1>11, <2>1, <2>3, <2>4
  <2>6. Counted(Before(frame.seen), Place(last)) <= now
    BY <2>2, <2>4, Counting DEF Before
  <2>7. byte = Digit(now % (Base ^ ElementBytes), last)
    BY <1>9, <2>2, <2>4 DEF StoreInv, CountsOK
  <2>8. counts[last] = now /\ \A k \in 1 .. n : counts[k] = old[k]
    BY <1>2, <1>3, <1>4, <2>3
  <2>9. \A k \in 1 .. n :
          /\ frame.payload[k] = Digit(old[k] % (Base ^ ElementBytes), k)
          /\ Counted(Before(frame.seen), Place(k)) <= old[k]
          /\ old[k] <= Counted(Kept, Place(k))
          /\ frame.reason # "intermediate" => old[k] = Counted(Kept, Place(k))
    BY <2>1 DEF Observed, n
  <2>10. Before(frame.seen)' = Before(frame.seen)
    BY <1>1, <1>8 DEF Before
  <2>11. ASSUME NEW k \in 1 .. last
         PROVE  /\ frame'.payload[k] = Digit(counts[k] % (Base ^ ElementBytes), k)
                /\ Counted(Before(frame.seen), Place(k)) <= counts[k]
                /\ counts[k] <= Counted(Kept, Place(k))
                /\ frame.reason # "intermediate" => counts[k] = Counted(Kept, Place(k))
    <3>1. CASE k = last
      <4>1. now <= Counted(Kept, Place(last))
        BY <2>2, <2>4
      <4>. QED
        BY <1>7, <2>2, <2>6, <2>7, <2>8, <3>1, <4>1
    <3>2. CASE k # last
      BY <1>7, <1>11, <2>8, <2>9, <3>2
    <3>. QED
      BY <3>1, <3>2
  <2>12. ASSUME NEW k \in 1 .. last - 1, Place(k + 1) = Place(k)
         PROVE  counts[k] <= counts[k + 1]
    <3>1. k \in 1 .. n
      BY <1>4
    <3>2. CASE k + 1 = last
      BY <2>2, <2>8, <2>9, <2>12, <3>1, <3>2
    <3>3. CASE k + 1 # last
      <4>1. k \in 1 .. n - 1 /\ k + 1 \in 1 .. n
        BY <1>2, <1>4, <3>3
      <4>2. old[k] <= old[k + 1]
        BY <2>1, <2>12, <4>1 DEF Observed, n
      <4>. QED
        BY <2>8, <3>1, <4>1, <4>2
    <3>. QED
      BY <3>2, <3>3
  <2>13. Observed(counts)'
    BY <1>1, <1>7, <1>8, <2>10, <2>11, <2>12 DEF Observed
  <2>. QED
    BY <2>5, <2>13
<1>. QED
  BY <1>10, <1>12, <1>13 DEF SentInv

LEMMA SentStep == IInv /\ StoreInv /\ SentInv /\ [Next]_vars => SentInv'
<1>. SUFFICES ASSUME IInv, StoreInv, SentInv, [Next]_vars PROVE SentInv'
  OBVIOUS
<1>1. CASE NotFinished \/ NoCommand
  <2>1. /\ main \in {"poll", "uart"} /\ main' \in {"poll", "uart"} /\ Kept' = Kept /\ frame' = frame
    BY <1>1 DEF NotFinished, NoCommand, isr_vars, params, Kept
  <2>2. frame.payload = <<>>
    BY <2>1 DEF SentInv, HeaderOK
  <2>3. HeaderOK'
    BY <2>1, <2>2 DEF SentInv, HeaderOK, InFrame
  <2>. QED
    BY <2>1, <2>2, <2>3, NothingSent DEF SentInv
<1>2. CASE UNCHANGED vars
  <2>1. Kept' = Kept
    BY <1>2 DEF vars, isr_vars, params, Kept
  <2>2. Before(frame.seen)' = Before(frame.seen)
    BY <1>2, <2>1 DEF Before, vars
  <2>3. HeaderOK' /\ SamplesSent'
    BY <1>2, <2>1
       DEF vars, isr_vars, table_vars, SentInv, HeaderOK, InFrame, SamplesSent
  <2>4. CountsSent'
    BY <1>2, <2>1, <2>2 DEF vars, SentInv, CountsSent, Observed
  <2>. QED
    BY <2>3, <2>4 DEF SentInv
<1>3. CASE \E timer \in ParameterValues : \E skip \in ParameterValues : Start(timer, skip)
  <2>1. PICK timer \in ParameterValues, skip \in ParameterValues : Start(timer, skip)
    BY <1>3
  <2>2. converted = <<>> /\ orig_skip_samples + 1 \in Nat \ {0} /\ skip + 1 \in Nat \ {0}
    BY <2>1, AdcAssumption, KeptIs DEF Start, StoreInv, KeepsOK, ParameterValues
  <2>3. Kept = <<>> /\ Kept' = <<>>
    BY <2>1, <2>2, NothingKept DEF Start, Kept, KeptOf
  <2>4. main = "uart" /\ main' = "poll" /\ frame' = frame
    BY <2>1 DEF Start
  <2>5. frame.payload = <<>>
    BY <2>4 DEF SentInv, HeaderOK
  <2>6. HeaderOK'
    BY <2>3, <2>4, <2>5 DEF SentInv, HeaderOK, InFrame
  <2>. QED
    BY <2>4, <2>5, <2>6, NothingSent DEF SentInv
<1>4. CASE TimedConversion \/ \E value \in Channel : CountPulse(value)
  <2>1. PICK value \in Channel : Sample(value) \/ CountTimed(value) \/ CountPulse(value)
    BY <1>4 DEF TimedConversion
  <2>2. /\ interrupts /\ converted' = Append(converted, value)
        /\ UNCHANGED <<perso, pstate, main, frame, orig_skip_samples>>
    BY <2>1 DEF Sample, CountTimed, CountPulse, Conversion, params
  <2>3. Kept' = Kept \/ Kept' = Append(Kept, value)
    BY <2>2, ConversionKeeps DEF StoreInv
  <2>. QED
    BY <2>2, <2>3, GrowthKeepsSent
<1>5. CASE Second
  <2>1. interrupts /\ UNCHANGED <<perso, pstate, main, frame>> /\ Kept' = Kept
    BY <1>5 DEF Second, params, Kept
  <2>2. 0 \in Channel
    BY Constants DEF Channel
  <2>. QED
    BY <2>1, <2>2, GrowthKeepsSent
<1>6. CASE Finished \/ Intermediate \/ Abort \/ Resend
  <2>1. CASE Finished
    BY <2>1, BeginSends DEF Finished
  <2>2. CASE Intermediate
    BY <2>2, BeginSends DEF Intermediate
  <2>3. CASE Abort
    BY <2>3, BeginSends DEF Abort
  <2>4. CASE Resend
    BY <2>4, BeginSends DEF Resend
  <2>. QED
    BY <1>6, <2>1, <2>2, <2>3, <2>4
<1>7. CASE Announce \/ ReadSize \/ SendByte \/ EndTable
  BY <1>7, HeadersSend, ByteSends
<1>8. CASE FinishedTwice \/ ResetCommand \/ \E timer \in ParameterValues : StartRefused(timer)
  BY <1>8, SentBegins DEF FinishedTwice, ResetCommand, StartRefused
<1>. QED
  BY <1>1, <1>2, <1>3, <1>4, <1>5, <1>6, <1>7, <1>8 DEF Next, MainProgram

(* Both are invariant.                                                     *)
LEMMA ExactInvariant == Spec => [](StoreInv /\ SentInv)
<1>1. Init => StoreInv /\ SentInv
  BY StoreBegins, SentBegins
<1>2. IInv /\ StoreInv /\ SentInv /\ [Next]_vars => (StoreInv /\ SentInv)'
  BY StoreStep, SentStep
<1>. QED
  BY <1>1, <1>2, Invariant, PTL DEF Spec

-----------------------------------------------------------------------------
(* Where the bytes of an element are.                                      *)
LEMMA BytesOfElement ==
  ASSUME IInv, NEW p \in SentPlaces
  PROVE  /\ p \in Nat /\ ElementBytes * p \in Nat
         /\ ElementBytes * p + ElementBytes <= Len(frame.payload)
         /\ \A j \in 1 .. ElementBytes :
              /\ ElementBytes * p + j \in 1 .. Len(frame.payload)
              /\ Place(ElementBytes * p + j) = p
              /\ ((ElementBytes * p + j) - 1) % ElementBytes = j - 1
<1>. DEFINE n == Len(frame.payload)  q == n \div ElementBytes  first == ElementBytes * p
<1>1. n \in Nat /\ ElementBytes \in Nat \ {0}
  BY Constants DEF IInv, TypeOK, Frame
<1>2. q \in Nat /\ n % ElementBytes \in Nat /\ n = ElementBytes * q + (n % ElementBytes)
  <2>1. q \in Nat /\ n % ElementBytes \in 0 .. ElementBytes - 1
        /\ n = ElementBytes * q + (n % ElementBytes)
    BY <1>1, DivisionWithRemainder
  <2>. QED
    BY <2>1
<1>3. p \in 0 .. q - 1
  BY DEF SentPlaces, Received!element_count
<1>. HIDE DEF q
<1>4. p \in Nat /\ p < q
  BY <1>2, <1>3
<1>5. first + ElementBytes <= ElementBytes * q
  BY <1>1, <1>2, <1>4, MultiplesAreApart
<1>6. first \in Nat /\ ElementBytes * q \in Nat
  BY <1>1, <1>2, <1>4, SMT
<1>7. first + ElementBytes <= n
  <2>. DEFINE a == ElementBytes * q  r == n % ElementBytes
  <2>1. a \in Nat /\ r \in Nat /\ n = a + r /\ first + ElementBytes <= a
    BY <1>2, <1>5, <1>6
  <2>. HIDE DEF a, r, first, n
  <2>. QED
    BY <1>1, <1>6, <2>1
<1>8. ASSUME NEW j \in 1 .. ElementBytes
      PROVE  /\ first + j \in 1 .. n /\ Place(first + j) = p
             /\ ((first + j) - 1) % ElementBytes = j - 1
  <2>1. j - 1 \in 0 .. ElementBytes - 1
    BY <1>1
  <2>2. /\ (ElementBytes * p + (j - 1)) \div ElementBytes = p
        /\ (ElementBytes * p + (j - 1)) % ElementBytes = j - 1
    BY <1>1, <1>4, <2>1, DivisionIsUnique
  <2>3. (first + j) - 1 = ElementBytes * p + (j - 1) /\ first + j \in 1 .. n
    <3>. HIDE DEF n
    <3>1. \A x \in Nat : (x + j) - 1 = x + (j - 1) /\ (x + ElementBytes <= n => x + j \in 1 .. n)
      BY <1>1
    <3>. QED
      BY <1>6, <1>7, <3>1
  <2>. QED
    BY <2>2, <2>3 DEF Place
<1>. QED
  BY <1>4, <1>6, <1>7, <1>8

(* An element of a payload, from what its bytes are digits of.             *)
LEMMA ElementFromDigits ==
  ASSUME IInv, NEW p \in SentPlaces, NEW seen \in [1 .. ElementBytes -> Nat],
         \A j \in 1 .. ElementBytes :
           frame.payload[ElementBytes * p + j] = Digit(seen[j], ElementBytes * p + j),
         \A j \in 1 .. ElementBytes - 1 : seen[j] <= seen[j + 1],
         seen[ElementBytes] < Base ^ ElementBytes
  PROVE  /\ Received!element(frame.payload, p) \in Nat
         /\ seen[1] <= Received!element(frame.payload, p)
         /\ Received!element(frame.payload, p) < seen[ElementBytes] + (Base ^ (ElementBytes - 1))
         /\ (\A j \in 1 .. ElementBytes : seen[j] = seen[1]) =>
              Received!element(frame.payload, p) = seen[1]
<1>. DEFINE first == ElementBytes * p + 1  last == ElementBytes * (p + 1)
            bytes == SubSeq(frame.payload, first, last)
<1>1. /\ ElementBytes \in Nat \ {0} /\ p \in Nat /\ ElementBytes * p \in Nat
      /\ frame.payload \in Seq(Nat)
      /\ \A j \in 1 .. ElementBytes :
           /\ ElementBytes * p + j \in 1 .. Len(frame.payload)
           /\ ((ElementBytes * p + j) - 1) % ElementBytes = j - 1
  <2>1. frame.payload \in Seq(0 .. Base - 1) /\ 0 .. Base - 1 \subseteq Nat
    BY Constants DEF IInv, TypeOK, Frame
  <2>2. frame.payload \in Seq(Nat)
    BY <2>1, SeqMonotonic
  <2>3. /\ p \in Nat /\ ElementBytes * p \in Nat
        /\ \A j \in 1 .. ElementBytes :
             /\ ElementBytes * p + j \in 1 .. Len(frame.payload)
             /\ ((ElementBytes * p + j) - 1) % ElementBytes = j - 1
    BY BytesOfElement, Zenon
  <2>. QED
    BY <2>2, <2>3, Constants
<1>2. first \in Nat /\ last \in Nat /\ last = ElementBytes * p + ElementBytes
      /\ (last - first) + 1 = ElementBytes /\ first <= last
  <2>1. ElementBytes * (p + 1) = ElementBytes * p + ElementBytes
    BY <1>1, SMT
  <2>2. \A x \in Nat : /\ x + 1 \in Nat /\ x + ElementBytes \in Nat
                      /\ ((x + ElementBytes) - (x + 1)) + 1 = ElementBytes
                      /\ x + 1 <= x + ElementBytes
    BY <1>1
  <2>. QED
    BY <1>1, <2>1, <2>2
<1>3. \A k \in first .. last : frame.payload[k] \in Nat
  <2>. SUFFICES ASSUME NEW k \in first .. last PROVE frame.payload[k] \in Nat
    OBVIOUS
  <2>1. PICK j \in 1 .. ElementBytes : k = ElementBytes * p + j
    <3>1. k - ElementBytes * p \in 1 .. ElementBytes /\ k = ElementBytes * p + (k - ElementBytes * p)
      BY <1>1, <1>2
    <3>. QED
      BY <3>1
  <2>2. k \in 1 .. Len(frame.payload)
    BY <1>1, <2>1
  <2>. QED
    BY <1>1, <2>2, ElementOfSeq
<1>4. /\ bytes \in Seq(Nat) /\ Len(bytes) = ElementBytes
      /\ \A j \in 1 .. ElementBytes : bytes[j] = frame.payload[ElementBytes * p + j]
  <2>. HIDE DEF last
  <2>1. /\ bytes \in Seq(Nat) /\ Len(bytes) = IF first <= last THEN (last - first) + 1 ELSE 0
        /\ \A j \in 1 .. (last - first) + 1 : bytes[j] = frame.payload[(first + j) - 1]
    BY <1>2, <1>3, SubSeqProperties
  <2>2. \A j \in 1 .. ElementBytes : (first + j) - 1 = ElementBytes * p + j
    BY <1>1
  <2>. QED
    BY <1>2, <2>1, <2>2
<1>5. ASSUME NEW j \in 1 .. ElementBytes
      PROVE  bytes[j] = (seen[j] \div Weight[j - 1]) % Base
  <2>1. bytes[j] = (seen[j] \div (Base ^ (j - 1))) % Base
    BY <1>1, <1>4 DEF Digit
  <2>2. j - 1 \in 0 .. ElementBytes
    BY <1>1
  <2>. QED
    BY <2>1, <2>2, Powers
<1>6. /\ Base ^ ElementBytes = Weight[ElementBytes]
      /\ Base ^ (ElementBytes - 1) = Weight[ElementBytes - 1]
  <2>1. ElementBytes \in 0 .. ElementBytes /\ ElementBytes - 1 \in 0 .. ElementBytes
    BY <1>1
  <2>. QED
    BY <2>1, Powers
<1>7. Received!element(frame.payload, p) = Received!Number(bytes)
  BY DEF Received!element
<1>. HIDE DEF bytes
<1>. QED
  BY <1>4, <1>5, <1>6, <1>7, TornNumber

(* A sample is read as it was stored.                                      *)
LEMMA SampleElement ==
  ASSUME IInv, StoreInv, SentInv, perso = "sampling", NEW p \in SentPlaces
  PROVE  Received!element(frame.payload, p) = Kept[p + 1]
<1>1. /\ Base ^ ElementBytes \in Nat \ {0} /\ Channels <= Base ^ ElementBytes
      /\ ElementBytes \in Nat \ {0} /\ Channels \in Nat
  BY Constants, AdcAssumption
<1>. DEFINE width == Base ^ ElementBytes
<1>. HIDE DEF width
<1>2. 1 \in 1 .. ElementBytes
  BY <1>1
<1>3. \A j \in 1 .. ElementBytes :
        ElementBytes * p + j \in 1 .. Len(frame.payload) /\ Place(ElementBytes * p + j) = p
  BY BytesOfElement, Zenon
<1>4. p + 1 \in 1 .. Len(Kept)
  <2>1. Len(frame.payload) <= size /\ Len(frame.payload) \in Nat /\ size \in Nat
    BY DEF IInv, TypeOK, Frame, TableOK, SentInv, HeaderOK
  <2>2. ElementBytes * p + 1 \in 1 .. Len(frame.payload) /\ Place(ElementBytes * p + 1) = p
    BY <1>2, <1>3
  <2>3. ElementBytes * p + 1 \in Nat \ {0} /\ ElementBytes * p + 1 <= size
    BY <2>1, <2>2
  <2>. QED
    BY <2>2, <2>3, PlaceIsThere
<1>5. Kept[p + 1] \in Channel
  BY <1>4, KeptIs, ElementOfSeq
<1>6. Kept[p + 1] \in Nat /\ Kept[p + 1] < width
  BY <1>1, <1>5 DEF Channel, width
<1>. DEFINE seen == [j \in 1 .. ElementBytes |-> Kept[p + 1]]
<1>7. /\ seen \in [1 .. ElementBytes -> Nat] /\ seen[ElementBytes] < width
      /\ \A j \in 1 .. ElementBytes : seen[j] = Kept[p + 1]
  BY <1>1, <1>6
<1>. HIDE DEF seen
<1>8. \A j \in 1 .. ElementBytes :
        frame.payload[ElementBytes * p + j] = Digit(seen[j], ElementBytes * p + j)
  BY <1>3, <1>7 DEF SentInv, SamplesSent
<1>9. \A j \in 1 .. ElementBytes - 1 : seen[j] <= seen[j + 1]
  <2>1. \A j \in 1 .. ElementBytes - 1 : j \in 1 .. ElementBytes /\ j + 1 \in 1 .. ElementBytes
    BY <1>1
  <2>. QED
    BY <1>6, <1>7, <2>1
<1>10. \A j \in 1 .. ElementBytes : seen[j] = seen[1]
  BY <1>2, <1>7
<1>11. seen[ElementBytes] < Base ^ ElementBytes
  BY <1>7 DEF width
<1>. QED
  BY <1>2, <1>7, <1>8, <1>9, <1>10, <1>11, ElementFromDigits

(***************************************************************************)
(* The host reads, from the table of a measurement that is over, every     *)
(* conversion that was kept and nothing else, for every width of an        *)
(* element; of one that ran to its end, all that was asked for.            *)
(***************************************************************************)
THEOREM FinalTablesAreExact == Spec => FinalTableExact
<1>. DEFINE width == Base ^ ElementBytes
            Exact ==
              /\ frame.announced = Len(frame.payload)
              /\ \A p \in SentPlaces :
                   Received!element(frame.payload, p) =
                     IF perso = "sampling" THEN Kept[p + 1]
                                           ELSE Counted(Kept, p) % (Base ^ ElementBytes)
              /\ frame.reason = "done" =>
                   /\ perso = "sampling" =>
                        Len(frame.payload) = ElementBytes * (TableBytes \div ElementBytes)
                   /\ perso = "mca-timed" =>
                        Len(converted) >= (IF orig_timer1_count = 0 THEN Word ELSE orig_timer1_count)
<1>1. ASSUME IInv, StoreInv, SentInv, Next, EndsTable, frame.reason # "intermediate"
      PROVE  Exact
  <2>1. EndTable
    BY <1>1 DEF EndsTable, Next, MainProgram, NotFinished, Finished, FinishedTwice, NoCommand,
       Start, StartRefused, Intermediate, Abort, Resend, ResetCommand, Announce, ReadSize, SendByte,
       BeginTable, Reset, TimedConversion, Sample, CountTimed, CountPulse, Conversion, Second
  <2>2. /\ main = "send" /\ InFrame /\ Len(frame.payload) = size /\ frame.announced = size
        /\ size \in Nat /\ Kept \in Seq(Channel)
    BY <1>1, <2>1, KeptIs DEF EndTable, SentInv, HeaderOK, InFrame, IInv, TypeOK
  <2>3. width \in Nat \ {0} /\ Channels <= width /\ ElementBytes \in Nat \ {0} /\ Channels \in Nat
    BY Constants, AdcAssumption
  <2>4. ASSUME perso = "sampling", NEW p \in SentPlaces
        PROVE  Received!element(frame.payload, p) = Kept[p + 1]
    BY <1>1, <2>4, SampleElement
  <2>5. ASSUME perso # "sampling", NEW p \in SentPlaces
        PROVE  Received!element(frame.payload, p) = Counted(Kept, p) % width
    <3>0. 1 \in 1 .. ElementBytes
      BY <2>3
    <3>1. \A j \in 1 .. ElementBytes :
            ElementBytes * p + j \in 1 .. Len(frame.payload) /\ Place(ElementBytes * p + j) = p
      BY <1>1, BytesOfElement, Zenon
    <3>2. PICK counts \in [1 .. Len(frame.payload) -> Nat] : Observed(counts)
      BY <1>1, <2>5 DEF SentInv, CountsSent
    <3>3. Counted(Kept, p) \in Nat
      BY <2>2, Counting
    <3>4. PICK count : count = Counted(Kept, p) % width
      OBVIOUS
    <3>5. count \in Nat /\ count < width
      <4>1. count \in 0 .. width - 1
        BY <2>3, <3>3, <3>4, DivisionWithRemainder
      <4>. HIDE DEF width
      <4>. QED
        BY <2>3, <4>1
    <3>. DEFINE seen == [j \in 1 .. ElementBytes |-> count]
    <3>6. seen \in [1 .. ElementBytes -> Nat] /\ seen[ElementBytes] < width
          /\ \A j \in 1 .. ElementBytes : seen[j] = count
      BY <2>3, <3>5
    <3>. HIDE DEF seen
    <3>7. \A j \in 1 .. ElementBytes :
            frame.payload[ElementBytes * p + j] = Digit(seen[j], ElementBytes * p + j)
      BY <1>1, <3>1, <3>2, <3>4, <3>6 DEF Observed
    <3>8. \A j \in 1 .. ElementBytes - 1 : seen[j] <= seen[j + 1]
      <4>1. \A j \in 1 .. ElementBytes - 1 : j \in 1 .. ElementBytes /\ j + 1 \in 1 .. ElementBytes
        BY <2>3
      <4>. QED
        BY <3>5, <3>6, <4>1
    <3>9. \A j \in 1 .. ElementBytes : seen[j] = seen[1]
      BY <3>0, <3>6
    <3>. QED
      BY <1>1, <3>0, <3>4, <3>6, <3>7, <3>8, <3>9, ElementFromDigits
  <2>6. ASSUME frame.reason = "done", perso = "sampling"
        PROVE  Len(frame.payload) = ElementBytes * (TableBytes \div ElementBytes)
    <3>1. /\ size <= TableBytes /\ TableBytes - ElementBytes < size
          /\ size = ElementBytes * (size \div ElementBytes)
          /\ TableBytes \in Nat
      <4>1. gf /\ table_cur >= table_end /\ size = table_cur
        BY <1>1, <2>2, <2>6 DEF SentInv, HeaderOK, StoreInv, SamplesOK, IInv, TableOK
      <4>2. size <= TableBytes /\ size = ElementBytes * (size \div ElementBytes)
        BY <1>1, <2>6 DEF IInv, TableOK, Whole
      <4>. QED
        BY <2>2, <4>1, <4>2, Constants DEF table_end
    <3>. DEFINE q == size \div ElementBytes  t == TableBytes \div ElementBytes
    <3>2. q \in Nat /\ t \in Nat /\ size = ElementBytes * q /\ q <= t
      BY <2>2, <2>3, <3>1, DivisionWithRemainder, QuotientIsMonotonic
    <3>3. ElementBytes * t <= TableBytes
      <4>1. TableBytes = ElementBytes * t + (TableBytes % ElementBytes)
            /\ TableBytes % ElementBytes \in 0 .. ElementBytes - 1
        BY <2>3, <3>1, DivisionWithRemainder
      <4>2. ElementBytes * t \in Nat
        BY <2>3, <3>2, SMT
      <4>. DEFINE a == ElementBytes * t  r == TableBytes % ElementBytes
      <4>3. a \in Nat /\ r \in Nat /\ TableBytes = a + r
        BY <2>3, <4>1, <4>2
      <4>. HIDE DEF a, r
      <4>4. a <= TableBytes
        BY <4>3
      <4>. QED
        BY <4>4 DEF a
    <3>. HIDE DEF q, t
    <3>4. ~(q < t)
      <4>1. q < t => ElementBytes * q + ElementBytes <= ElementBytes * t
        BY <2>3, <3>2, MultiplesAreApart
      <4>. DEFINE a == ElementBytes * t  b == ElementBytes * q
      <4>2. a \in Nat /\ b \in Nat
        BY <2>3, <3>2, SMT
      <4>3. (q < t => b + ElementBytes <= a) /\ a <= TableBytes /\ TableBytes - ElementBytes < b
        BY <3>1, <3>2, <3>3, <4>1
      <4>. HIDE DEF a, b
      <4>. QED
        BY <2>3, <3>1, <4>2, <4>3
    <3>5. q = t
      BY <3>2, <3>4
    <3>. QED
      BY <2>2, <3>2, <3>5 DEF t
  <2>7. ASSUME frame.reason = "done", perso = "mca-timed"
        PROVE  Len(converted) >= (IF orig_timer1_count = 0 THEN Word ELSE orig_timer1_count)
    BY <1>1, <2>2, <2>7 DEF SentInv, HeaderOK, StoreInv, TimerOK, Lasts
  <2>. QED
    BY <2>2, <2>4, <2>5, <2>6, <2>7
<1>2. IInv /\ StoreInv /\ SentInv /\ [Next]_vars =>
        [EndsTable /\ frame.reason # "intermediate" => Exact]_vars
  BY <1>1
<1>. QED
  BY <1>2, Invariant, ExactInvariant, PTL DEF Spec, FinalTableExact

(***************************************************************************)
(* What the host reads of a histogram that is still counted, element by    *)
(* element and byte by byte: no less than when the table was begun, and    *)
(* less than now by the weight of the highest byte, for every width.       *)
(***************************************************************************)
THEOREM IntermediateTablesAreClose == Spec => IntermediateIsClose
<1>. DEFINE Close ==
       IF perso = "sampling"
       THEN \A p \in SentPlaces : Received!element(frame.payload, p) = Kept[p + 1]
       ELSE \A p \in SentPlaces :
              Counted(Kept, p) < Base ^ ElementBytes =>
                /\ Received!element(frame.payload, p) >= Counted(Before(frame.seen), p)
                /\ Received!element(frame.payload, p) < Counted(Kept, p) + (Base ^ (ElementBytes - 1))
<1>1. ASSUME IInv, StoreInv, SentInv
      PROVE  Close
  <2>1. ElementBytes \in Nat \ {0} /\ Kept \in Seq(Channel)
    BY <1>1, Constants, KeptIs
  <2>2. ASSUME perso # "sampling", NEW p \in SentPlaces, Counted(Kept, p) < Base ^ ElementBytes
        PROVE  /\ Counted(Before(frame.seen), p) <= Received!element(frame.payload, p)
               /\ Received!element(frame.payload, p) < Counted(Kept, p) + (Base ^ (ElementBytes - 1))
    <3>1. 1 \in 1 .. ElementBytes /\ ElementBytes \in 1 .. ElementBytes
      BY <2>1
    <3>2. /\ ElementBytes * p \in Nat
          /\ \A j \in 1 .. ElementBytes :
               ElementBytes * p + j \in 1 .. Len(frame.payload) /\ Place(ElementBytes * p + j) = p
      BY <1>1, BytesOfElement, Zenon
    <3>3. PICK counts \in [1 .. Len(frame.payload) -> Nat] : Observed(counts)
      BY <1>1, <2>2 DEF SentInv, CountsSent
    <3>. DEFINE seen == [j \in 1 .. ElementBytes |-> counts[ElementBytes * p + j]]
    <3>4. ASSUME NEW j \in 1 .. ElementBytes
          PROVE  /\ seen[j] = counts[ElementBytes * p + j] /\ seen[j] \in Nat
                 /\ frame.payload[ElementBytes * p + j]
                      = Digit(seen[j] % (Base ^ ElementBytes), ElementBytes * p + j)
                 /\ Counted(Before(frame.seen), p) <= seen[j]
                 /\ seen[j] <= Counted(Kept, p)
      BY <3>2, <3>3 DEF Observed
    <3>5. seen \in [1 .. ElementBytes -> Nat]
      BY <3>4
    <3>6. ASSUME NEW j \in 1 .. ElementBytes - 1 PROVE seen[j] <= seen[j + 1]
      <4>1. j \in 1 .. ElementBytes /\ j + 1 \in 1 .. ElementBytes
        BY <2>1
      <4>2. /\ ElementBytes * p + j \in 1 .. Len(frame.payload) - 1
            /\ (ElementBytes * p + j) + 1 = ElementBytes * p + (j + 1)
        <5>1. ElementBytes * p + (j + 1) \in 1 .. Len(frame.payload)
          BY <3>2, <4>1
        <5>2. \A x \in Nat : (x + j) + 1 = x + (j + 1) /\
                 (x + (j + 1) \in 1 .. Len(frame.payload) => x + j \in 1 .. Len(frame.payload) - 1)
          <6>1. Len(frame.payload) \in Nat
            BY <1>1 DEF IInv, TypeOK, Frame
          <6>. QED
            BY <2>1, <6>1
        <5>. QED
          BY <3>2, <5>1, <5>2
      <4>3. Place((ElementBytes * p + j) + 1) = Place(ElementBytes * p + j)
        BY <3>2, <4>1, <4>2
      <4>4. counts[ElementBytes * p + j] <= counts[(ElementBytes * p + j) + 1]
        BY <3>3, <4>2, <4>3 DEF Observed
      <4>. QED
        BY <3>4, <4>1, <4>2, <4>4
    <3>. DEFINE width == Base ^ ElementBytes
    <3>. HIDE DEF seen, width
    <3>7. Counted(Kept, p) \in Nat /\ Counted(Before(frame.seen), p) \in Int /\ width \in Nat \ {0}
      <4>1. Counted(Kept, p) \in Nat /\ width \in Nat \ {0}
        BY <2>1, Constants, Counting DEF width
      <4>2. Before(frame.seen) \in Seq(Channel)
        <5>1. frame.seen \in Nat /\ frame.seen <= Len(Kept) /\ Len(Kept) \in Nat
          BY <1>1, <2>1 DEF IInv, TypeOK, Frame, SentInv, HeaderOK
        <5>2. \A k \in 1 .. frame.seen : Kept[k] \in Channel
          BY <2>1, <5>1, ElementOfSeq
        <5>. QED
          BY <5>1, <5>2, SubSeqProperties DEF Before
      <4>. QED
        BY <4>1, <4>2, Counting
    <3>8. ASSUME NEW j \in 1 .. ElementBytes
          PROVE  seen[j] % width = seen[j] /\ seen[j] < width
      <4>1. seen[j] \in Nat /\ seen[j] < width
        <5>1. seen[j] \in Nat /\ seen[j] <= Counted(Kept, p)
          BY <3>4
        <5>2. Counted(Kept, p) < width
          BY <2>2 DEF width
        <5>. QED
          BY <3>7, <5>1, <5>2
      <4>2. seen[j] \in 0 .. width - 1 /\ width * 0 + seen[j] = seen[j]
        BY <3>7, <4>1
      <4>3. (width * 0 + seen[j]) % width = seen[j]
        BY <3>7, <4>2, DivisionIsUnique
      <4>. QED
        BY <4>1, <4>2, <4>3
    <3>9. \A j \in 1 .. ElementBytes :
            frame.payload[ElementBytes * p + j] = Digit(seen[j], ElementBytes * p + j)
      BY <3>4, <3>8 DEF width
    <3>10. seen[ElementBytes] < Base ^ ElementBytes
      BY <3>1, <3>8 DEF width
    <3>11. /\ Received!element(frame.payload, p) \in Nat
           /\ seen[1] <= Received!element(frame.payload, p)
           /\ Received!element(frame.payload, p)
                < seen[ElementBytes] + (Base ^ (ElementBytes - 1))
      BY <1>1, <3>5, <3>6, <3>9, <3>10, ElementFromDigits
    <3>12. Base ^ (ElementBytes - 1) \in Nat
      <4>1. ElementBytes - 1 \in 0 .. ElementBytes
        BY <2>1
      <4>. QED
        BY <4>1, Powers
    <3>13. /\ Counted(Before(frame.seen), p) <= seen[1] /\ seen[1] \in Nat
           /\ seen[ElementBytes] <= Counted(Kept, p) /\ seen[ElementBytes] \in Nat
      BY <3>1, <3>4
    <3>. QED
      BY <3>7, <3>11, <3>12, <3>13
  <2>3. ASSUME perso = "sampling", NEW p \in SentPlaces
        PROVE  Received!element(frame.payload, p) = Kept[p + 1]
    BY <1>1, <2>3, SampleElement
  <2>4. \A a, b : a <= b => b >= a
    OBVIOUS
  <2>. QED
    BY <2>2, <2>3, <2>4
<1>2. IInv /\ StoreInv /\ SentInv /\ [Next]_vars =>
        [EndsTable /\ frame.reason = "intermediate" => Close]_vars
  BY <1>1
<1>. QED
  BY <1>2, Invariant, ExactInvariant, PTL DEF Spec, IntermediateIsClose

=============================================================================
