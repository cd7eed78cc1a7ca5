------------------------------ MODULE TimeSeries ------------------------------
(***************************************************************************)
(* The geiger-time-series personality while it measures                    *)
(* (firmware/perso-geiger-time-series.c): one interrupt service routine    *)
(* counts the pulses of the Geiger tube into the current element of the    *)
(* value table, another one moves on to the next element at the end of     *)
(* every interval, and the main program sends the table (send_table() in   *)
(* firmware/main.c), for an intermediate report with interrupts enabled.   *)
(*                                                                         *)
(* Addresses are relative to data_table.  What get_duration() does while   *)
(* it runs is the subject of Countdown; here it reads the counter at once. *)
(***************************************************************************)
EXTENDS Integers, Sequences

CONSTANTS
  TableBytes, \* data_table_size, as the linker sets it
  Timer,      \* the interval: the parameters' timer value
  Base        \* number of values of a byte (256)

ASSUME TimeSeriesAssumption ==
  /\ TableBytes \in Nat \ {0, 1}
  /\ Timer \in Nat \ {0, 1}
  /\ Base \in Nat \ {0, 1}

(* table_element_t is a 16 bit integer.                                    *)
ElementBytes == 2
Count  == 0 .. Base * Base - 1
Slot   == 0 .. TableBytes \div ElementBytes
SlotAt(address) == address \div ElementBytes

VARIABLES
  pstate,       \* state of the device state machine
  main,         \* where the main program is
  interrupts,   \* the global interrupt enable flag
  gf,           \* GF_MEASUREMENT_FINISHED
  table,        \* the elements of data_table
  table_cur,    \* address of the element counted into
  size,         \* data_table_info.size
  timer1_count, \* what is left of the interval
  frame,        \* the value table frame being sent
  seconds,      \* history: timer interrupts since the measurement started
  arrived       \* history: pulses in each interval, as often as a count wraps

table_vars == <<table, table_cur, size>>
isr_vars   == <<gf, table_vars, timer1_count, seconds, arrived>>
vars == <<pstate, main, interrupts, isr_vars, frame>>

-----------------------------------------------------------------------------
(***************************************************************************)
(* A value table frame: why it is sent, the duration in its header, the    *)
(* size of the table its header announces, the size send_table() goes on   *)
(* with, and the bytes of the table sent so far.  The other fields of its  *)
(* headers and the parameters, whose sizes are fixed, are left out.        *)
(***************************************************************************)
Reason == {"none", "intermediate", "done", "aborted", "resend"}

Frame == [reason : Reason, duration : 0 .. Timer, announced : 0 .. TableBytes,
          to_send : 0 .. TableBytes, payload : Seq(0 .. Base - 1)]

NoFrame ==
  [reason |-> "none", duration |-> 0, announced |-> 0, to_send |-> 0, payload |-> <<>>]

(* data_table_init() clears the table; its size is the one of an element.  *)
Init ==
  /\ pstate = "READY" /\ main = "poll" /\ interrupts = TRUE /\ gf = FALSE
  /\ table = [s \in Slot |-> 0] /\ table_cur = 0 /\ size = ElementBytes
  /\ timer1_count = 0 /\ seconds = 0 /\ arrived = [s \in Slot |-> 0]
  /\ frame = NoFrame

Reset ==
  /\ pstate' = "READY" /\ main' = "poll" /\ interrupts' = TRUE /\ gf' = FALSE
  /\ table' = [s \in Slot |-> 0] /\ table_cur' = 0 /\ size' = ElementBytes
  /\ timer1_count' = 0 /\ seconds' = 0 /\ arrived' = [s \in Slot |-> 0]
  /\ frame' = NoFrame

-----------------------------------------------------------------------------
\* Mutant: no room is left for the last byte of an element.
table_end_Unrounded == TableBytes

(* An element that begins before table_end ends inside the table.          *)
table_end == TableBytes - (ElementBytes - 1)

(* personality_start_measurement_sram() arms both interrupts.              *)
Start ==
  /\ main = "uart" /\ pstate = "READY"
  /\ pstate' = "MEASURING" /\ main' = "poll"
  /\ timer1_count' = Timer
  /\ UNCHANGED <<interrupts, gf, table_vars, seconds, arrived, frame>>

Armed == interrupts /\ pstate # "READY"

Increment(counts, slot) ==
  [counts EXCEPT ![slot] = (counts[slot] + 1) % (Base * Base)]

(* INT0: the interval the pulse belongs to is the one of the clock.        *)
Pulse ==
  /\ Armed
  /\ table' = IF table_cur < table_end THEN Increment(table, SlotAt(table_cur)) ELSE table
  /\ arrived' = LET interval == seconds \div Timer IN
                  IF (interval + 1) * ElementBytes <= TableBytes
                    THEN Increment(arrived, interval) ELSE arrived
  /\ UNCHANGED <<pstate, main, interrupts, gf, table_cur, size, timer1_count, seconds, frame>>

\* Mutant: the last element is not counted into.
Second_EarlyEnd ==
  /\ Armed /\ ~gf
  /\ seconds' = seconds + 1
  /\ \/ /\ timer1_count # 1
        /\ timer1_count' = timer1_count - 1
        /\ UNCHANGED <<gf, table_cur, size>>
     \/ /\ timer1_count = 1
        /\ table_cur' = table_cur + ElementBytes
        /\ \/ /\ table_cur' + ElementBytes < table_end
              /\ size' = size + ElementBytes /\ timer1_count' = Timer /\ UNCHANGED gf
           \/ /\ table_cur' + ElementBytes >= table_end
              /\ gf' = TRUE /\ timer1_count' = 0 /\ UNCHANGED size
  /\ UNCHANGED <<pstate, main, interrupts, table, arrived, frame>>

(* TIMER1_COMPA: at the end of an interval the next element is begun, if   *)
(* there is one.                                                           *)
Second ==
  /\ Armed /\ ~gf
  /\ seconds' = seconds + 1
  /\ \/ /\ timer1_count # 1
        /\ timer1_count' = timer1_count - 1
        /\ UNCHANGED <<gf, table_cur, size>>
     \/ /\ timer1_count = 1
        /\ table_cur' = table_cur + ElementBytes
        /\ \/ /\ table_cur' < table_end
              /\ size' = size + ElementBytes /\ timer1_count' = Timer /\ UNCHANGED gf
           \/ /\ table_cur' >= table_end
              /\ gf' = TRUE /\ timer1_count' = 0 /\ UNCHANGED size
  /\ UNCHANGED <<pstate, main, interrupts, table, arrived, frame>>

-----------------------------------------------------------------------------
(* The steps of send_table().                                              *)
BeginTable(why) ==
  /\ main' = "announce"
  /\ frame' = [NoFrame EXCEPT !.reason = why, !.duration = Timer - timer1_count]
  /\ UNCHANGED isr_vars

Announce ==
  /\ main = "announce" /\ main' = "size"
  /\ frame' = [frame EXCEPT !.announced = size]
  /\ UNCHANGED <<pstate, interrupts, isr_vars>>

ReadSize ==
  /\ main = "size" /\ main' = "send"
  /\ frame' = [frame EXCEPT !.to_send = size]
  /\ UNCHANGED <<pstate, interrupts, isr_vars>>

(* Elements are stored and sent little endian.                             *)
ByteAt(counts, address) ==
  LET count == counts[SlotAt(address)] IN
    IF address % ElementBytes = 0 THEN count % Base ELSE count \div Base

SendByte ==
  /\ main = "send" /\ Len(frame.payload) < frame.to_send
  /\ frame' = [frame EXCEPT !.payload = Append(@, ByteAt(table, Len(@)))]
  /\ UNCHANGED <<pstate, main, interrupts, isr_vars>>

(* The flag is cleared after the table of a finished measurement only.     *)
EndTable ==
  /\ main = "send" /\ Len(frame.payload) = frame.to_send
  /\ main' = "poll" /\ frame' = NoFrame
  /\ gf' = (gf /\ frame.reason # "done")
  /\ UNCHANGED <<pstate, interrupts, table_vars, timer1_count, seconds, arrived>>

-----------------------------------------------------------------------------
\* Mutant: the flag is not looked at.
NotFinished_NoCheck ==
  /\ main = "poll"
  /\ main' = "uart"
  /\ UNCHANGED <<pstate, interrupts, isr_vars, frame>>

NotFinished ==
  /\ main = "poll" /\ ~gf
  /\ main' = "uart"
  /\ UNCHANGED <<pstate, interrupts, isr_vars, frame>>

Finished ==
  /\ main = "poll" /\ gf /\ pstate = "MEASURING"
  /\ interrupts' = FALSE /\ pstate' = "DONE"
  /\ BeginTable("done")

(* The measurement ended while it was being aborted: see MainLoop.         *)
FinishedTwice == main = "poll" /\ gf /\ pstate = "DONE" /\ Reset

NoCommand ==
  /\ main = "uart" /\ main' = "poll"
  /\ UNCHANGED <<pstate, interrupts, isr_vars, frame>>

Intermediate ==
  /\ main = "uart" /\ pstate = "MEASURING"
  /\ BeginTable("intermediate")
  /\ UNCHANGED <<pstate, interrupts>>

\* Mutant: interrupts stay on.
Abort_NoCli ==
  /\ main = "uart" /\ pstate = "MEASURING"
  /\ interrupts' = interrupts /\ pstate' = "DONE"
  /\ BeginTable("aborted")

Abort ==
  /\ main = "uart" /\ pstate = "MEASURING"
  /\ interrupts' = FALSE /\ pstate' = "DONE"
  /\ BeginTable("aborted")

Resend ==
  /\ main = "uart" /\ pstate = "DONE"
  /\ BeginTable("resend")
  /\ UNCHANGED <<pstate, interrupts>>

ResetCommand == main = "uart" /\ pstate # "MEASURING" /\ Reset

MainProgram ==
  \/ NotFinished \/ Finished \/ FinishedTwice
  \/ NoCommand \/ Start \/ Intermediate \/ Abort \/ Resend \/ ResetCommand
  \/ Announce \/ ReadSize \/ SendByte \/ EndTable

Next == MainProgram \/ Pulse \/ Second

Spec == Init /\ [][Next]_vars

(* The CPU runs and the timer ticks; commands and pulses may never come.   *)
FairSpec == Spec /\ WF_vars(MainProgram) /\ WF_vars(Second)

-----------------------------------------------------------------------------
(* The ranges of the variables; the table never outgrows its memory.       *)
TypeOK ==
  /\ pstate \in {"READY", "MEASURING", "DONE"}
  /\ main \in {"poll", "uart", "announce", "size", "send"}
  /\ interrupts \in BOOLEAN /\ gf \in BOOLEAN
  /\ table \in [Slot -> Count] /\ arrived \in [Slot -> Count]
  /\ table_cur \in 0 .. TableBytes /\ size \in 0 .. TableBytes
  /\ timer1_count \in 0 .. Timer /\ seconds \in Nat
  /\ frame \in Frame

(***************************************************************************)
(* An element that is counted into lies inside the table with all its      *)
(* bytes, and belongs to what is sent of the table.                        *)
(***************************************************************************)
CountsInBounds ==
  table_cur < table_end =>
    table_cur + ElementBytes <= TableBytes /\ table_cur + ElementBytes = size

(* The variables in their ranges and the pulses counted in the table.      *)
InBounds == TypeOK /\ CountsInBounds

(* The host's reading of a payload.                                        *)
Received == INSTANCE ValueTable

EndsTable == main = "send" /\ main' = "poll"

(***************************************************************************)
(* The table of a measurement that is over, however it ended and however   *)
(* often it is sent, is announced with its size and holds the pulses of    *)
(* every interval, the last one included, and nothing that came later.     *)
(***************************************************************************)
FinalTableExact ==
  [][EndsTable /\ frame.reason # "intermediate" =>
       /\ frame.announced = Len(frame.payload)
       /\ \A s \in 0 .. Received!element_count(frame.payload) - 1 :
            Received!element(frame.payload, s) = arrived[s]
       /\ frame.reason = "done" =>
            /\ Len(frame.payload) = ElementBytes * (TableBytes \div ElementBytes)
            /\ frame.duration = Timer
            /\ seconds = Timer * (TableBytes \div ElementBytes)]_vars

(***************************************************************************)
(* A measurement ends, whatever the host asks meanwhile.                   *)
(***************************************************************************)
MeasurementEnds == pstate = "MEASURING" ~> pstate = "DONE"

(***************************************************************************)
(* Every table is sent in a frame whose header holds the size of what      *)
(* follows ("size of payload data in bytes").                              *)
(***************************************************************************)
AnnouncedIsSent == [][EndsTable => frame.announced = Len(frame.payload)]_vars

(***************************************************************************)
(* The time a table stands for, whole intervals for all its elements but   *)
(* the last and the duration in its header for that one, is the time the   *)
(* measurement took, whether it ran to its end or was aborted in an        *)
(* interval.  Of an intermediate table it is so within one interval only:  *)
(* one may end between get_duration() and the size.                        *)
(***************************************************************************)
StandsFor == (SlotAt(frame.to_send) - 1) * Timer + frame.duration

TimeFitsTable ==
  [][main = "size" /\ main' = "send" =>
       IF frame.reason = "intermediate"
       THEN StandsFor' \in (seconds - Timer) .. (seconds + Timer)
       ELSE StandsFor' = seconds]_vars

=============================================================================
