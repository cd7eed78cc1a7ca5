--------------------------- MODULE AdcPersonalities ---------------------------
(***************************************************************************)
(* The three personalities that measure with the analog digital converter, *)
(* while they measure:                                                     *)
(*   sampling   firmware/perso-adc-int-log-timed-trig.c: every so many-th  *)
(*              conversion becomes the next element of the table;          *)
(*   mca-timed  firmware/perso-adc-int-mca-timed-trig.c: every so many-th  *)
(*              conversion is counted in a histogram;                      *)
(*   mca        firmware/perso-adc-int-mca-ext-trig.c: every conversion    *)
(*              is, and another interrupt ends the measurement.            *)
(* The conversion's interrupt service routine interleaves with the main    *)
(* program, which sends the table byte by byte (send_table() in            *)
(* firmware/main.c), for an intermediate report with interrupts enabled.   *)
(***************************************************************************)
EXTENDS Integers, Sequences, FiniteSets

CONSTANTS
  TableBytes,    \* data_table_size of the sampling personality
  ElementBytes,  \* bytes of a table element
  Base,          \* number of values of a byte (256)
  Channels,      \* number of values of a conversion (1 << ADC_RESOLUTION)
  Word,          \* number of values of a timer (65536)
  Timers,        \* timer values the host may ask for
  Skips,         \* numbers of skipped samples it may ask for, or the buffer may hold
  MaxConversions \* bound: conversions of a measurement

ASSUME AdcAssumption ==
  /\ ElementBytes \in Nat \ {0} /\ TableBytes \in Nat /\ TableBytes >= ElementBytes
  /\ Base \in Nat \ {0, 1} /\ Channels \in Nat \ {0} /\ Word \in Nat \ {0, 1}
  /\ Channels <= Base ^ ElementBytes
  /\ Timers \subseteq 0 .. Word - 1 /\ Skips \subseteq 0 .. Word - 1
  /\ MaxConversions \in Nat

(* What a power is, which the prover does not know.                        *)
ASSUME PowersAssumption ==
  /\ Base ^ 0 = 1
  /\ \A i \in 0 .. ElementBytes - 1 : Base ^ (i + 1) = Base * (Base ^ i)

Personality == {"sampling", "mca-timed", "mca"}
Channel == 0 .. Channels - 1
Count   == 0 .. (Base ^ ElementBytes) - 1

VARIABLES
  perso,             \* the personality the firmware was built with
  pstate,            \* state of the device state machine
  main,              \* where the main program is
  interrupts,        \* the global interrupt enable flag
  gf,                \* GF_MEASUREMENT_FINISHED
  triggered,         \* whether something triggers conversions
  table,             \* the elements of data_table
  table_cur,         \* address of the next sample
  size,              \* data_table_info.size
  timer1_count,      \* conversions or seconds left
  skip_samples,      \* conversions left to skip
  orig_timer1_count, \* the parameters
  orig_skip_samples,
  frame,             \* the value table frame being sent
  converted          \* history: what was converted since the measurement began

table_vars == <<table, table_cur, size>>
params     == <<orig_timer1_count, orig_skip_samples>>
isr_vars   == <<gf, triggered, table_vars, timer1_count, skip_samples, converted>>
vars == <<perso, pstate, main, interrupts, isr_vars, params, frame>>

-----------------------------------------------------------------------------
(* The elements of the table: the linker gives the samples all the memory  *)
(* that is left, a histogram has one for every value of a conversion.      *)
Places ==
  IF perso = "sampling" THEN 0 .. (TableBytes \div ElementBytes) - 1 ELSE Channel

\* Mutant: the memory's last element is thought to be free.
table_end_Unrounded == TableBytes + ElementBytes

(* A sample that begins before table_end ends inside the table.            *)
table_end == TableBytes - (ElementBytes - 1)

(* A value table frame: why it is sent, the size announced in its header,  *)
(* the size send_table() goes on with, and the bytes sent so far; and how  *)
(* many conversions had been kept when it was begun.                       *)
Frame == [reason : {"none", "intermediate", "done", "aborted", "resend"},
          announced : Nat, to_send : Nat, payload : Seq(0 .. Base - 1), seen : Nat]

NoFrame == [reason |-> "none", announced |-> 0, to_send |-> 0, payload |-> <<>>, seen |-> 0]

(* Only the sampling personality announces what it has stored.             *)
InitialSize == IF perso = "sampling" THEN 0 ELSE ElementBytes * Channels

Init ==
  /\ perso \in Personality
  /\ pstate = "READY" /\ main = "poll" /\ interrupts = TRUE
  /\ gf = FALSE /\ triggered = FALSE
  /\ table = [p \in Places |-> 0] /\ table_cur = 0 /\ size = InitialSize
  /\ timer1_count = 0 /\ skip_samples = 0
  /\ orig_timer1_count = 0 /\ orig_skip_samples = 0
  /\ frame = NoFrame /\ converted = <<>>

Reset ==
  /\ pstate' = "READY" /\ main' = "poll" /\ interrupts' = TRUE
  /\ gf' = FALSE /\ triggered' = FALSE
  /\ table' = [p \in Places |-> 0] /\ table_cur' = 0 /\ size' = InitialSize
  /\ timer1_count' = 0 /\ skip_samples' = 0
  /\ orig_timer1_count' = 0 /\ orig_skip_samples' = 0
  /\ frame' = NoFrame /\ converted' = <<>> /\ UNCHANGED perso

-----------------------------------------------------------------------------
(***************************************************************************)
(* The block of parameters of personality_start_measurement_sram(): those  *)
(* PERSONALITY() declares; behind a single one, whatever the buffer holds. *)
(* timer1-adc-trigger.c asks the personality which parameters there are,   *)
(* but reads the answer from data memory, while PERSONALITY() is in the    *)
(* program's: what is at that address decides whether a parameter is taken *)
(* from the block, and whether the second of them is the block's first.    *)
(***************************************************************************)
Block == IF perso = "sampling" THEN Skips \X Skips ELSE Timers \X Skips

TakenFrom(block) ==
  {<<block[1], block[2]>>, <<block[1], 0>>, <<0, block[1]>>, <<0, 0>>}

Parameters(timer, skip) ==
  IF perso = "mca" THEN timer \in Timers /\ skip = 0
                   ELSE \E block \in Block : <<timer, skip>> \in TakenFrom(block)

ParameterValues == Timers \cup Skips \cup {0}

Accepted(timer) == perso = "mca" => timer > 1

Start(timer, skip) ==
  /\ main = "uart" /\ pstate = "READY"
  /\ Parameters(timer, skip) /\ Accepted(timer)
  /\ pstate' = "MEASURING" /\ main' = "poll" /\ triggered' = TRUE
  /\ timer1_count' = timer /\ orig_timer1_count' = timer
  /\ skip_samples' = skip /\ orig_skip_samples' = skip
  /\ UNCHANGED <<perso, interrupts, gf, table_vars, frame, converted>>

(* timer1_init() of the mca personality resets the device on a timer value *)
(* of 0 or 1; the same safeguard is commented out for the other two.       *)
StartRefused(timer) ==
  main = "uart" /\ pstate = "READY" /\ Parameters(timer, 0) /\ ~Accepted(timer) /\ Reset

Increment(counts, channel) ==
  [counts EXCEPT ![channel] = (counts[channel] + 1) % (Base ^ ElementBytes)]

(* What the three interrupt service routines have in common.               *)
Conversion(of, value) ==
  /\ perso = of /\ interrupts /\ triggered
  /\ Len(converted) < MaxConversions
  /\ converted' = Append(converted, value)
  /\ UNCHANGED <<perso, pstate, main, interrupts, params, frame>>

Skip == skip_samples # 0 /\ skip_samples' = skip_samples - 1 /\ UNCHANGED table

\* Mutant: the flag is not set.
Sample_NoFlag(value) ==
  /\ Conversion("sampling", value)
  /\ UNCHANGED timer1_count
  /\ \/ Skip /\ UNCHANGED <<gf, triggered, table_cur, size>>
     \/ /\ skip_samples = 0 /\ ~gf
        /\ table' = [table EXCEPT ![table_cur \div ElementBytes] = value]
        /\ table_cur' = table_cur + ElementBytes /\ size' = size + ElementBytes
        /\ skip_samples' = orig_skip_samples
        /\ UNCHANGED gf /\ triggered' = (table_cur' < table_end)

(* Triggers stop (timer1_halt()) where the flag is set, so that the flag   *)
(* is never seen set here.                                                 *)
Sample(value) ==
  /\ Conversion("sampling", value)
  /\ UNCHANGED timer1_count
  /\ \/ Skip /\ UNCHANGED <<gf, triggered, table_cur, size>>
     \/ /\ skip_samples = 0 /\ ~gf
        /\ table' = [table EXCEPT ![table_cur \div ElementBytes] = value]
        /\ table_cur' = table_cur + ElementBytes /\ size' = size + ElementBytes
        /\ skip_samples' = orig_skip_samples
        /\ gf' = (table_cur' >= table_end) /\ triggered' = (table_cur' < table_end)

\* Mutant: the measurement ends one conversion early.
CountTimed_Early(value) ==
  /\ Conversion("mca-timed", value)
  /\ UNCHANGED <<triggered, table_cur, size>>
  /\ \/ Skip
     \/ skip_samples = 0 /\ skip_samples' = orig_skip_samples /\ table' = Increment(table, value)
  /\ \/ gf /\ UNCHANGED <<gf, timer1_count>>
     \/ /\ ~gf /\ timer1_count' = (timer1_count - 1) % Word
        /\ gf' = (timer1_count' <= 1)

(* Conversions are counted as long as they come, the measurement's length  *)
(* is counted down to the flag; a length of 0 is the longest.              *)
CountTimed(value) ==
  /\ Conversion("mca-timed", value)
  /\ UNCHANGED <<triggered, table_cur, size>>
  /\ \/ Skip
     \/ skip_samples = 0 /\ skip_samples' = orig_skip_samples /\ table' = Increment(table, value)
  /\ \/ gf /\ UNCHANGED <<gf, timer1_count>>
     \/ /\ ~gf /\ timer1_count' = (timer1_count - 1) % Word
        /\ gf' = (timer1_count' = 0)

CountPulse(value) ==
  /\ Conversion("mca", value)
  /\ table' = Increment(table, value)
  /\ UNCHANGED <<gf, triggered, table_cur, size, timer1_count, skip_samples>>

(* ISR(TIMER1_COMPA_vect) of the mca personality.                          *)
Second ==
  /\ perso = "mca" /\ interrupts /\ pstate # "READY" /\ ~gf
  /\ timer1_count' = timer1_count - 1 /\ gf' = (timer1_count' = 0)
  /\ UNCHANGED <<perso, pstate, main, interrupts, triggered, table_vars, skip_samples,
                 params, frame, converted>>

TimedConversion == \E value \in Channel : Sample(value) \/ CountTimed(value)

-----------------------------------------------------------------------------
(* The steps of send_table(); get_duration() is no part of what is claimed *)
(* here.                                                                   *)
BeginTable(why) ==
  /\ main' = "announce"
  /\ frame' = [NoFrame EXCEPT !.reason = why,
                              !.seen = Len(converted) \div (orig_skip_samples + 1)]
  /\ UNCHANGED <<perso, isr_vars, params>>

Announce ==
  /\ main = "announce" /\ main' = "size"
  /\ frame' = [frame EXCEPT !.announced = size]
  /\ UNCHANGED <<perso, pstate, interrupts, isr_vars, params>>

ReadSize ==
  /\ main = "size" /\ main' = "send"
  /\ frame' = [frame EXCEPT !.to_send = size]
  /\ UNCHANGED <<perso, pstate, interrupts, isr_vars, params>>

\* Mutant: the most significant byte is sent first.
ByteAt_BigEndian(address) ==
  (table[address \div ElementBytes] \div (Base ^ (ElementBytes - 1 - (address % ElementBytes)))) % Base

(* The least significant byte of an element is sent first.                 *)
ByteAt(address) ==
  (table[address \div ElementBytes] \div (Base ^ (address % ElementBytes))) % Base

SendByte ==
  /\ main = "send" /\ Len(frame.payload) < frame.to_send
  /\ frame' = [frame EXCEPT !.payload = Append(@, ByteAt(Len(@)))]
  /\ UNCHANGED <<perso, pstate, main, interrupts, isr_vars, params>>

EndTable ==
  /\ main = "send" /\ Len(frame.payload) = frame.to_send
  /\ main' = "poll" /\ frame' = NoFrame
  /\ gf' = (gf /\ frame.reason # "done")
  /\ UNCHANGED <<perso, pstate, interrupts, triggered, table_vars, timer1_count, skip_samples,
                 params, converted>>

-----------------------------------------------------------------------------
(* The event loop, as in TimeSeries.                                       *)
NotFinished ==
  /\ main = "poll" /\ ~gf
  /\ main' = "uart"
  /\ UNCHANGED <<perso, pstate, interrupts, isr_vars, params, frame>>

Finished ==
  /\ main = "poll" /\ gf /\ pstate = "MEASURING"
  /\ interrupts' = FALSE /\ pstate' = "DONE"
  /\ BeginTable("done")

FinishedTwice == main = "poll" /\ gf /\ pstate = "DONE" /\ Reset

NoCommand ==
  /\ main = "uart" /\ main' = "poll"
  /\ UNCHANGED <<perso, pstate, interrupts, isr_vars, params, frame>>

Intermediate ==
  /\ main = "uart" /\ pstate = "MEASURING"
  /\ BeginTable("intermediate")
  /\ UNCHANGED <<pstate, interrupts>>

\* Mutant: interrupts stay on.
Abort_NoCli ==
  /\ main = "uart" /\ pstate = "MEASURING"
  /\ interrupts' = interrupts /\ pstate' = "DONE"
  /\ BeginTable("aborted")

Abort ==
  /\ main = "uart" /\ pstate = "MEASURING"
  /\ interrupts' = FALSE /\ pstate' = "DONE"
  /\ BeginTable("aborted")

Resend ==
  /\ main = "uart" /\ pstate = "DONE"
  /\ BeginTable("resend")
  /\ UNCHANGED <<pstate, interrupts>>

ResetCommand == main = "uart" /\ pstate # "MEASURING" /\ Reset

MainProgram ==
  \/ NotFinished \/ Finished \/ FinishedTwice
  \/ NoCommand \/ Intermediate \/ Abort \/ Resend \/ ResetCommand
  \/ Announce \/ ReadSize \/ SendByte \/ EndTable
  \/ \E timer \in ParameterValues : StartRefused(timer) \/ \E skip \in ParameterValues : Start(timer, skip)

Next ==
  \/ MainProgram \/ TimedConversion \/ Second
  \/ \E value \in Channel : CountPulse(value)

Spec == Init /\ [][Next]_vars

(* The CPU runs and timer1 does; pulses and commands may never come.       *)
FairSpec == Spec /\ WF_vars(MainProgram) /\ WF_vars(TimedConversion) /\ WF_vars(Second)

-----------------------------------------------------------------------------
(* The ranges of the variables.                                            *)
TypeOK ==
  /\ perso \in Personality /\ pstate \in {"READY", "MEASURING", "DONE"}
  /\ main \in {"poll", "uart", "announce", "size", "send"}
  /\ interrupts \in BOOLEAN /\ gf \in BOOLEAN /\ triggered \in BOOLEAN
  /\ table \in [Places -> Count] /\ table_cur \in Nat /\ size \in Nat
  /\ timer1_count \in 0 .. Word - 1 /\ skip_samples \in 0 .. Word - 1
  /\ orig_timer1_count \in 0 .. Word - 1 /\ orig_skip_samples \in 0 .. Word - 1
  /\ frame \in Frame /\ converted \in Seq(Channel)

(***************************************************************************)
(* The routine writes before it compares: whenever it may run with no      *)
(* sample to skip, the element at table_cur is inside the memory, the      *)
(* table is announced up to it, and nothing is sent from beyond it.        *)
(***************************************************************************)
StoresInBounds ==
  perso = "sampling" =>
    /\ triggered /\ interrupts => table_cur + ElementBytes <= TableBytes
    /\ size = table_cur /\ size <= TableBytes
    /\ frame.to_send <= size

(* The variables in their ranges and the samples in the table.             *)
InBounds == TypeOK /\ StoresInBounds

(* The conversions that are neither skipped nor came too late.             *)
Kept ==
  [k \in 1 .. Len(converted) \div (orig_skip_samples + 1) |-> converted[k * (orig_skip_samples + 1)]]

Counted(kept, channel) == Cardinality({k \in DOMAIN kept : kept[k] = channel})

(* The host's reading of a payload.                                        *)
Received == INSTANCE ValueTable

SentPlaces == 0 .. Received!element_count(frame.payload) - 1

EndsTable == main = "send" /\ main' = "poll"

(***************************************************************************)
(* The table of a measurement that is over, however it ended and however   *)
(* often it is sent, holds all conversions kept until interrupts were      *)
(* disabled and none that came later: every (skip + 1)-th one, the samples *)
(* in their order, the counts up to the width of an element.  A            *)
(* measurement that ran to its end filled the table with samples, or       *)
(* lasted for as many conversions as the timer value it was started with;  *)
(* 0, also where none was taken, stands for the number of values of a      *)
(* timer.                                                                  *)
(***************************************************************************)
FinalTableExact ==
  [][EndsTable /\ frame.reason # "intermediate" =>
       /\ frame.announced = Len(frame.payload)
       /\ \A p \in SentPlaces :
            Received!element(frame.payload, p) =
              IF perso = "sampling" THEN Kept[p + 1]
                                    ELSE Counted(Kept, p) % (Base ^ ElementBytes)
       /\ frame.reason = "done" =>
            /\ perso = "sampling" => Len(frame.payload) = ElementBytes * (TableBytes \div ElementBytes)
            /\ perso = "mca-timed" =>
                 Len(converted) >= (IF orig_timer1_count = 0 THEN Word ELSE orig_timer1_count)]_vars

(***************************************************************************)
(* An intermediate histogram is counted on while its elements are sent     *)
(* byte by byte, so that a carry can tear them: unless a count wraps, none *)
(* is less than when the table was begun, and none exceeds the present     *)
(* count by the weight of the most significant byte.  Samples are as they  *)
(* were stored.                                                            *)
(***************************************************************************)
Before(n) == SubSeq(Kept, 1, n)

IntermediateIsClose ==
  [][EndsTable /\ frame.reason = "intermediate" =>
       IF perso = "sampling"
       THEN \A p \in SentPlaces : Received!element(frame.payload, p) = Kept[p + 1]
       ELSE \A p \in SentPlaces :
              Counted(Kept, p) < Base ^ ElementBytes =>
                /\ Received!element(frame.payload, p) >= Counted(Before(frame.seen), p)
                /\ Received!element(frame.payload, p) < Counted(Kept, p) + (Base ^ (ElementBytes - 1))]_vars

(***************************************************************************)
(* A measurement of samples or of external events ends, whatever the host  *)
(* asks meanwhile.  Nothing is claimed of the timed histogram: "does not   *)
(* work.  Measurements lead to a reboot", says its source (line 52 of      *)
(* perso-adc-int-mca-timed-trig.c), and why is not in what is modelled.    *)
(***************************************************************************)
MeasurementEnds == pstate = "MEASURING" /\ perso # "mca-timed" ~> pstate = "DONE"

=============================================================================
