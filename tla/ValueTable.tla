------------------------------ MODULE ValueTable ------------------------------
(***************************************************************************)
(* The value table a frame holds, as the host reads it: the last case of   *)
(* packet_parser_handle_frame() (hostware/packet-parser.c) and the         *)
(* decoding in packet_value_table_new() (packet-value-table.c).            *)
(***************************************************************************)
EXTENDS Integers, Sequences

CONSTANTS
  ElementBytes, \* bytes of an element: bits_per_value by eight
  Base          \* number of values of a byte (256)

element_count(bytes) == Len(bytes) \div ElementBytes

\* Mutant: the bytes are taken in the order of the network.
element_BigEndian(bytes, i) ==
  LET Value[k \in 0 .. ElementBytes] ==
        IF k = 0 THEN 0 ELSE Base * Value[k - 1] + bytes[ElementBytes * i + k]
  IN Value[ElementBytes]

(* A number of so many bytes, the least significant one first.             *)
Number(bytes) ==
  LET Value[k \in 1 .. Len(bytes) + 1] ==
        IF k > Len(bytes) THEN 0 ELSE bytes[k] + Base * Value[k + 1]
  IN Value[1]

(* Elements count from 0.                                                  *)
element(bytes, i) ==
  Number(SubSeq(bytes, ElementBytes * i + 1, ElementBytes * (i + 1)))

-----------------------------------------------------------------------------
(* The parameters the measurement was started with come back ahead of the  *)
(* elements.  Which there are is known from the personality info; the one  *)
(* a table has not got is (unsigned int)-1.  A token must follow them.     *)
NotSent == (Base ^ 4) - 1

TimerValue(params, ofs) == Number(SubSeq(params, ofs + 1, ofs + 2))

Holds(params, ofs, size) == ofs + 2 < Len(params) /\ size # 0

(* Where what follows the timer count, and the samples to skip, begins.    *)
AfterTimer(params, personality) ==
  IF Holds(params, 0, personality.timer_count) THEN 2 ELSE 0

AfterSkip(params, personality) ==
  LET ofs == AfterTimer(params, personality) IN
    IF Holds(params, ofs, personality.skip_samples) THEN ofs + 2 ELSE ofs

total_duration(params, personality) ==
  IF AfterTimer(params, personality) = 2 THEN TimerValue(params, 0) ELSE NotSent

\* Mutant: the samples to skip are expected whether there are any or not.
token_AfterBoth(params, personality) == SubSeq(params, 5, Len(params))

token(params, personality) == SubSeq(params, AfterSkip(params, personality) + 1, Len(params))

=============================================================================
