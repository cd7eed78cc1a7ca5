--------------------------- MODULE TimeSeriesExport ---------------------------
(***************************************************************************)
(* A time series from the pulses to the file: the measurement of           *)
(* TimeSeries, and the summary the host writes of every table it gets      *)
(* (Export).                                                               *)
(***************************************************************************)
EXTENDS TimeSeries

Host == INSTANCE Export

(* The parameters the measurement was started with: the timer value and a  *)
(* token, the time the host sent them.  send_table() sends them back.      *)
Started == 1
Parameters == <<Timer % Base, Timer \div Base, Started>>

personality_info == [timer_count |-> 2, skip_samples |-> 0]

(* The table as the host takes it from the frame.                          *)
Received_table ==
  [reason |-> frame.reason, payload |-> frame.payload, duration |-> frame.duration,
   total_duration |-> Host!total_duration(Parameters, personality_info),
   token |-> Host!token(Parameters, personality_info)]

Summary == Host!export_time_series_vtable(Received_table, TableBytes)

Capacity == TableBytes \div ElementBytes
Complete == 0 .. (seconds \div Timer) - 1

(* The counts that may enter the minimum, and the one that always does.    *)
Counts(slots) == {arrived[s] : s \in slots}
Least(slots)  == Host!Min(Counts(slots) \cup {Host!UINT32_MAX})

(***************************************************************************)
(* The file of a measurement that is over tells the truth about it: when   *)
(* it began, the seconds it lasted, the pulses that arrived in them, each  *)
(* interval's number at its time, their least number in a complete         *)
(* interval, although the message tells that only by why the table is sent *)
(* and by a duration, and the time the measurement had to go.              *)
(* A resent table of an aborted measurement is taken for a complete one:   *)
(* its minimum is that of the last, incomplete interval too.               *)
(* Pulses may be counted and an interval may end while an intermediate     *)
(* table is sent: its minimum is not less than that of the intervals       *)
(* complete when its sending ends.                                         *)
(***************************************************************************)
FileTellsTruth ==
  [][EndsTable =>
       LET sent == 0 .. (Len(frame.payload) \div ElementBytes) - 1 IN
       IF frame.reason = "intermediate" THEN Summary.min_value >= Least(Complete) ELSE
       /\ Summary.start_time = Started /\ Summary.elapsed_time = seconds
       /\ Summary.elapsed_time + Summary.time_to_go + (Timer - frame.duration)
            = Timer * Capacity
       /\ Summary.total_count = Host!MapThenSumSet(LAMBDA s : arrived[s], sent)
       /\ Summary.rows = [s \in sent |-> <<arrived[s], Started + s * Timer>>]
       /\ Summary.min_value = Least(IF frame.reason = "resend" THEN sent ELSE Complete)]_vars

=============================================================================
