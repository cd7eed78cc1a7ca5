---------------------------- MODULE MCHostSession ----------------------------
(***************************************************************************)
(* Small instances of HostSession: two durations, the personalities of a   *)
(* Geiger counter and of an ADC logger.                                    *)
(***************************************************************************)
EXTENDS HostSession

MCDurations == <<2, 10800>>

MCPersonalities ==
  {[units_per_second |-> 1, timer_count |-> 2, skip_samples |-> 0],
   [units_per_second |-> 1, timer_count |-> 0, skip_samples |-> 2]}

MCGeiger == {[units_per_second |-> 1, timer_count |-> 2, skip_samples |-> 0]}

(* The Geiger counter is ready, the logger is done with a measurement.     *)
MCReady == [p \in MCGeiger |-> {"READY"}]

MCBeginsIn == [p \in MCPersonalities |-> IF p \in MCGeiger THEN {"READY"} ELSE {"DONE"}]

=============================================================================
