-------------------------------- MODULE Export --------------------------------
(***************************************************************************)
(* What the host writes into the file of a time series:                    *)
(* export_time_series_vtable() (hostware/freemcan-export.c).  The numbers  *)
(* are exact; the statistics of floating point numbers are left out.       *)
(***************************************************************************)
EXTENDS ValueTable, FiniteSetsExt

(* An element is at most four bytes wide.                                  *)
UINT32_MAX == (Base * Base * Base * Base) - 1

\* Mutant: the element of an interval going on counts like the others.
Measured_All(table) == 0 .. element_count(table.payload) - 1

(* The elements the minimum is taken of: the last one may be incomplete.   *)
Measured(table) ==
  {i \in 0 .. element_count(table.payload) - 1 :
     \/ table.reason \in {"done", "resend"}
     \/ i + 1 < element_count(table.payload)
     \/ table.duration = table.total_duration}

(* A measurement has begun when its token says; without one, in 1970.      *)
start_time(table) == Number(table.token)

(* The table is the host's: its payload, and the fields of its header.     *)
export_time_series_vtable(table, sizeof_table) ==
  LET places == 0 .. element_count(table.payload) - 1
      Values(some) == {element(table.payload, i) : i \in some}
      to_go == (sizeof_table \div ElementBytes) - element_count(table.payload)
  IN [start_time   |-> start_time(table),
      elapsed_time |-> table.duration
                         + table.total_duration * (element_count(table.payload) - 1),
      min_value    |-> Min(Values(Measured(table)) \cup {UINT32_MAX}),
      max_value    |-> Max(Values(places) \cup {0}),
      total_count  |-> MapThenSumSet(LAMBDA i : element(table.payload, i), places),
      time_to_go   |-> to_go * table.total_duration,
      rows |-> [i \in places |-> <<element(table.payload, i),
                                   start_time(table) + i * table.total_duration>>]]

=============================================================================
