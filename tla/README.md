# freeMCAn: a verification project

freeMCAn turns an Atmel AVR into a multi channel analyser, Geiger counter or
data logger: the *firmware* measures into a value table in SRAM and sends it to
a host over a serial line; the *hostware* controls the device and writes the
tables to files; an *emulator* in Erlang stands in for the device. This
directory holds TLA+ models of the code, the TLC configurations that check them
on small instances, and proofs for TLAPS.

## Inventory

The program's own logic is in `firmware/`, `include/`, `hostware/` and
`emulator/`. `code-comparison/`, `doc/` and the R and Perl scripts hold nothing
that runs in the system.

| Component | State | Operations | Interacts with | Hard behaviour | What makes it correct |
|---|---|---|---|---|---|
| Event loop (`firmware/main.c`, `switch.c`) | device state, parser state, parameter buffer (SRAM, EEPROM), switch lock, finished flag | poll flag, switch, UART; parse a byte; handle a command | ISRs through `GF_MEASUREMENT_FINISHED` and the interrupt enable flag; host through frames; watchdog reset | events interleave with commands; bytes lost or corrupted; reset and power failure at any point | implements the state machine; array bounds; measurements run with the parameters sent and keep them; every end is dealt with |
| Measurement clock (`timer1-*.c`) | 16 bit down counter, its reload value | tick ISR, `get_duration()` | the flag; `send_table()` | an 8 bit CPU reads 16 bits with the interrupt on | durations are valid, exact at the end; the read loop ends |
| Time series (`perso-geiger-time-series.c`) | table, write pointer, size | pulse ISR, interval ISR, `send_table()` | the clock, the event loop | the table changes while it is sent; rounding of the table's end | writes stay in the table; final tables complete and consistent |
| Converter personalities (`perso-adc-*.c`, `timer1-adc-trigger.c`) | histogram or samples, skip counter, timer | conversion ISR, timer ISR | as above | as above; counts wrap, carries tear | as above; intermediate counts close to the true ones |
| Geiger statistics (`perso-geiger-lcd.*`, `perso-geiger-time-series.c`) | ring buffer of counts, its copy, sums | update in the ISR, evaluation in the main program | the tick ISR; the display | the buffer moves while a copy of its indices is evaluated; it is cut at a change of the rate | sums are of the newest seconds; a change is forgotten |
| Display (`lcd.c`, `freemcan-lcd.c`) | position, display memory, half of a byte | initialise, instruct, write | the statistics | bytes in halves; a reset in between; nothing is cleared | what is shown are the newest numbers, readable |
| Loudspeaker (`beep.*`) | timers running or not | start, gate ISR, kill | pulse ISR, end of measurement | kill races with start | silent after the end |
| UART, frames, checksum (`uart-comm.c`, `frame-comm.c`, `packet-comm.c`, `checksum.c`) | running checksums | put, get, frame start and end | event loop; host | corruption, overrun | frames well formed; corruption noticed |
| Host frame parser (`frame-parser.c`, `frame.c`) | parser state, frame in progress, reference counts | a byte | packet parser | corrupt and truncated frames | no leak but the known one, no abort but the known one, frames only when intact; recovery |
| Host program (`freemcan-tui*.c`, `freemcan-device.c`, `freemcan-signals.c`, `packet-*.c`, `personality-info.c`) | flags, polling interval, answers awaited, personality info, terminal | select, keys, timeouts, packets, signals, clean-up | device, user, export | answers late or lost; a device that is measuring already; ends in many places | polling goes on and adapts; tables are saved; the terminal is restored |
| Export and log (`freemcan-export.c`, `freemcan-log.c`) | none | a table to a file, to the log | host program | which elements of a table are complete | the file tells the truth; lines fit their buffer |
| Emulator (`freemcan_emulator.erl`, `erl_unix_port.c`) | state machine, client, pipes | commands, seconds, relay | clients | two processes, two pipes, clients come and go | replies in order; measurements end |
| Serial setup, linker sections, scripts | termios, none | configure | | | not modelled: pure I/O |

The hazards of this code, each at the line where it bites, are in
`PROJECT.json`, with the properties that would catch them going wrong.

## Modules

| Module | Models | Checked by | Proved in |
|---|---|---|---|
| `DeviceFSM` | what the device promises its host (abstract) | as `ImplementsDevice`, and inside `HostSession` | `MainLoopProofs` |
| `MainLoop` | `main.c`: event loop, command parser, handlers, switch, EEPROM, watchdog | `MCMainLoop`, three configurations | `MainLoopProofs` |
| `Countdown` | the timer1 ISRs and `get_duration()`, byte by byte | `MCCountdown.cfg` | `CountdownProofs` |
| `TimeSeries` | the time series' ISRs and `send_table()`, byte by byte | `MCTimeSeries_size.cfg` | `TimeSeriesProofs` |
| `TimeSeriesExport` | `TimeSeries` and the host's file of it composed | `MCTimeSeries.cfg` | `TimeSeriesProofs` |
| `ValueTable`, `Export` | `packet_value_table_new()`, `export_time_series_vtable()` as operators | inside `TimeSeriesExport`, `AdcPersonalities` | `TimeSeriesProofs` |
| `AdcPersonalities` | the three personalities of the converter and `send_table()` | `MCAdcPersonalities.cfg` | `AdcProofs` |
| `GeigerStats` | ring buffer, evaluation, averaging, pulses and end of measurement | inside `GeigerDisplay` | `GeigerStatsProofs` |
| `Beep`, `LcdNumbers`, `Lcd` | loudspeaker; numbers as text, square root, dose rate; display driver and controller | inside `GeigerDisplay` | `GeigerStatsProofs` |
| `GeigerDisplay` | `GeigerStats` and the display composed | `MCGeigerDisplay.cfg` | `GeigerStatsProofs` |
| `Checksum` | `checksum.c`, `freemcan-checksum.c` | inside `MCHostLink` | |
| `HostFrameParser` | `step_fsm()` of `frame-parser.c`, memory of its frames | inside `HostLink` | `HostFrameParserProofs` |
| `HostLink` | device's frames, faulty line and `HostFrameParser` composed | `MCHostLink` | `HostFrameParserProofs` |
| `HostTui` | the host's program: select loop, keys, timeouts, signals, packets, clean-up | inside `HostSession` | `HostProofs` |
| `HostSession` | `HostTui`, a lossy line and `DeviceFSM` composed | `MCHostSession`, two configurations | `HostProofs` |
| `HostLog` | a line of the logged table | | `HostProofs` |
| `Emulator` | the Erlang state machine, pipes, port program, clients | `MCEmulator.cfg` | `HostProofs` |
| `Division` | lemmas on quotients, remainders and multiples; induction over numbers | | itself |

### MainLoop and DeviceFSM

A step of `MainLoop` runs from one poll of the loop to the next: `pc` is
`"loop"` before the flag is polled (main.c:521), `"switch"` before the switch
(528), `"uart"` before the UART (536). In between `MeasurementElapsed`, the ISR
that ends a measurement, may run. That is as fine as it has to be: a handler
shares nothing with the ISR but the flag, which it neither reads nor writes
before its last statement, and the interrupt enable flag, which it clears only.
(What the ISRs do to the *table* during `send_table()` is `TimeSeries` and
`AdcPersonalities`.) `eeprom_update_block()` is split into cells, because power
may fail in between; the order of the cells is left open.

The host, the line and the user are not processes: the parser chooses what the
byte it reads holds, so every host and every loss, duplication or corruption is
covered. Checksums are abstracted to "matches or not". `own` is the one history
variable: the cells of the parameter buffer written by the frame being received.
At a restart of the parser the cached command and length, which are dead, are
forgotten.

Frames are pairs of a kind and what a property tells apart; `sent` holds those
of the last step. `DeviceFSM` has the device's states and what may be said in
each; a step either keeps the state and says what belongs to it, or takes one of
the named transitions with exactly the frames that announce it. `Answers` and
`Obeys` say what each command does in each state and how it is answered;
`ObeysCommands` holds the handlers to it. The refinement
mapping (`Mode`, `Device` in `MainLoop`) shows `booting` and `RESET`, which the
code says are "not actually modelled as a state", where the CPU boots or waits
for the watchdog. The abstract state `late` is true when the measurement's end
and an abort cross: the device then finds its flag set in DONE, says "invalid
state transition" and resets (`LateFault`; main.c:411), and its table is lost.
It is the only way to that error.

A command without parameters is accepted (main.c:573): a measure command then
measures with what the buffer holds, and one to store parameters leaves a block
of length 0 in the EEPROM, with which the switch starts. Both runs let it come.
No table then has more parameters than the buffer, as its length is 0; but it is
the exception `MeasureUsesOwnParams` makes: of every other measure command, all
parameters are those of its frame.

### Countdown

The 16 bit counter as two bytes read in two steps, with the ISR in between. The
ISR of the single countdown is the one of the reloading countdown with one
interval. `MaxTicks` bounds the ticks between two readings of the low byte: the
code relies on a second being long, and the model says how long it must be (up
to 255 ticks keep it valid; with one tick the duration lags by one). That holds
of a counter that runs down once. Across a reload one tick between two readings
is the limit: with a timer value of 257, one reading may find 1, and the next the
low byte of 257 and, two ticks later, the high byte of 255; they agree in 1. No
second is that short. (A reading torn by a tick that leaves the high byte alone
may agree with the one before, contrary to the comment at
timer1-get-duration.c:64: harmless, the value is still one the counter held.)

### TimeSeries, ValueTable, Export, TimeSeriesExport

`Pulse` is `ISR(INT0_vect)`, `Second` is `ISR(TIMER1_COMPA_vect)`;
`send_table()` is five steps: header with the duration, announced size, size
read again, bytes, end. Addresses are relative to the table, elements have two
bytes. The history variables `seconds` and `arrived` say what really happened:
how often the clock ticked and how many pulses fell into each interval. A
reset, `Start` and the polls are those of `MainLoop`, reduced to what concerns
the table. `Base` stands for 256, so that counts wrap and elements have a low
and a high byte in small instances too.

`Export` is what the host makes of a received table: `TimeSeriesExport` lets it
compute the file of every frame that ends and compares it with what happened
(`FileTellsTruth`). Three things show there. The duration of an intermediate
table may belong to the element before its last one (main.c:174), which
`TimeFitsTable` bounds by one interval. A resent table of an aborted measurement
is taken for a complete one: its minimum includes the last, incomplete interval
(freemcan-export.c:267-272). And parameters are taken from a message only when
something follows them (`ofs+2 < param_buf_length` in packet-value-table.c): a
token must come with them, as it does in this host's commands.

### AdcPersonalities

Three personalities share timers, parameters and `send_table()`: samples kept in
a log, a histogram for a time, a histogram of external events. `Conversion` is
what they have in common of `ISR(ADC_vect)`; `TimedConversion` is the conversion
started by timer1, `CountPulse` one started by an external event. The routine
that stores samples writes before it compares, so that `StoresInBounds` is a
statement about all writes to come; after the flag is set the histogram's
routine goes on counting until the main program disables interrupts. Counts are
incremented in place, and sent byte by byte: `IntermediateIsClose` says how far
a torn one may be off. `converted` is the history of all conversions, `Kept`
what of it belongs into the table.

The sampling personality sends a table of no elements when it is asked, or
stopped, before its first sample; the host's assertion (packet-parser.c:151)
then ends the host's program. A timer value of 0, the check for which is
commented out (timer1-adc-trigger.c:251), counts as the largest one. The
registers of converter and timer are left to the hardware: whether a flag of the
trigger that is set before the automatic trigger is enabled would stall it, and
the read-modify-write of the converter's interrupt flag.

"Measurements lead to a reboot", says a `\bug` of the timed histogram
(perso-adc-int-mca-timed-trig.c:52). Nothing in the model does that, nor does the
source say why; so `MeasurementEnds` makes no claim about this personality, and
what is claimed of its tables is about the measurements that get as far. One
cause of odd measurements the model does have: `timer1-adc-trigger.c` asks
`personality_info` which parameters to take (lines 241 and 260) as if it were in
data memory, but `PERSONALITY()` puts it into program memory (data-table.h:67).
What is at that address decides, so `Parameters` lets the timer and the number
of samples to skip be taken from the block or not, the second also from the
block's beginning.

### GeigerStats, Beep, LcdNumbers, Lcd, GeigerDisplay

`Second` updates the ring buffer in the ISR; `display_count_stats` is the main
program's evaluation in seven steps: copy of the indices with interrupts off,
each element read as a low and a high byte with the ISR in between, the
estimate, the tests for a change of the rate, which cut the original's count and
leave the copy, which the next evaluation makes anew. `since` counts the seconds since a cut, `ticks` those that
passed in an evaluation; the code relies on an evaluation taking less than a
second or two, `MaxTicks` says so. `SumsAreOfNewest` then holds in spite of the
ISR, up to the one element it is overwriting. `Lcd` models the controller behind
the driver as far as the driver relies on it: what it expects next, its cursor
and its memory, so that the initialisation is right from whatever half of a byte
a reset left it in.

Left as the code has them: letters for a change, and the arrow of the averaging
range, are never cleared from the display; before the short average has enough
seconds nothing changes on it; the relative error (`reltol_lg`) is computed and
never shown; a dose rate of 100 µSv/h and more prints characters behind `9`;
squares and products of the tests are of 32 bits and would overflow at rates the
tube cannot count. The sums of the model are exact: no instance is near 2^32.

### HostFrameParser, Checksum and HostLink

A step of `HostFrameParser` is a call of `step_fsm()` with one byte, any byte.
`summed` stands for the checksum's accumulator: the bytes that went into it
since the last reset; whether a byte matches them is the constant operator
`Matches`. `handed` is the argument of the last step's
`packet_parser_handle_frame()`. `live` counts frames allocated and not freed,
the difference between `frame_new()` and the last `frame_unref()`; one is leaked
with every checksum error (`MemoryIsCounted`). `abort()` ends the program: a
frame that announces no payload does it (frame-parser.c:222), and nothing else.
The device sends one when its EEPROM was written without parameters and is read
back.

`HostLink` puts `frame_send()` and a line in front of the parser. A fault loses
or corrupts a byte or cuts the frame short (the device loses power); `hit` is
the history of the faults of a frame. A frame in front of which a stray byte
arrived need not be handed on: when the stray byte is the magic's first, the
frame's own first byte is consumed as a mismatch (frame-parser.c:182).
The instance gives `Matches` and `ChecksumOf` their code, `Checksum`, with bytes
of three bits and an accumulator of six. Corruption of the last payload byte or
of the checksum is always noticed (`CaughtAtEnd`); further in front it need not
be, since of the rotated accumulator only the low byte is sent: of a byte in
front of the last, a change of 32 (with eight bits) goes unnoticed.

### HostTui and HostSession

`pc` is the place in `main()`: opening the device, the loop's top, `select()`,
then the device's packets one by one, the standard input, the flags' test, the
ways out. Packets are whole frames (`HostLink` is about their bytes). What the
user, the cable, the device and the line do happens while the program waits in
`select()`, or at the other places where it looks at them (a key between
counting and reading the bytes, a signal around the test of its flag): elsewhere
a step of theirs is the same as one at the next such place. `HostSession` adds
the device, which is `DeviceFSM` and answers as that says, and a line that loses
frames in both directions. That `MainLoop` is such a device, and answers so, is
`FirmwareIsDevice`. Its switch starts measurements too (`SwitchStart`), for the
time the EEPROM holds, which the host need not know (`EepromTimers`), or says
that it cannot (`SwitchUseless`). The personality is chosen once and stays: a
device changed for another on the same cable is not in the model. History:
`lost`, `saved` (measurements whose final table is in a file), `run`, `begun`.

What it shows about the code, and is left as it is:

- An answer that is lost stays counted in `waiting_for`: after three the
  program takes the device for gone and asks no more. That it never does so
  without losses is `WaitsForWhatComes`, together with the guard of
  `HostTimeout`: when `select()` times out, after five seconds at least, nothing
  is on its way. A device slower than that is not in the model.
- A signal between the test of its flag and `select()` is not seen before
  `select()` returns; `ProgramEnds` names the place.
- A key pressed between the question how many bytes there are and their reading
  makes the assertion behind it fail (freemcan-tui.c:470, `ReadTooMuch`). No
  property denies it; every abort runs a handler that restores the terminal.
- `packet_parser_unref()` aborts when its assertion fails (line 98). That it does
  not, though `tui_fini()` runs at the end of `main()` and again from `exit()`,
  is `NothingReleasedTwice`. What is not given back it says too: at the end of
  the terminal, `exit()` leaves the device's reference to the parser, an abort
  leaves both, and the last personality info is never freed.
- A table that comes before the personality info aborts the program
  (packet-value-table.c:72). Besides after losses, it comes when a measurement
  ends by itself before the device has heard the program: one that was running
  already, or one the switch began at a device that was ready
  (`EarlyTableOnlyAtEnd`). A file that cannot be opened aborts the program too.
- A personality without a timer value reports a duration of 65535, of which the
  program makes an interval of 383 s (the `\bug` at freemcan-tui.c:114). The term
  for the size of the last frame (freemcan-tui.c:121) is 0 below 11520 bytes,
  more than a device's memory; the model leaves it out.
- Files are named by the second: of two tables in one second the later replaces
  the earlier. `saved` does not tell that.

Keys that only print, or dump bytes, are left out.

### HostLog

A line of the logged table is printed into 80 bytes without a check.
`PrintNumber` adds one number; `perline` is how many the code puts on a line,
given how wide the largest is. The numbers are of 32 bits, out of reach for TLC;
the theorem `LogLineFits` stands in for a run.

### Emulator

The Erlang state machine, the port program's `select()` loop step by step, and
the clients run side by side, with two pipes that keep bytes in order and know
no messages. The state machine handles one command at a time, each reply goes to
the pipe in two halves, every command sets the second's timeout anew. Clients
connect, send and hang up at any time. The emulator speaks a protocol older than
the device's (frames `H` and `S`, a measure command of two bytes): today's host
ends it. Shown by the model and left as they are: a second client while one is
connected aborts the port program; a client that hangs up while a reply is
written ends it by a signal; commands that are read together crash
`decode_cmd`; every command begins the second anew (the code's `FIXME`), so that
a client polling faster than once a second keeps a measurement from ending for
ever: `MeasurementEnds` is claimed for commands that cease (`CommandsCease`).
An instance ends its commands after `MaxCommands`; the specification need not.
Contents of histograms, commands with a bad checksum or unknown bytes, and
Erlang after the port program's end are left out.

## Runs

| Run | Shows | Bounds |
|---|---|---|
| `main_loop_programmed` | no table has more parameters than the buffer; measurements run with their own parameters; the firmware implements the device | magic of 2 bytes, 2 parameter bytes, buffer of 4; lengths below, at and above every limit, 0 too; power failures |
| `main_loop_any_host` | parser's bounds, lock, and the device with its liveness, whatever the surroundings do | any command, erased or programmed EEPROM, length 0 too; power failures |
| `erased_switch` | finding, below | the smallest instance with the case |
| `countdown` | `get_duration()` returns exact durations at the end, and otherwise ones that lag by the ticks of the last reading only | counters through a carry between the bytes (257), two intervals, one tick between readings |
| `time_series` | tables inside their memory, complete and consistent, up to the file; measurements end | table of 7 bytes (3 elements and a rest), intervals of 2 ticks, bytes of base 2 |
| `table_size` | finding, below | 5 bytes |
| `adc_personalities` | the same of samples and histograms, with counts that wrap and tear; measurements end, but for the timed histogram's | 7 bytes, 2 channels, timers of 4 values with 0 among them, 0 or 1 samples to skip, 6 conversions |
| `geiger_stats` | sums are of the newest seconds; numbers are right and readable; the display shows the last second; no tone goes on | buffer of 4 seconds, averages of 2 and 3, none or many pulses in a second, one second in an evaluation; too few for a high dose rate, which `NumbersAreRight` covers |
| `host_link` | whole and intact frames are handed on, corruption at the end is noticed, memory is counted, parser and device get back in step | 2 frames, payloads of none and of 4 bytes, the magic's second among them but no whole magic unless a fault makes one; 2 faults |
| `host_session` | answers are counted, parameters fit, nothing is released twice, when an early table comes | 2 of 8 keys, one mishap (loss, corruption, cable, power, signal, useless EEPROM), a Geiger counter that is ready or a logger that is done, its switch at any time |
| `host_progress` | polling adapts and ends, tables are saved, the program ends | 2 of 3 keys, one mishap, a device that is ready, its switch starting a measurement of another length than the host's |
| `emulator` | clients get replies whole and take turns, measurements end, commands are answered | 2 clients, 2 commands, measurements of one second |

The bounds suffice because the command parser's index only matters relative to
its limits, which the runs put at, below and above each other; a carry between
bytes needs one crossing of the byte's end; a table needs a first, an inner and
a last element and a rest; a ring buffer must turn around once, a count wrap
once. A session needs a start, a measurement and its end, which two keys and the
switch give, and one mishap at each of its points; two mishaps at once are not
looked at. A device that is measuring when the program starts is, for the
program, one whose switch is pressed at once, but for the state frame that tells
of it and may come late; the theorems hold of both. What the bounds may miss, the
proofs cover where they exist: they hold for all values of the constants.

The type invariants (`TypeOK`) are proved; those of `MainLoop`, `TimeSeries` and
`AdcPersonalities` are checked too, in `InBounds`. `DoneIsFrozen`, `ParamsKept`,
`EepromLengthValid`, `DurationIsValid`, `IndexInBounds`, `AbortsOnEmptyOnly` and
`SilentWhenOver` are proved for all constants and not checked again by a run.

**Fairness.** `MainLoop!FairSpec`, `TimeSeries!FairSpec`,
`AdcPersonalities!FairSpec` and `GeigerDisplay!DisplayFairSpec` say the CPU goes
on: the loop has no blocking call but the UART's "data register empty" wait and
the EEPROM's write wait, which end by themselves. They add that a timer goes on
while its interrupt is enabled: timer1 (`Second`, and `TimedConversion`, which it
starts), timer0 (`GateInterrupt`). Pulses and external events oblige nobody.
`Countdown!FairSpec` obliges the caller of `get_duration()` only; it returns
because the ISR leaves the counter alone once the measurement is over.
`HostLink!LinkFairSpec` lets bytes that are on the line arrive and the device go
on sending: `Recovers` is about a device that does (a host that gets no answer
asks again), and says nothing of one that falls silent. It also relies on a
checksum that is not always the magic's first byte: a parser out of step could
otherwise miss every frame. `HostSession!SessionFairSpec`: the host's program
runs, `select()` times out, a device answers commands that arrive and comes up
after a reset; user, switch, cable and the end of a measurement are not obliged, and
properties name what ends their promise (the cable pulled, polling switched off,
more than one loss). `EmulatorFairSpec`: both processes run; commands oblige
nobody. `Device!FairSpec`, which `ImplementsFairDevice` is about, says that a
device that boots or waits for its watchdog comes up, and nothing of a
measurement's end: that one ends is `MeasurementEnds`, of the personalities.

**Deadlock** is checked in every run of the firmware but `geiger_stats`, which
ends with its measurement. The host's program ends (`host_link`, `host_session`,
`host_progress`), and the emulator is idle without clients.

## Findings

1. `erased_switch` (main.c:291): a switch press in the middle of a frame
   overwrites the buffer; with an erased EEPROM the next measure command sends
   255 bytes of a 16 byte array with every table.
2. `table_size` (main.c:187): an intermediate table may hold one element more
   than announced; the host loses the frame.

Other behaviour a reader may not expect, and which the properties allow by name,
is described with the modules above: the abort that crosses the measurement's
end, commands without parameters, parameters asked for at the wrong address, the
`\bug` of the timed histogram, frames without payload, early tables, the key that
fails an assertion, resent tables' minima, a client that polls too fast.

## Proofs

All proofs hold for every value of the constants within the named assumptions.

*MainLoopProofs.* The inductive invariant is a conjunction of four groups, each
with its own step lemma: `ParserOK` (index, length and state of the parser
agree; needs nothing else), `BuffersOK` (blocks keep their shape; needs the
parser's bounds), `ControlOK` (device state, loop position, lock and interrupt
flags: `SwitchLockedOutsideReady` is not inductive without saying where a reset
is awaited), `SentOK`. `TablesInBounds` and `MeasureRunsOwnParams` need that no
block of the EEPROM is longer than the buffer (`Programmed(0)`), and nothing of
the host: any length byte, 0 included, keeps that so; `erased_switch` shows that
the assumption is necessary. `EepromStaysValid`, that the EEPROM's lengths stay
*usable*, needs that they were, and that no frame comes without parameters,
which would store a length of 0 (`Programmed(ParamSize)`).
`FirmwareIsDevice` maps every action to a step of `DeviceFSM` or a stutter, and
each handler of a command to what the device does with it (`CommandObeyed`). The
one command that takes longer than a step, the EEPROM's, is answered in two
parts, which together are the device's answer (`WriteAnswered`).

*CountdownProofs.* The invariant keeps the last reading of the counter between
the counter now and the counter when the low byte was read; two readings that
agree are then the same word, as words less than 256 apart that agree in the low
byte are equal. All but `DurationsAreValid` hold for any number of intervals and
ticks. In a counter that is reloaded, one tick between two readings leaves the
later one one below the earlier, or the earlier one 1 and the later the timer
value (`After`), and two readings that agree, torn or not, are what the counter
held when the later one began (`Ticking`, `CloseReadings`). `DurationsAreValid` assumes one interval or `MaxTicks <= 1`.
TLC found the case above, of two ticks around a reload, when that assumption was
tried without.

*TimeSeriesProofs.* The invariant ties the size to the write pointer and the
frame to the size: a frame that is not an intermediate one is sent with
interrupts off, so the two reads of the size agree. On it rest three more
groups, each inductive relative to those before it. `ClockOK`: seconds elapsed,
intervals completed and the time remembered by `send_table()` agree, of which
`TimeFitsTable` is the part that shows outside. Element for element the table
holds what arrived, modulo what two bytes hold; `SentOK` carries that to the
bytes sent. `PartOK` says the same of a table sent while the interrupts go on:
all but its last element are those that arrived. `FilesTellTheTruth` then
follows a frame that ends through `packet_value_table_new()` and
`export_time_series_vtable()`: two bytes read back to the number they were made
of, and the file's minimum and sum are those of the same numbers (`LeastOfMore`,
`SameSum`).

*AdcProofs.* `TableOK` says that the size is a whole number of elements, in the
sampling personality equal to the pointer, which is before the table's end as
long as conversions are triggered, and that no frame has more to send; `ModeOK`
relates device state, trigger, interrupts and timer. That a rounded end leaves
room for a whole element is arithmetic on a width that is not a literal:
`Division`. `StoreInv` says what the table holds of the history of conversions
(all kept samples in their order, or of each channel how many there were);
`SentInv` what the bytes sent so far hold of the table. In an intermediate
histogram a byte sent is that of a count between the one at the header and the
one now, so an element of any number of bytes can be off only by what came in
between and by the carries it crossed. The weights of the bytes are powers of
`Base`; `PowersAssumption` says of `^` what its definition says, as the prover
knows nothing of it.

*GeigerStatsProofs.* `TypeOK` (all indices in the buffer), `ForgetsBeforeChange`
and `SilentWhenOver` are inductive together: the count of valid seconds grows by
one with every second since it was cut (`ForgetsBeforeChange`); no pulse begins
a tone when interrupts are off. `SumsOfNewest` needs what each place of the ring
holds: counting backwards from the head, the newest seconds in their order, as
many as are valid. The evaluation walks back from its own copy of the head, and
its partial sum is that of the seconds it passed: the one place the ISR may
overwrite is the oldest, read last. It assumes `MaxTicks <= 1`, that an
evaluation takes less than a second or two, as the code does.

For the display (`DisplayIsRight`) the invariant says how far `lcd_init()` has
got after each of its transfers, whatever the controller expected when it began
(`BootOK`): until the fourth it takes either eight bits or halves, with perhaps
one left over from before the reset; then driver and controller are in step, and
each instruction is two transfers. From then on a text drawn is in its place and
changes nothing else, so the labels stay, the mark of the first test stays until
the second one's is drawn (`ScreenOK`), and as every number is a text of fixed
length, all of an earlier evaluation is overwritten. `DisplayOnlyShows` says that
every step of `GeigerDisplay` is one of `GeigerStats` or a stutter: all that is
proved of `GeigerStats` holds of the counter with its display.

`DisplayIsRight` is about where the texts are; that they are the right numbers is
`NumbersAreRight` (`NumbersHold`). It needs nothing of the evaluation but that
its results are numbers, and all of `LcdNumbers`: `c_sqrt32()` keeps the root
within one mask of `r` on both sides (`Near`), from 32768 down to 1, and the last
step decides;
`uint_to_ascii()` prints the digits by which the quotients by the powers of ten
differ (`Above`), and a blank where there is nothing above and the quotient is 0.
The root and the value of a text are recursive functions; `Recursion` proves that
such functions exist. The proof attempt corrected the property: an error of less
than one percent is 0, and one percent less than that was no lower bound.
The premises left are those of the code: six, three and five digits of room, and
a sum whose 3600-fold has 32 bits.

*HostFrameParserProofs.* The invariant (`Progress`) says for each state of the
parser which part of a frame the summed bytes are: a prefix of the magic, then
the magic and the bytes of the size, then these, the type and the payload up to
the offset. When the checksum is awaited the offset is the size, so what is
handed on is what was summed. The arithmetic of the size's two bytes needs the
uniqueness of division with remainder, as `Base` is any number. For `HostLink`
the parser's progress is compared with the device's: as long as no fault has hit
a frame that was sent to a waiting parser, the parser has summed what left the
line (`IntactFramesAreHanded`); when the only fault was in the payload's last
byte or the checksum, it comes to the checksum in step and finds it wrong. The
assumptions are that both sides compute the same checksum, and that it tells
frames apart that differ in the last byte.

*HostProofs.* For the session, the invariant counts what is under way: answers
in the line, commands not answered, replies the device owes, against
`WaitsForWhatComes`; which of terminal, packet parser and device are open at
each place of the program, so that every release finds a reference; and, for
`EarlyTableOnlyAtEnd`, what a device may have sent that has not heard the program
yet: the tables are those of measurements that ended by themselves, and there are
none if it was done from the beginning, as it leaves that state for a command, or
by a reset, after which it sends its personality info first. For the log, it bounds the length of the line by the
index, and a number's width for every number printed; the theorem then is one
inequality for each width.

For the emulator (`ClientsFollowEachOther`), the halves of replies are numbered
as they are sent. The invariant says that the pipe holds the last of them in
order, the half that waits being the next (`InOrder`); that only the client
connected has received any, and if it has, up to the last one taken from the pipe
(`OneClient`); that what `select()` found is still so when the port program acts
on it, whatever clients and state machine do meanwhile (`Found`); and that a
client `select()` found gone is disconnected before the listening socket is
looked at (`Gone`), which is the order of the three tests in the loop. The
property alone is not inductive: it says nothing of what was found.

*Division* holds an induction over numbers for sets (`SetInduction`): the
library's induction takes an operator as its parameter, which the installed
provers cannot instantiate.

Only model-checked: all liveness (`ImplementsFairDevice`, `UartPolled`,
`CallReturns`, `MeasurementEnds`, `ShowsTheNewest`, `ToneEnds`, `Recovers`,
`FinalTableSaved`, `PollingFollows`, `ProgramEnds`, `CommandIsAnswered`), as the
provers know neither fairness nor ENABLED. No safety property that a passing run
checks is left without a theorem.

## Not modelled

- `serial-setup.c`: calls of termios, no state of its own. Registers of UART,
  timers and converter, and the UART's receive FIFO of two bytes: hardware, whose
  losses `MainLoop` and `HostLink` allow anyway. `ISR-ADC_vect.S` is not linked.
- `init*` sections, unused pins, linker scripts: what runs before `main()` is an
  order the linker fixes.
- The display driver's delays, its busy flag, memory mapped mode and displays of
  one or four lines: the build of this device uses none of them.
- Floating point statistics, the wording and layout of files, log and messages,
  debugging keys and dumps of bytes.
- R and Perl scripts, `code-comparison/`, build files, documentation.
