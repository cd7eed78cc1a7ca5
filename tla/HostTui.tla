------------------------------- MODULE HostTui -------------------------------
(***************************************************************************)
(* The host's program freemcan-tui: its select() loop, its keys, timeouts  *)
(* and signals (hostware/freemcan-tui-main-select.c, freemcan-tui.c,       *)
(* freemcan-signals.c), the commands it writes and the packets it reads    *)
(* (freemcan-device.c, packet-parser.c, packet-value-table.c,              *)
(* personality-info.c) and the tables it saves (freemcan-export.c).        *)
(*                                                                         *)
(* The program is one thread, but the terminal, the device and signals go  *)
(* on between any two of its steps; where that matters a function is split *)
(* into its system calls.  Lines carry whole frames: HostLink has what     *)
(* happens to their bytes.                                                 *)
(***************************************************************************)
EXTENDS Naturals, Sequences

CONSTANTS
  Durations,  \* duration_list[] without the 0 at its end
  Keys,       \* the keys the user may press
  MaxKeys     \* bound: keys pressed

ASSUME TuiAssumption ==
  /\ Durations \in Seq(Nat \ {0}) /\ Len(Durations) > 0
  /\ MaxKeys \in Nat

VARIABLES
  pc,                  \* where the program is
  stdin_ready,         \* in_fdset: select() found keys, or the end of the terminal
  todo,                \* bytes read that have not been dealt with
  keyboard,            \* keys pressed and not read
  typed,               \* number of keys pressed
  hung_up,             \* the terminal is gone: end of file
  plugged,             \* the device's file is open at its other end
  up,                  \* packets on their way to the host
  down,                \* commands on their way to the device
  sigterm,             \* sigint or sigterm
  quit_flag,
  waiting_for,
  is_measuring,
  periodic_update_flag,
  periodic_update_interval,
  last_sent_duration,
  duration_index,
  skip_samples,
  write_next,          \* write_next_intermediate_packet
  personality_info,
  infos,               \* personality_info_t objects in memory
  packet_parser_refs,  \* references to the packet parser
  tui_fini_run,
  tty,                 \* mode of the terminal
  saved                \* measurements whose final table is in a file

control  == <<pc, stdin_ready, todo>>
user     == <<keyboard, typed, hung_up>>
flags    == <<sigterm, quit_flag>>
polling  == <<is_measuring, periodic_update_flag>>
timing   == <<periodic_update_interval, last_sent_duration>>
settings == <<duration_index, skip_samples, write_next>>
memory   == <<personality_info, infos, packet_parser_refs, tui_fini_run>>

tuiVars == <<control, user, plugged, up, down, flags, waiting_for, polling, timing,
             settings, memory, tty, saved>>

-----------------------------------------------------------------------------
(* What a personality tells of itself.  The null pointer is no personality.*)
NoInfo == [units_per_second |-> 0, timer_count |-> 0, skip_samples |-> 0]

(* The value -1 where a table has no duration, in the 16 bits it is kept.  *)
NoDuration == 65535

(* A packet: the frame, and of a table the duration in its parameters and  *)
(* (history) the number of the measurement it belongs to.                  *)
Packet(frame, total_duration, run) ==
  [frame |-> frame, total_duration |-> total_duration, run |-> run]

Parametrized(cmd, params) == [cmd |-> cmd, params |-> params]

Simple(cmd) == Parametrized(cmd, <<>>)

(* 1.5 times the square root of the duration in seconds, five at least.    *)
IntervalFor(duration, info) ==
  IF duration = 0 \/ info = NoInfo THEN 20
  ELSE LET u == info.units_per_second
           root == CHOOSE n \in 0 .. 400 : 4 * n * n * u <= 9 * duration
                                           /\ 9 * duration < 4 * (n + 1) * (n + 1) * u
       IN IF root < 5 THEN 5 ELSE root

recalculate_periodic_interval(duration) ==
  periodic_update_interval' = IntervalFor(duration, personality_info)

-----------------------------------------------------------------------------
TuiInit ==
  /\ pc = "start" /\ stdin_ready = FALSE /\ todo = 0
  /\ keyboard = <<>> /\ typed = 0 /\ hung_up = FALSE /\ plugged = TRUE
  /\ up = <<>> /\ down = <<>>
  /\ sigterm = FALSE /\ quit_flag = FALSE
  /\ waiting_for = 0 /\ is_measuring = FALSE /\ periodic_update_flag = FALSE
  /\ periodic_update_interval = 20 /\ last_sent_duration = 0
  /\ duration_index = 1 /\ skip_samples = 0 /\ write_next = FALSE
  /\ personality_info = NoInfo /\ infos = 0
  /\ packet_parser_refs = 0 /\ tui_fini_run = FALSE
  /\ tty = "cooked" /\ saved = {}

Goto(label) == pc' = label /\ UNCHANGED <<stdin_ready, todo>>

(* The terminal: the mode it had is saved when it is made raw, and is the  *)
(* one it is given back.                                                   *)
tty_raw   == tty' = "raw"
tty_reset == tty' = "cooked"

(* abort(), and its signal's handler, which restores the terminal.         *)
Abort ==
  /\ Goto("aborted") /\ tty_reset
  /\ UNCHANGED <<user, plugged, up, down, flags, waiting_for, polling, timing, settings,
                 memory, saved>>

(* A reference is given back, and the program goes on; assert(refs > 0)    *)
(* aborts it.                                                              *)
packet_parser_unref(next) ==
  IF packet_parser_refs > 0 THEN packet_parser_refs' = packet_parser_refs - 1 /\ next
  ELSE Goto("aborted") /\ tty_reset /\ UNCHANGED <<packet_parser_refs, tui_fini_run>>

\* Mutant: it runs as often as it is called.
tui_fini_Twice(label) ==
  packet_parser_unref(Goto(label) /\ tui_fini_run' = TRUE /\ tty_reset)

tui_fini(label) ==
  IF tui_fini_run THEN Goto(label) /\ UNCHANGED <<packet_parser_refs, tui_fini_run, tty>>
  ELSE packet_parser_unref(Goto(label) /\ tui_fini_run' = TRUE /\ tty_reset)

(* tui_init() and frame_parser_new(), which takes a second reference.      *)
StartTui ==
  /\ pc = "start" /\ Goto("open")
  /\ tty_raw /\ packet_parser_refs' = 2
  /\ UNCHANGED <<user, plugged, up, down, flags, waiting_for, polling, timing, settings,
                 personality_info, infos, tui_fini_run, saved>>

\* Mutant: the personality info is not asked for.
DeviceOpen_NoInfo ==
  /\ pc = "open" /\ plugged /\ Goto("loop")
  /\ down' = down \o <<Simple("s")>> /\ waiting_for' = waiting_for + 1
  /\ UNCHANGED <<user, plugged, up, flags, polling, timing, settings, memory, tty, saved>>

(* The port opens, and the first two commands are sent.                    *)
DeviceOpen ==
  /\ pc = "open" /\ plugged /\ Goto("loop")
  /\ down' = down \o <<Simple("f"), Simple("s")>> /\ waiting_for' = waiting_for + 2
  /\ UNCHANGED <<user, plugged, up, flags, polling, timing, settings, memory, tty, saved>>

DeviceMissing == pc = "open" /\ Abort

-----------------------------------------------------------------------------
(* The loop: from the test of the flags to the call of select(), the call  *)
(* itself, and what it returns.                                            *)
DeviceReady == up # <<>> \/ ~plugged
StdinReady == keyboard # <<>> \/ hung_up

EnterSelect ==
  /\ pc = "loop" /\ Goto("select")
  /\ UNCHANGED <<user, plugged, up, down, flags, waiting_for, polling, timing, settings,
                 memory, tty, saved>>

SelectReady ==
  /\ pc = "select" /\ (DeviceReady \/ StdinReady)
  /\ pc' = (IF DeviceReady THEN "device" ELSE "stdin")
  /\ stdin_ready' = StdinReady /\ UNCHANGED todo
  /\ UNCHANGED <<user, plugged, up, down, flags, waiting_for, polling, timing, settings,
                 memory, tty, saved>>

Send(command) == down' = Append(down, command) /\ waiting_for' = waiting_for + 1

GivesUp == waiting_for > 2

(* tui_do_timeout()                                                        *)
SelectTimeout ==
  /\ pc = "select" /\ ~DeviceReady /\ ~StdinReady /\ periodic_update_flag /\ Goto("test")
  /\ is_measuring' = (is_measuring /\ ~GivesUp)
  /\ IF is_measuring' THEN Send(Simple("i")) ELSE UNCHANGED <<down, waiting_for>>
  /\ UNCHANGED <<user, plugged, up, flags, periodic_update_flag, timing, settings, memory,
                 tty, saved>>

(* A signal; select() returns with EINTR, elsewhere only the flag is set.  *)
Signal ==
  /\ pc \in {"loop", "select", "test"} /\ ~sigterm /\ sigterm' = TRUE
  /\ Goto(IF pc = "select" THEN "test" ELSE pc)
  /\ UNCHANGED <<user, plugged, up, down, quit_flag, waiting_for, polling, timing, settings,
                 memory, tty, saved>>

\* Mutant: only the key is looked at.
TestFlags_NoSignal ==
  /\ pc = "test" /\ pc' = (IF quit_flag THEN "cleanup" ELSE "loop")
  /\ stdin_ready' = FALSE /\ UNCHANGED todo
  /\ UNCHANGED <<user, plugged, up, down, flags, waiting_for, polling, timing, settings,
                 memory, tty, saved>>

TestFlags ==
  /\ pc = "test" /\ pc' = (IF sigterm \/ quit_flag THEN "cleanup" ELSE "loop")
  /\ stdin_ready' = FALSE /\ UNCHANGED todo
  /\ UNCHANGED <<user, plugged, up, down, flags, waiting_for, polling, timing, settings,
                 memory, tty, saved>>

(* There is one reference to the frame parser, which has one to the packet *)
(* parser.                                                                 *)
frame_parser_unref(label) ==
  packet_parser_unref(Goto(label) /\ UNCHANGED <<tui_fini_run, tty>>)

(* device_unref()                                                          *)
Cleanup ==
  /\ pc = "cleanup" /\ frame_parser_unref("fini")
  /\ UNCHANGED <<user, plugged, up, down, flags, waiting_for, polling, timing, settings,
                 personality_info, infos, saved>>

Fini ==
  /\ pc = "fini" /\ tui_fini("atexit")
  /\ UNCHANGED <<user, plugged, up, down, flags, waiting_for, polling, timing, settings,
                 personality_info, infos, saved>>

AtExit ==
  /\ pc = "atexit" /\ tui_fini("exited")
  /\ UNCHANGED <<user, plugged, up, down, flags, waiting_for, polling, timing, settings,
                 personality_info, infos, saved>>

-----------------------------------------------------------------------------
(* device_do_io(): as many bytes as there were are read.                   *)
DeviceIo ==
  /\ pc = "device" /\ up # <<>>
  /\ pc' = "packet" /\ todo' = Len(up) /\ UNCHANGED stdin_ready
  /\ UNCHANGED <<user, plugged, up, down, flags, waiting_for, polling, timing, settings,
                 memory, tty, saved>>

DeviceEof == pc = "device" /\ up = <<>> /\ Abort

\* Mutant: the interval is left as it is.
Handle_KeepInterval(kind) ==
  /\ pc = "packet" /\ Head(up).frame[1] = kind
  /\ up' = Tail(up) /\ todo' = todo - 1 /\ UNCHANGED stdin_ready
  /\ pc' = (IF todo > 1 THEN "packet" ELSE IF stdin_ready THEN "stdin" ELSE "test")
  /\ UNCHANGED periodic_update_interval

(* packet_parser_handle_frame(), called for a frame of this kind; every    *)
(* frame has the interval recalculated before.                             *)
Handle(kind) ==
  /\ pc = "packet" /\ Head(up).frame[1] = kind
  /\ up' = Tail(up) /\ todo' = todo - 1 /\ UNCHANGED stdin_ready
  /\ pc' = (IF todo > 1 THEN "packet" ELSE IF stdin_ready THEN "stdin" ELSE "test")
  /\ recalculate_periodic_interval(last_sent_duration)

\* Mutant: answers are not counted.
Answered_Never == waiting_for' = waiting_for

Answered == waiting_for' = (IF waiting_for > 0 THEN waiting_for - 1 ELSE 0)

\* Mutant: the end of a measurement is not taken in.
StatePacket_StillMeasuring ==
  /\ Handle("state") /\ Answered
  /\ is_measuring' = (is_measuring \/ Head(up).frame[2] = "MEASURING")
  /\ UNCHANGED <<user, plugged, down, flags, periodic_update_flag, last_sent_duration,
                 settings, memory, tty, saved>>

StatePacket ==
  /\ Handle("state") /\ Answered
  /\ is_measuring' = (Head(up).frame[2] = "MEASURING")
  /\ UNCHANGED <<user, plugged, down, flags, periodic_update_flag, last_sent_duration,
                 settings, memory, tty, saved>>

TextPacket ==
  /\ Handle("text") /\ Answered
  /\ UNCHANGED <<user, plugged, down, flags, polling, last_sent_duration, settings, memory,
                 tty, saved>>

ParamsPacket ==
  /\ Handle("params")
  /\ UNCHANGED <<user, plugged, down, flags, waiting_for, polling, last_sent_duration,
                 settings, memory, tty, saved>>

(* The objects that are freed: there is one reference to each.             *)
personality_info_unref(info) == IF info = NoInfo THEN 0 ELSE 1

\* Mutant: the old object is not freed.
InfoPacket_Leak(info) ==
  /\ Handle("info")
  /\ personality_info' = info
  /\ infos' = infos + 1
  /\ UNCHANGED <<user, plugged, down, flags, waiting_for, polling, last_sent_duration,
                 settings, packet_parser_refs, tui_fini_run, tty, saved>>

(* The new object replaces the one kept, which is freed.                   *)
InfoPacket(info) ==
  /\ Handle("info")
  /\ personality_info' = info
  /\ infos' = infos + 1 - personality_info_unref(personality_info)
  /\ UNCHANGED <<user, plugged, down, flags, waiting_for, polling, last_sent_duration,
                 settings, packet_parser_refs, tui_fini_run, tty, saved>>

\* Mutant: a table that is sent again is not saved.
TablePacket_OnlyDone ==
  LET table == Head(up)
      final == table.frame[2] = "done"
  IN
  /\ personality_info # NoInfo
  /\ Handle("table") /\ Answered
  /\ last_sent_duration' = table.total_duration
  /\ saved' = (IF final THEN saved \cup {table.run} ELSE saved)
  /\ write_next' = FALSE
  /\ UNCHANGED <<user, plugged, down, flags, polling, duration_index, skip_samples, memory, tty>>

(* packet_value_table_new(), packet_handler_value_table() and              *)
(* export_value_table(): a final table is saved, an intermediate one if    *)
(* the user asked for it.                                                  *)
TablePacket ==
  LET table == Head(up)
      final == table.frame[2] # "intermediate"
  IN
  /\ personality_info # NoInfo
  /\ Handle("table") /\ Answered
  /\ last_sent_duration' = table.total_duration
  /\ saved' = (IF final THEN saved \cup {table.run} ELSE saved)
  /\ write_next' = FALSE
  /\ UNCHANGED <<user, plugged, down, flags, polling, duration_index, skip_samples, memory, tty>>

(* abort() without a personality info; assert(datfile) without a file.     *)
TableTooEarly ==
  /\ pc = "packet" /\ Head(up).frame[1] = "table" /\ personality_info = NoInfo
  /\ Abort

TableNotWritten ==
  /\ pc = "packet" /\ Head(up).frame[1] = "table" /\ personality_info # NoInfo
  /\ write_next \/ Head(up).frame[2] # "intermediate"
  /\ Abort

-----------------------------------------------------------------------------
(* tui_do_io(): the number of bytes is asked for, then the bytes are read  *)
(* into a buffer with room for one more.                                   *)
StdinIo ==
  /\ pc = "stdin" /\ keyboard # <<>>
  /\ pc' = "read" /\ todo' = Len(keyboard) /\ UNCHANGED stdin_ready
  /\ UNCHANGED <<user, plugged, up, down, flags, waiting_for, polling, timing, settings,
                 memory, tty, saved>>

(* End of file: exit(), which runs atexit_func().                          *)
StdinEof ==
  /\ pc = "stdin" /\ keyboard = <<>> /\ Goto("atexit")
  /\ UNCHANGED <<user, plugged, up, down, flags, waiting_for, polling, timing, settings,
                 memory, tty, saved>>

Read ==
  /\ pc = "read" /\ Len(keyboard) = todo /\ Goto("key")
  /\ UNCHANGED <<user, plugged, up, down, flags, waiting_for, polling, timing, settings,
                 memory, tty, saved>>

(* A key was pressed since: assert(read_bytes == bytes_to_read) fails.     *)
ReadTooMuch == pc = "read" /\ Len(keyboard) > todo /\ Abort

Key(keys) ==
  /\ pc = "key" /\ Head(keyboard) \in keys
  /\ keyboard' = Tail(keyboard) /\ todo' = todo - 1 /\ UNCHANGED <<stdin_ready, typed, hung_up>>
  /\ pc' = (IF todo = 1 THEN "test" ELSE "key")

KeyQuit ==
  /\ Key({"q"}) /\ quit_flag' = TRUE
  /\ UNCHANGED <<plugged, up, down, sigterm, waiting_for, polling, timing, settings, memory,
                 tty, saved>>

KeyPeriodic ==
  /\ Key({"p"}) /\ periodic_update_flag' = ~periodic_update_flag
  /\ IF periodic_update_flag'
     THEN recalculate_periodic_interval(last_sent_duration) /\ Send(Simple("i"))
     ELSE UNCHANGED <<periodic_update_interval, down, waiting_for>>
  /\ UNCHANGED <<plugged, up, flags, is_measuring, last_sent_duration, settings, memory, tty,
                 saved>>

(* The durations and numbers of samples the user chooses from.             *)
Adjusted(key) ==
  CASE key = "." -> <<duration_index, skip_samples + 1>>
    [] key = "," -> <<duration_index, IF skip_samples > 0 THEN skip_samples - 1 ELSE 0>>
    [] key = "+" -> <<IF duration_index < Len(Durations) THEN duration_index + 1
                      ELSE duration_index, skip_samples>>
    [] key = "-" -> <<IF duration_index > 1 THEN duration_index - 1 ELSE 1, skip_samples>>

KeySettings ==
  /\ Key({".", ",", "+", "-"})
  /\ duration_index' = Adjusted(Head(keyboard))[1]
  /\ skip_samples' = Adjusted(Head(keyboard))[2]
  /\ UNCHANGED <<plugged, up, down, flags, waiting_for, polling, timing, write_next, memory,
                 tty, saved>>

KeySimple ==
  /\ Key({"a", "r", "s", "i", "f", "E"}) /\ Send(Simple(Head(keyboard)))
  /\ UNCHANGED <<plugged, up, flags, polling, timing, settings, memory, tty, saved>>

KeyWrite ==
  /\ Key({"w"}) /\ write_next' = TRUE /\ Send(Simple("i"))
  /\ UNCHANGED <<plugged, up, flags, polling, timing, duration_index, skip_samples, memory,
                 tty, saved>>

\* Mutant: the size of the second parameter is not looked at.
Parameters_NoSize(info, duration) ==
  (IF info.timer_count = 2 THEN <<duration>> ELSE <<>>) \o
  <<skip_samples % 65536>>

(* tui_send_parametrized_command(): the parameters the personality takes.  *)
Parameters(info, duration) ==
  (IF info.timer_count = 2 THEN <<duration>> ELSE <<>>) \o
  (IF info.skip_samples = 2 THEN <<skip_samples % 65536>> ELSE <<>>)

KeyParametrized ==
  /\ Key({"m", "e"})
  /\ last_sent_duration' = Durations[duration_index]
  /\ recalculate_periodic_interval(last_sent_duration')
  /\ LET params == Parameters(personality_info, last_sent_duration') IN
       IF params # <<>> THEN Send(Parametrized(Head(keyboard), params))
       ELSE UNCHANGED <<down, waiting_for>>
  /\ UNCHANGED <<plugged, up, flags, polling, settings, memory, tty, saved>>

-----------------------------------------------------------------------------
(* The user and the cable.  Where the program looks at nothing outside, a  *)
(* step of theirs is the same as one when it looks next.                   *)
Surroundings == <<control, up, down, flags, waiting_for, polling, timing, settings, memory,
                  tty, saved>>

Press(key) ==
  /\ pc \in {"select", "read"} /\ typed < MaxKeys /\ ~hung_up
  /\ keyboard' = Append(keyboard, key) /\ typed' = typed + 1
  /\ UNCHANGED <<Surroundings, hung_up, plugged>>

HangUp ==
  /\ pc = "select" /\ ~hung_up /\ hung_up' = TRUE
  /\ UNCHANGED <<Surroundings, keyboard, typed, plugged>>

Unplug ==
  /\ pc = "select" /\ plugged /\ plugged' = FALSE
  /\ UNCHANGED <<Surroundings, user>>

(* What the program does by itself, waiting in select() apart.             *)
TuiStep ==
  \/ StartTui \/ DeviceOpen \/ EnterSelect \/ SelectReady \/ TestFlags
  \/ Cleanup \/ Fini \/ AtExit \/ DeviceIo \/ DeviceEof
  \/ StatePacket \/ TextPacket \/ ParamsPacket \/ TablePacket \/ TableTooEarly
  \/ StdinIo \/ StdinEof \/ Read \/ ReadTooMuch
  \/ KeyQuit \/ KeyPeriodic \/ KeySettings \/ KeySimple \/ KeyWrite \/ KeyParametrized

Failure == DeviceMissing \/ TableNotWritten

Ended == pc \in {"exited", "aborted"}

=============================================================================
