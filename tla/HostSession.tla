----------------------------- MODULE HostSession -----------------------------
(***************************************************************************)
(* The host's program at work with a device: HostTui and DeviceFSM (which  *)
(* MainLoop implements) with a serial line in between that loses frames.   *)
(*                                                                         *)
(* The device answers the commands as firmware_handle_command() does, its  *)
(* switch starts measurements too, they end by themselves, and its power   *)
(* may fail.  While it boots or waits for the watchdog it hears nothing.   *)
(***************************************************************************)
EXTENDS HostTui, FiniteSets

CONSTANTS
  Personalities,  \* personalities a device may have
  EepromTimers,   \* timers the device's EEPROM may hold for a measurement
  BeginsIn,       \* states each may be in when the host's program starts
  MaxMishaps      \* bound: frames lost or corrupted, power failures of the device,
                  \* its switch pressed with a useless EEPROM, its cable or the
                  \* terminal lost, signals

ASSUME SessionAssumption ==
  /\ NoInfo \notin Personalities
  /\ EepromTimers \subseteq Nat
  /\ BeginsIn \in [Personalities -> SUBSET {"READY", "MEASURING", "DONE"}]
  /\ MaxMishaps \in Nat

VARIABLES
  mode, late, said, \* the device: see DeviceFSM
  personality,      \* the device's
  duration,         \* parameter of the measurement started last
  run,              \* history: its number
  begun,            \* history: state of the device when the host's program started
  lost,             \* history: frames lost, commands not heard
  mishaps           \* mishaps so far

Device == INSTANCE DeviceFSM

deviceVars  == <<mode, late, personality, duration, run>>
historyVars == <<begun, lost, mishaps>>
sessionVars == <<tuiVars, deviceVars, said, historyVars>>

-----------------------------------------------------------------------------
SessionInit ==
  /\ TuiInit
  /\ personality \in Personalities /\ run = 1
  /\ mode \in BeginsIn[personality] /\ begun = mode /\ late = FALSE /\ said = <<>>
  /\ duration = (IF personality.timer_count = 2 THEN Durations[1] ELSE NoDuration)
  /\ lost = 0 /\ mishaps = 0

(* Steps of the host's program.                                            *)
Host(step) == step /\ said' = <<>> /\ UNCHANGED <<deviceVars, historyVars>>

HostProgram == Host(TuiStep \/ InfoPacket(personality))
(* Assumed of the line and the device: the interval is five seconds at     *)
(* least, by then the device has come up and answered what it has heard.   *)
HostTimeout == down = <<>> /\ mode \in Device!Up /\ Host(SelectTimeout)

HostFailure == Host(Failure)
User == Host(\E key \in Keys : Press(key))

(* At most so many things go wrong.                                        *)
Mishap(n) == mishaps' = mishaps + n /\ mishaps' <= MaxMishaps

UserMishap ==
  /\ Signal \/ HangUp \/ Unplug
  /\ Mishap(1) /\ said' = <<>> /\ UNCHANGED <<deviceVars, begun, lost>>

(* Steps of the device and of the line; see the remark at Surroundings.    *)
HostUnchanged ==
  /\ pc = "select"
  /\ UNCHANGED <<control, user, plugged, flags, waiting_for, polling, timing, settings,
                 memory, tty, saved>>

(* What the device says is sent; the line loses some of it.                *)
Sent ==
  \E n \in 0 .. Len(said') : \E kept \in [1 .. n -> DOMAIN said'] :
    /\ \A i, j \in 1 .. n : i < j => kept[i] < kept[j]
    /\ Mishap(Len(said') - n) /\ lost' = lost + (Len(said') - n)
    /\ up' = up \o [k \in 1 .. n |-> Packet(said'[kept[k]], duration, run)]

-----------------------------------------------------------------------------
(* Commands that are answered and leave the state as it is.               *)
ServeCommand ==
  /\ plugged /\ down # <<>> /\ down' = Tail(down)
  /\ mode \in Device!Up /\ said' \in Device!Answers(Head(down).cmd) /\ Device!Serve /\ Sent
  /\ UNCHANGED <<personality, duration, run, begun>> /\ HostUnchanged

(* Commands that change the state.                                         *)
StartMeasurement ==
  /\ plugged /\ down # <<>> /\ down' = Tail(down)
  /\ Head(down).cmd = "m"
  /\ Device!Start /\ Sent
  /\ duration' = (IF personality.timer_count = 2 THEN Head(down).params[1] ELSE NoDuration)
  /\ run' = run + 1
  /\ UNCHANGED <<personality, begun>> /\ HostUnchanged

AbortMeasurement ==
  /\ plugged /\ down # <<>> /\ down' = Tail(down)
  /\ Head(down).cmd = "a" /\ Device!Abort /\ Sent
  /\ UNCHANGED <<personality, duration, run, begun>> /\ HostUnchanged

ResetDevice ==
  /\ plugged /\ down # <<>> /\ down' = Tail(down)
  /\ Head(down).cmd = "r" /\ Device!Reset /\ Sent
  /\ UNCHANGED <<personality, duration, run, begun>> /\ HostUnchanged

(* A command damaged on the line: its checksum or length is wrong.         *)
CorruptCommand ==
  /\ plugged /\ down # <<>> /\ down' = Tail(down) /\ Mishap(1) /\ lost' = lost + 1
  /\ said' = <<<<"text", "checksum fail">>>> /\ Device!Serve
  /\ up' = Append(up, Packet(said'[1], duration, run))
  /\ UNCHANGED <<personality, duration, run, begun>> /\ HostUnchanged

LoseCommand ==
  /\ down # <<>> /\ down' = Tail(down) /\ Mishap(1) /\ lost' = lost + 1 /\ said' = <<>>
  /\ UNCHANGED <<deviceVars, begun, up>> /\ HostUnchanged

(* A device that boots or waits for the watchdog does not listen.          *)
NotHeard ==
  /\ down # <<>> /\ down' = Tail(down) /\ mode \notin Device!Up
  /\ lost' = lost + 1 /\ said' = <<>>
  /\ UNCHANGED <<deviceVars, begun, mishaps, up>> /\ HostUnchanged

(* What the device does by itself.                                         *)
DeviceByItself ==
  /\ plugged
  /\ Device!Announce \/ Device!Finish \/ Device!LateFault \/ (mode = "RESET" /\ Device!Reboot)
  /\ Sent
  /\ UNCHANGED <<personality, duration, run, begun, down>> /\ HostUnchanged

(* The switch: a measurement with the parameters of the EEPROM, or a text  *)
(* if they cannot be used.                                                 *)
SwitchStart ==
  /\ plugged /\ Device!Start /\ Sent
  /\ IF personality.timer_count = 2 THEN duration' \in EepromTimers
     ELSE duration' = NoDuration
  /\ run' = run + 1
  /\ UNCHANGED <<personality, begun, down>> /\ HostUnchanged

SwitchUseless ==
  /\ plugged /\ mode = "READY" /\ Mishap(1)
  /\ \/ said' = <<<<"text", "invalid EEPROM data">>, Device!State("READY")>> /\ Device!Serve
     \/ personality.timer_count = 2 /\ Device!TimerFault
  /\ up' = up \o [k \in DOMAIN said' |-> Packet(said'[k], duration, run)]
  /\ UNCHANGED <<personality, duration, run, begun, lost, down>> /\ HostUnchanged

PowerCut ==
  /\ Mishap(1) /\ mode \in Device!Up /\ Device!Reboot
  /\ UNCHANGED <<personality, duration, run, begun, lost, up, down>> /\ HostUnchanged

DeviceAnswers == ServeCommand \/ StartMeasurement \/ AbortMeasurement \/ ResetDevice

SessionNext ==
  \/ HostProgram \/ HostTimeout \/ HostFailure \/ User \/ UserMishap
  \/ DeviceAnswers \/ CorruptCommand \/ LoseCommand \/ NotHeard
  \/ DeviceByItself \/ SwitchStart \/ SwitchUseless \/ PowerCut

SessionSpec == SessionInit /\ [][SessionNext]_sessionVars

(***************************************************************************)
(* The program goes on, select() times out when nothing comes, the device  *)
(* answers and comes up.  Nothing obliges the user, the switch, the end of *)
(* a measurement or the cable; DeviceByItself is weakly fair in what follows *)
(* a reset only.                                                           *)
(***************************************************************************)
ComesUp == mode \in {"booting", "RESET"} /\ DeviceByItself

SessionFairSpec ==
  /\ SessionSpec
  /\ WF_sessionVars(HostProgram) /\ WF_sessionVars(HostTimeout)
  /\ WF_sessionVars(DeviceAnswers) /\ WF_sessionVars(ComesUp)

-----------------------------------------------------------------------------

(***************************************************************************)
(* The program never waits for more answers than commands and answers are  *)
(* under way, plus what was lost.  A timeout finds nothing under way (see  *)
(* HostTimeout: no device is slower than the interval), so the program     *)
(* gives up on a device (waiting_for > 2 in tui_do_timeout()) only after   *)
(* losses.                                                                 *)
(***************************************************************************)
Counted(packet) == packet.frame[1] \in {"state", "text", "table"}

CountedIn(packets) == {i \in DOMAIN packets : Counted(packets[i])}

WaitsForWhatComes == waiting_for <= Len(down) + Cardinality(CountedIn(up)) + lost

(***************************************************************************)
(* However the program ends, the terminal is as it was and no assertion of *)
(* packet_parser_unref() fails: the parser's two references are both given *)
(* back at the end of main(), though exit() calls tui_fini() once more.    *)
(* At the end of the terminal exit() gives one back, the device keeps its  *)
(* own; a program that aborts keeps both.  Of all personality infos        *)
(* received one is in memory.                                              *)
(***************************************************************************)
NothingReleasedTwice ==
  /\ Ended => tty = "cooked"
  /\ pc = "exited" => packet_parser_refs = (IF stdin_ready THEN 1 ELSE 0)
  /\ pc = "aborted" => packet_parser_refs = 2
  /\ infos = (IF personality_info = NoInfo THEN 0 ELSE 1)

(***************************************************************************)
(* A measure command carries the parameters the personality reads, no more *)
(* and no fewer: the device would take a token's bytes for parameters.     *)
(***************************************************************************)
ParametersFit ==
  \A i \in DOMAIN down : down[i].cmd \in {"m", "e"} =>
    Len(down[i].params) = (IF personality.timer_count = 2 THEN 1 ELSE 0)
                          + (IF personality.skip_samples = 2 THEN 1 ELSE 0)

(***************************************************************************)
(* A table before the personality info aborts the program.  Unless frames  *)
(* were lost ("so it drops the command frames", says packet-value-table.c) *)
(* it is never an intermediate, aborted or repeated one, but that of a     *)
(* measurement that ended by itself before the device heard the program's  *)
(* first command: it was running already, or the switch started it.  A     *)
(* device that had finished when the program started sends none.           *)
(***************************************************************************)
EarlyTable ==
  pc = "packet" /\ personality_info = NoInfo /\ Head(up).frame[1] = "table"

EarlyTableOnlyAtEnd ==
  EarlyTable => lost > 0 \/ (begun # "DONE" /\ Head(up).frame[2] = "done")

(***************************************************************************)
(* A program that polls a device saves its final table, also when the      *)
(* table is lost at the end: a program that still takes the device to be   *)
(* measuring when nothing is under way asks, and gets it again.            *)
(***************************************************************************)
Polled == is_measuring /\ periodic_update_flag

FinalTableSaved ==
  mode = "DONE" /\ Polled /\ up = <<>> /\ down = <<>> ~>
    \/ run \in saved
    \/ lost > 1 \/ ~periodic_update_flag \/ mode # "DONE" \/ ~plugged \/ Ended

(***************************************************************************)
(* The polling follows the device: its interval comes to fit the           *)
(* measurement that runs, also one that was going on before the program    *)
(* started, and it stops at the measurement's end, which the device tells  *)
(* by no state.                                                            *)
(***************************************************************************)
IntervalFits == periodic_update_interval = IntervalFor(duration, personality)

PollingFollows ==
  /\ mode = "MEASURING" /\ Polled ~>
       IntervalFits \/ ~Polled \/ mode # "MEASURING" \/ ~plugged \/ Ended
  /\ mode = "DONE" /\ Polled ~> ~Polled \/ mode # "DONE" \/ ~plugged \/ Ended

(***************************************************************************)
(* A key, the end of the terminal or a signal ends the program; a signal   *)
(* between the test of its flag and select() only when select() returns.   *)
(***************************************************************************)
ProgramEnds ==
  /\ quit_flag \/ hung_up ~> Ended
  /\ sigterm ~> Ended \/ (pc = "select" /\ ~periodic_update_flag)

=============================================================================
