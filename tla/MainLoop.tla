------------------------------- MODULE MainLoop -------------------------------
(***************************************************************************)
(* The firmware's main program, firmware/main.c: the event loop that polls *)
(* the "measurement finished" flag, the hardware switch and the UART, the  *)
(* byte-wise parser of command frames inlined into it, and the handlers    *)
(* of the device state machine.                                            *)
(*                                                                         *)
(* One step of the loop runs from one of its polls to the next; between    *)
(* two polls the personality's interrupt service routine may run           *)
(* (MeasurementElapsed), and power may fail at any time (PowerCycle).      *)
(* What a byte from the UART holds is chosen when the parser reads it, so  *)
(* the model covers every host and every loss or corruption on the line.   *)
(***************************************************************************)
EXTENDS Integers, Sequences

CONSTANTS
  MagicLen,       \* length of FRAME_MAGIC_STR
  ParamSize,      \* personality_param_size: parameter bytes the personality needs
  MaxParam,       \* MAX_PARAM_LENGTH: size of the params array
  MinTimer,       \* smallest timer value the personality starts with
  ParamBytes,     \* bytes the host may send as parameters
  LengthBytes,    \* bytes the host may send as parameter length
  Commands,       \* bytes the host may send as command
  EepromContents, \* what the EEPROM may hold when power is first applied
  PowerFails      \* whether the power supply may fail

Byte == 0 .. 255

(***************************************************************************)
(* personality_param_t as it lies in memory and in the EEPROM: a cell with *)
(* the number of parameter bytes in use, then MaxParam parameter bytes.    *)
(***************************************************************************)
Cell == 0 .. MaxParam
ParamBlock == [Cell -> Byte]
LengthCell == 0
ParamCell(i) == i + 1

KnownCommand == {"m", "e", "E", "f", "i", "a", "s", "r"}

ASSUME ConstantsAssumption ==
  /\ MagicLen \in Nat \ {0}
  /\ ParamSize \in Nat \ {0, 1}
  /\ MaxParam \in Nat /\ ParamSize < MaxParam /\ MaxParam < 255
  /\ MinTimer \in Nat
  /\ ParamBytes \subseteq Byte
  /\ LengthBytes \subseteq Byte
  /\ Commands \subseteq KnownCommand \cup {"other"}
  /\ EepromContents \subseteq ParamBlock /\ EepromContents # {}
  /\ PowerFails \in BOOLEAN

VARIABLES
  pc,            \* next poll of the event loop, or where it is stuck
  pstate,        \* firmware_state_t: state of the device state machine
  fstate,        \* frame_state_t: state of the frame parser
  idx,           \* parser's index into the magic string or the parameters
  cmd,           \* command of the frame being received
  len,           \* parameter length of the frame being received
  pparam_sram,   \* the parameter block the measurement works with
  pparam_eeprom, \* the parameter block that survives a reset
  to_write,      \* EEPROM cells eeprom_update_block has still to write
  switch_locked, \* the_switch_lock
  gf,            \* GF_MEASUREMENT_FINISHED
  interrupts,    \* the global interrupt enable flag
  timer_on,      \* whether the measurement's interrupt source is armed
  sent,          \* frames sent to the host by the last step
  own            \* history: cells of pparam_sram the frame being received wrote

parserVars == <<fstate, idx, cmd, len, own>>
timerVars  == <<gf, interrupts, timer_on>>
paramVars  == <<pparam_sram, pparam_eeprom, to_write>>
vars == <<pc, pstate, parserVars, paramVars, switch_locked, timerVars, sent>>

-----------------------------------------------------------------------------
(***************************************************************************)
(* Frames to the host.  A text frame's wording, a table's content and a    *)
(* parameter frame's bytes are left out.                                   *)
(***************************************************************************)
State(name)   == <<"state", name>>
Text(what)    == <<"text", what>>
Table(reason) == <<"table", reason>>
Info          == <<"info", "personality">>
Params        == <<"params", "eeprom">>

StateName == {"READY", "MEASURING", "DONE", "RESET", "PARAMS_TO_EEPROM"}
ErrorText == {"invalid state transition", "STP_ERROR", "unsupported timer value"}
NoteText  == {"invalid EEPROM data", "param length mismatch", "checksum fail"}
Reason    == {"done", "aborted", "intermediate", "resend"}
Frame == ({"state"} \X StateName) \cup ({"text"} \X (ErrorText \cup NoteText))
           \cup ({"table"} \X Reason) \cup {Info, Params}

-----------------------------------------------------------------------------
(* pparam_sram.length of a block, and the test main.c applies to it.       *)
Length(block) == block[LengthCell]
ValidEepromLength(block) == Length(block) # 255 /\ Length(block) <= MaxParam

(* The little endian 16 bit measurement duration the personality reads.    *)
TimerValue(block) == block[ParamCell(0)] + 256 * block[ParamCell(1)]

(* Registers and RAM as the C runtime and the init functions leave them.   *)
BlankBlock == [c \in Cell |-> 0]

Init ==
  /\ pc = "boot" /\ pstate = "READY" /\ sent = <<>>
  /\ fstate = "MAGIC" /\ idx = 0 /\ cmd = "other" /\ len = 0 /\ own = {}
  /\ pparam_sram = BlankBlock /\ to_write = {} /\ pparam_eeprom \in EepromContents
  /\ switch_locked = FALSE /\ gf = FALSE /\ interrupts = FALSE /\ timer_on = FALSE

-----------------------------------------------------------------------------
(* The parser waits for the first byte of a magic string.                  *)
Restart == fstate' = "MAGIC" /\ idx' = 0 /\ cmd' = "other" /\ len' = 0 /\ own' = {}

(* A reset, by the watchdog or by the power supply, keeps only the EEPROM. *)
ResetRam ==
  /\ pc' = "boot" /\ pstate' = "READY" /\ sent' = <<>>
  /\ Restart
  /\ pparam_sram' = BlankBlock /\ to_write' = {} /\ UNCHANGED pparam_eeprom
  /\ switch_locked' = FALSE /\ gf' = FALSE /\ interrupts' = FALSE /\ timer_on' = FALSE

WatchdogReset == pc = "reset" /\ ResetRam

PowerCycle == PowerFails /\ pc # "boot" /\ ResetRam

(* main() announces itself; main_event_loop() starts with sei().           *)
Boot ==
  /\ pc = "boot" /\ pc' = "loop"
  /\ interrupts' = TRUE
  /\ sent' = <<Info, State("READY")>>
  /\ UNCHANGED <<pstate, parserVars, paramVars, switch_locked, gf, timer_on>>

(* wdt_soft_reset(): spin until the watchdog bites.                        *)
AwaitReset(frames) ==
  /\ pc' = "reset" /\ sent' = frames
  /\ UNCHANGED <<pstate, timerVars>>

(* The interrupt that ends a measurement: the personality's ISR sets the   *)
(* flag once, and leaves everything alone while the flag is set.           *)
MeasurementElapsed ==
  /\ interrupts /\ timer_on /\ ~gf
  /\ gf' = TRUE
  /\ UNCHANGED <<pc, pstate, parserVars, paramVars, switch_locked, interrupts,
                 timer_on, sent>>

-----------------------------------------------------------------------------

(* First poll: the "measurement finished" flag.                            *)
NotFinished ==
  /\ pc = "loop" /\ ~gf
  /\ pc' = "switch" /\ sent' = <<>>
  /\ UNCHANGED <<pstate, parserVars, paramVars, switch_locked, timerVars>>

\* Mutant: the flag is not cleared.
HandleMeasurementFinished_NoClear ==
  /\ pc = "loop" /\ gf /\ pstate = "MEASURING"
  /\ interrupts' = FALSE
  /\ sent' = <<Table("done")>>
  /\ pstate' = "DONE"
  /\ UNCHANGED <<pc, parserVars, paramVars, switch_locked, timer_on, gf>>

HandleMeasurementFinished ==
  /\ pc = "loop" /\ gf /\ pstate = "MEASURING"
  /\ interrupts' = FALSE
  /\ sent' = <<Table("done")>>
  /\ pstate' = "DONE"
  /\ gf' = FALSE
  /\ UNCHANGED <<pc, parserVars, paramVars, switch_locked, timer_on>>

HandleFinishedInvalid ==
  /\ pc = "loop" /\ gf /\ pstate # "MEASURING"
  /\ AwaitReset(<<Text("invalid state transition")>>)
  /\ UNCHANGED <<parserVars, paramVars, switch_locked>>

-----------------------------------------------------------------------------
\* Mutant: the switch is not locked.
StartMeasurement_NoLock(block) ==
  /\ switch_locked' = switch_locked
  /\ \/ /\ TimerValue(block) >= MinTimer
        /\ timer_on' = TRUE
        /\ pstate' = "MEASURING"
        /\ pc' = "loop" /\ sent' = <<State("MEASURING")>>
        /\ UNCHANGED <<gf, interrupts>>
     \/ /\ TimerValue(block) < MinTimer
        /\ AwaitReset(<<Text("unsupported timer value")>>)

(* general_personality_start_measurement_sram() with the given parameters. *)
StartMeasurement(block) ==
  /\ switch_locked' = TRUE
  /\ \/ /\ TimerValue(block) >= MinTimer
        /\ timer_on' = TRUE
        /\ pstate' = "MEASURING"
        /\ pc' = "loop" /\ sent' = <<State("MEASURING")>>
        /\ UNCHANGED <<gf, interrupts>>
     \/ /\ TimerValue(block) < MinTimer
        /\ AwaitReset(<<Text("unsupported timer value")>>)

CopyFromEeprom == pparam_sram' = pparam_eeprom /\ UNCHANGED <<pparam_eeprom, to_write>>

\* Mutant: the loop starts over after every look at the switch.
SwitchNotPressed_Continue ==
  /\ pc = "switch"
  /\ pc' = "loop" /\ sent' = <<>>
  /\ UNCHANGED <<pstate, parserVars, paramVars, switch_locked, timerVars>>

(* Second poll: the switch, whose pin may read as pressed at any time.     *)
SwitchNotPressed ==
  /\ pc = "switch"
  /\ pc' = "uart" /\ sent' = <<>>
  /\ UNCHANGED <<pstate, parserVars, paramVars, switch_locked, timerVars>>

SwitchPressed == pc = "switch" /\ ~switch_locked

HandleSwitchStart ==
  /\ SwitchPressed /\ pstate = "READY"
  /\ ValidEepromLength(pparam_eeprom)
  /\ CopyFromEeprom /\ own' = {}
  /\ StartMeasurement(pparam_eeprom)
  /\ UNCHANGED <<fstate, idx, cmd, len>>

(* The loop continues with the flag: the UART is not polled.  (In another  *)
(* state the press is ignored; SwitchLockedOutsideReady shows that the     *)
(* lock already hides the pin there.)                                      *)
HandleSwitchInvalid ==
  /\ SwitchPressed /\ pstate = "READY"
  /\ ~ValidEepromLength(pparam_eeprom)
  /\ CopyFromEeprom /\ own' = {}
  /\ pc' = "loop" /\ sent' = <<Text("invalid EEPROM data"), State("READY")>>
  /\ UNCHANGED <<pstate, fstate, idx, cmd, len, switch_locked, timerVars>>

-----------------------------------------------------------------------------
(***************************************************************************)
(* Third poll: the UART.  The parser consumes one byte per turn.  At a     *)
(* restart the cached command and length are dead until the next frame     *)
(* overwrites them; the model forgets them.                                *)
(***************************************************************************)
NothingReceived ==
  /\ pc = "uart"
  /\ pc' = "loop" /\ sent' = <<>>
  /\ UNCHANGED <<pstate, parserVars, paramVars, switch_locked, timerVars>>

(* A byte is parsed and the loop goes on, with nothing else disturbed.     *)
Parse(frames) ==
  /\ pc = "uart" /\ pc' = "loop" /\ sent' = frames
  /\ UNCHANGED <<pstate, pparam_eeprom, to_write, switch_locked, timerVars>>

(* The buffer is free for a frame's parameters only in the READY state.    *)
StoreWhenReady(cell, byte) ==
  IF pstate = "READY"
    THEN pparam_sram' = [pparam_sram EXCEPT ![cell] = byte] /\ own' = own \cup {cell}
    ELSE UNCHANGED <<pparam_sram, own>>

ReceiveMagic ==
  /\ fstate = "MAGIC" /\ Parse(<<>>)
  /\ idx' = idx + 1
  /\ fstate' = IF idx' < MagicLen THEN "MAGIC" ELSE "COMMAND"
  /\ UNCHANGED <<cmd, len, own, pparam_sram>>

(* The byte that does not match is consumed: it starts no new magic.       *)
ReceiveNoMagic ==
  /\ fstate = "MAGIC" /\ Parse(<<>>)
  /\ Restart
  /\ UNCHANGED pparam_sram

ReceiveCommand ==
  /\ fstate = "COMMAND" /\ Parse(<<>>)
  /\ cmd' \in Commands
  /\ fstate' = "LENGTH"
  /\ UNCHANGED <<idx, len, own, pparam_sram>>

\* Mutants: the length is not bounded from above, or not by the personality.
FrameLengths_Unbounded == ParamSize .. 255
FrameLengths_NotEmpty == 1 .. MaxParam - 1

FrameLengths == ParamSize .. MaxParam - 1

\* Mutant: the index still counts the magic string.
ReceiveLength_KeepIdx ==
  /\ fstate = "LENGTH" /\ Parse(<<>>)
  /\ len' \in LengthBytes \cap (FrameLengths \cup {0})
  /\ StoreWhenReady(LengthCell, len')
  /\ fstate' = IF len' = 0 THEN "CHECKSUM" ELSE "PARAM"
  /\ UNCHANGED <<cmd, idx>>

(* The length is stored before it is checked.                              *)
ReceiveLength ==
  /\ fstate = "LENGTH" /\ Parse(<<>>)
  /\ len' \in LengthBytes \cap (FrameLengths \cup {0})
  /\ StoreWhenReady(LengthCell, len')
  /\ \/ len' = 0 /\ fstate' = "CHECKSUM" /\ UNCHANGED idx
     \/ len' # 0 /\ fstate' = "PARAM" /\ idx' = 0
  /\ UNCHANGED cmd

\* Mutant: the wrong length is stored in every state.
ReceiveWrongLength_Always ==
  /\ fstate = "LENGTH" /\ Parse(<<Text("param length mismatch")>>)
  /\ \E byte \in LengthBytes \ (FrameLengths \cup {0}) :
       pparam_sram' = [pparam_sram EXCEPT ![LengthCell] = byte]
  /\ Restart

ReceiveWrongLength ==
  /\ fstate = "LENGTH" /\ Parse(<<Text("param length mismatch")>>)
  /\ \E byte \in LengthBytes \ (FrameLengths \cup {0}) :
       pparam_sram' = IF pstate = "READY"
                        THEN [pparam_sram EXCEPT ![LengthCell] = byte] ELSE pparam_sram
  /\ Restart

ReceiveParam ==
  /\ fstate = "PARAM" /\ Parse(<<>>)
  /\ \E byte \in ParamBytes : StoreWhenReady(ParamCell(idx), byte)
  /\ idx' = idx + 1
  /\ fstate' = IF idx' < len THEN "PARAM" ELSE "CHECKSUM"
  /\ UNCHANGED <<cmd, len>>

ReceiveWrongChecksum ==
  /\ fstate = "CHECKSUM" /\ Parse(<<Text("checksum fail")>>)
  /\ Restart
  /\ UNCHANGED pparam_sram

-----------------------------------------------------------------------------
(***************************************************************************)
(* firmware_handle_command(): the checksum of the frame matches.  The      *)
(* parser restarts afterwards; where the handler never returns, whether it *)
(* does is nothing anyone can see.                                         *)
(***************************************************************************)
Command(state, commands) ==
  pc = "uart" /\ fstate = "CHECKSUM" /\ pstate = state /\ cmd \in commands

(* Commands that only report, with the personality if the host asked.      *)
InfoIfAsked == IF cmd = "f" THEN <<Info>> ELSE <<>>

Reply(frames) ==
  /\ pc' = "loop" /\ sent' = frames
  /\ Restart
  /\ UNCHANGED <<pstate, paramVars, switch_locked, timerVars>>

ReadyReport ==
  /\ Command("READY", {"f", "a", "i", "s"})
  /\ Reply(InfoIfAsked \o <<State("READY")>>)

MeasuringReport ==
  /\ Command("MEASURING", {"f", "e", "E", "m", "r", "s"})
  /\ Reply(InfoIfAsked \o <<State("MEASURING")>>)

DoneReport ==
  /\ Command("DONE", {"f", "s"})
  /\ Reply(InfoIfAsked \o <<State("DONE")>>)

\* Mutant: the table is not followed by the state the host waits for.
MeasuringIntermediate_NoState ==
  /\ Command("MEASURING", {"i"})
  /\ Reply(<<Table("intermediate")>>)

(* Interrupts stay on while the table is sent; TimeSeries looks into that. *)
MeasuringIntermediate ==
  /\ Command("MEASURING", {"i"})
  /\ Reply(<<Table("intermediate"), State("MEASURING")>>)

DoneResend ==
  /\ Command("DONE", (KnownCommand \cup {"other"}) \ {"f", "s", "r"})
  /\ Reply(<<Table("resend"), State("DONE")>>)

ReadyParamsFromEeprom ==
  /\ Command("READY", {"E"})
  /\ CopyFromEeprom
  /\ sent' = <<IF ValidEepromLength(pparam_eeprom)
                 THEN Params ELSE Text("invalid EEPROM data"), State("READY")>>
  /\ pc' = "loop" /\ Restart
  /\ UNCHANGED <<pstate, switch_locked, timerVars>>

(* eeprom_update_block() takes milliseconds per cell.                      *)
ReadyParamsToEeprom ==
  /\ Command("READY", {"e"})
  /\ pc' = "eeprom" /\ to_write' = Cell
  /\ sent' = <<State("PARAMS_TO_EEPROM")>>
  /\ UNCHANGED <<pstate, parserVars, pparam_sram, pparam_eeprom, switch_locked, timerVars>>

EepromWriteCell ==
  /\ pc = "eeprom"
  /\ \E c \in to_write :
       /\ pparam_eeprom' = [pparam_eeprom EXCEPT ![c] = pparam_sram[c]]
       /\ to_write' = to_write \ {c}
  /\ sent' = <<>>
  /\ UNCHANGED <<pc, pstate, parserVars, pparam_sram, switch_locked, timerVars>>

EepromWritten ==
  /\ pc = "eeprom" /\ to_write = {}
  /\ Reply(<<State("READY")>>)

ReadyMeasure ==
  /\ Command("READY", {"m"})
  /\ StartMeasurement(pparam_sram)
  /\ Restart
  /\ UNCHANGED paramVars

MeasuringAbort ==
  /\ Command("MEASURING", {"a"})
  /\ interrupts' = FALSE
  /\ sent' = <<State("DONE"), Table("aborted"), State("DONE")>>
  /\ pstate' = "DONE" /\ pc' = "loop"
  /\ Restart
  /\ UNCHANGED <<paramVars, switch_locked, gf, timer_on>>

ResetOnCommand ==
  /\ Command("READY", {"r"}) \/ Command("DONE", {"r"})
  /\ AwaitReset(<<State("RESET")>>)
  /\ UNCHANGED <<parserVars, paramVars, switch_locked>>

(* A command byte of no known command falls out of the switch statements.  *)
UnknownCommand ==
  /\ Command("READY", {"other"}) \/ Command("MEASURING", {"other"})
  /\ AwaitReset(<<Text("STP_ERROR")>>)
  /\ UNCHANGED <<parserVars, paramVars, switch_locked>>

-----------------------------------------------------------------------------
PollFinished == NotFinished \/ HandleMeasurementFinished \/ HandleFinishedInvalid

PollSwitch == SwitchNotPressed \/ HandleSwitchStart \/ HandleSwitchInvalid

ParseByte ==
  \/ ReceiveMagic \/ ReceiveNoMagic \/ ReceiveCommand \/ ReceiveLength
  \/ ReceiveWrongLength \/ ReceiveParam \/ ReceiveWrongChecksum

HandleCommand ==
  \/ ReadyReport \/ ReadyParamsFromEeprom \/ ReadyParamsToEeprom \/ ReadyMeasure
  \/ MeasuringReport \/ MeasuringIntermediate \/ MeasuringAbort
  \/ DoneReport \/ DoneResend \/ ResetOnCommand \/ UnknownCommand

PollUart == NothingReceived \/ ParseByte \/ HandleCommand

(* What the CPU does by itself, as opposed to its surroundings.            *)
MainProgram ==
  \/ Boot \/ PollFinished \/ PollSwitch \/ PollUart
  \/ EepromWriteCell \/ EepromWritten \/ WatchdogReset

Next == MainProgram \/ MeasurementElapsed \/ PowerCycle

Spec == Init /\ [][Next]_vars

(***************************************************************************)
(* The CPU never stops, and a reset it waits for comes.  Nothing obliges   *)
(* the host, the user, the interrupt source or the power supply.           *)
(***************************************************************************)
FairSpec == Spec /\ WF_vars(MainProgram)

-----------------------------------------------------------------------------
(* The values every variable keeps to, whatever arrives on the line.       *)
TypeOK ==
  /\ pc \in {"boot", "loop", "switch", "uart", "eeprom", "reset"}
  /\ pstate \in {"READY", "MEASURING", "DONE"}
  /\ fstate \in {"MAGIC", "COMMAND", "LENGTH", "PARAM", "CHECKSUM"}
  /\ idx \in Nat /\ cmd \in KnownCommand \cup {"other"} /\ len \in Byte
  /\ pparam_sram \in ParamBlock /\ pparam_eeprom \in ParamBlock
  /\ to_write \subseteq Cell /\ own \subseteq Cell
  /\ switch_locked \in BOOLEAN /\ gf \in BOOLEAN
  /\ interrupts \in BOOLEAN /\ timer_on \in BOOLEAN
  /\ sent \in Seq(Frame)

(***************************************************************************)
(* The parser never reads past the magic string and never writes past the  *)
(* parameter array, although idx counts through both and outlives states.  *)
(***************************************************************************)
ParserInBounds ==
  /\ fstate = "MAGIC" => idx < MagicLen
  /\ fstate = "PARAM" => idx < len /\ len \in FrameLengths
  /\ fstate = "CHECKSUM" => len = 0 \/ len \in FrameLengths

(* Every variable in its range, every index in its array.                  *)
InBounds == TypeOK /\ ParserInBounds

(***************************************************************************)
(* From the start of a measurement to the reset that follows it the switch *)
(* is locked and the measurement's interrupt source armed, so there is no  *)
(* second start; before it neither is, and the finished flag is down.      *)
(***************************************************************************)
SwitchLockedOutsideReady ==
  /\ pstate # "READY" => switch_locked /\ timer_on
  /\ pstate = "READY" => ~timer_on /\ ~gf
  /\ pstate = "READY" /\ pc # "reset" => ~switch_locked

(***************************************************************************)
(* In the DONE state no interrupt can run: the table that is sent again on *)
(* request is the table that was sent when the measurement ended.          *)
(***************************************************************************)
DoneIsFrozen == pstate = "DONE" => ~interrupts

(***************************************************************************)
(* The device state machine, and the mapping under which the main program  *)
(* implements it: resets are announced, states reported truthfully, a      *)
(* measurement ended is only left by a reset.  Each command does what the  *)
(* device does with it; the answer to the one that writes the EEPROM comes *)
(* in two parts, before and after.                                         *)
(***************************************************************************)
Mode == CASE pc = "boot" -> "booting" [] pc = "reset" -> "RESET" [] OTHER -> pstate

Device == INSTANCE DeviceFSM WITH
  mode <- Mode, late <- pc # "reset" /\ pstate = "DONE" /\ gf, said <- sent

ObeysCommands ==
  [][/\ HandleCommand =>
          \/ Device!Obeys(cmd)
          \/ pc' = "eeprom" /\ sent' \o <<State("READY")>> \in Device!Answers(cmd)
     /\ EepromWritten =>
          <<State("PARAMS_TO_EEPROM")>> \o sent' \in Device!Answers("e")]_vars

ImplementsDevice == Device!Spec /\ ObeysCommands
ImplementsFairDevice == Device!FairSpec

(***************************************************************************)
(* While the buffer is in use by a measurement, from its start to the      *)
(* reset, nothing writes to it: the parameters sent with every table are   *)
(* the ones the measurement was started with (comment at STF_LENGTH).      *)
(***************************************************************************)
ParamsKept == [][pstate # "READY" /\ pc' # "boot" => UNCHANGED pparam_sram]_vars

(***************************************************************************)
(* A measure command starts the measurement with the parameters and the    *)
(* length of its own frame, all of them and checked, and not with what an  *)
(* earlier frame or the EEPROM left in the buffer.  Only a frame without   *)
(* parameters (len == 0) leaves them as they are; the length, sent with    *)
(* every table, is 0 then.                                                 *)
(***************************************************************************)
MeasureUsesOwnParams ==
  [][pc = "uart" /\ pstate = "READY" /\ pstate' = "MEASURING"
       => /\ LengthCell \in own /\ Length(pparam_sram) = len
          /\ len # 0 => {ParamCell(i) : i \in 0 .. ParamSize - 1} \subseteq own]_vars

(***************************************************************************)
(* A table is sent with pparam_sram.length parameter bytes: never more     *)
(* than the buffer holds.                                                  *)
(***************************************************************************)
TableParamsInBounds == pstate # "READY" => Length(pparam_sram) <= MaxParam

(***************************************************************************)
(* An EEPROM whose parameters have a length the personality can work with  *)
(* keeps such a length, through every command, and through a power failure *)
(* in the middle of a write.                                               *)
(***************************************************************************)
EepromLengthValid == Length(pparam_eeprom) \in ParamSize .. MaxParam

(***************************************************************************)
(* The main program keeps polling the UART, unless it is in READY again    *)
(* and again with EEPROM parameters no measurement can be started with (a  *)
(* switch held down then keeps it from the UART), or the power fails again *)
(* and again.                                                              *)
(***************************************************************************)
Startable(block) == ValidEepromLength(block) /\ TimerValue(block) >= MinTimer

UartPolled ==
  \/ []<>(pc = "uart")
  \/ []<>(pc = "switch" /\ pstate = "READY" /\ ~Startable(pparam_eeprom))
  \/ []<><<PowerCycle>>_vars

=============================================================================
