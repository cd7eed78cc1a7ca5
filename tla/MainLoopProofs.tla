---------------------------- MODULE MainLoopProofs ----------------------------
(***************************************************************************)
(* What MainLoop guarantees for every size of the parameter buffer, every  *)
(* personality, every content of the EEPROM and every host.                *)
(*                                                                         *)
(* The inductive invariant has four parts, each over a group of variables  *)
(* of its own: the parser (ParserOK), the parameter blocks (BuffersOK),    *)
(* the control state (ControlOK) and the frames sent (SentOK).  A fifth    *)
(* part, LengthsOK, relates the buffer to the frame being received; it     *)
(* holds where no block of the EEPROM is longer than the buffer.           *)
(*                                                                         *)
(* At the end, the refinement: every step is one of the abstract device,   *)
(* and every handler of a command does and answers what the device does.   *)
(***************************************************************************)
EXTENDS MainLoop, SequenceTheorems, TLAPS

-----------------------------------------------------------------------------
(* The parser's own variables: what a frame's bytes may leave in them.     *)
ParserOK ==
  /\ fstate \in {"MAGIC", "COMMAND", "LENGTH", "PARAM", "CHECKSUM"}
  /\ idx \in Nat /\ cmd \in KnownCommand \cup {"other"} /\ len \in Byte
  /\ ParserInBounds

(* Every step keeps the parser inside the magic string and the parameters. *)
LEMMA ParserStep ==
  ASSUME ParserOK, [Next]_vars
  PROVE  ParserOK'
<1>. USE ConstantsAssumption DEF ParserOK, ParserInBounds, FrameLengths
<1>1. ASSUME UNCHANGED <<fstate, idx, cmd, len>> PROVE ParserOK'
  BY <1>1
<1>2. ASSUME Restart PROVE ParserOK'
  BY <1>2 DEF Restart, Byte
<1>3. CASE ReceiveMagic
  BY <1>3 DEF ReceiveMagic, Byte
<1>4. CASE ReceiveCommand
  BY <1>4 DEF ReceiveCommand
<1>5. CASE ReceiveLength
  BY <1>5 DEF ReceiveLength, Byte
<1>6. CASE ReceiveParam
  BY <1>6 DEF ReceiveParam, Byte
<1>7. CASE PollFinished
  BY <1>1, <1>7 DEF PollFinished, NotFinished, HandleMeasurementFinished,
     HandleFinishedInvalid, parserVars
<1>8. CASE PollSwitch
  BY <1>1, <1>8 DEF PollSwitch, SwitchNotPressed, HandleSwitchStart, HandleSwitchInvalid, parserVars
<1>9. CASE HandleCommand
  BY <1>1, <1>2, <1>9 DEF HandleCommand, ReadyReport, ReadyParamsFromEeprom,
     ReadyParamsToEeprom, ReadyMeasure, MeasuringReport, MeasuringIntermediate,
     MeasuringAbort, DoneReport, DoneResend, ResetOnCommand, UnknownCommand, Reply,
     parserVars
<1>10. CASE Boot \/ EepromWriteCell \/ MeasurementElapsed \/ NothingReceived \/ UNCHANGED vars
  BY <1>1, <1>10 DEF Boot, EepromWriteCell, MeasurementElapsed, NothingReceived, vars, parserVars
<1>11. CASE EepromWritten \/ WatchdogReset \/ PowerCycle \/ ReceiveNoMagic \/ ReceiveWrongLength \/ ReceiveWrongChecksum
  BY <1>2, <1>11 DEF EepromWritten, WatchdogReset, PowerCycle, ReceiveNoMagic,
     ReceiveWrongLength, ReceiveWrongChecksum, Reply, ResetRam
<1>. QED
  BY <1>3, <1>4, <1>5, <1>6, <1>7, <1>8, <1>9, <1>10, <1>11
  DEF Next, MainProgram, PollUart, ParseByte

(* The parameter blocks, in RAM and in the EEPROM, hold bytes.             *)
BuffersOK ==
  /\ pparam_sram \in ParamBlock /\ pparam_eeprom \in ParamBlock
  /\ to_write \subseteq Cell /\ own \subseteq Cell

(* The cells the parser addresses are cells of the block.                  *)
LEMMA CellsExist ==
  /\ LengthCell \in Cell
  /\ \A i \in 0 .. MaxParam - 1 : ParamCell(i) \in Cell
  /\ BlankBlock \in ParamBlock
  BY ConstantsAssumption DEF LengthCell, Cell, ParamCell, BlankBlock, ParamBlock, Byte

(* Storing a byte in an existing cell keeps the blocks well formed.        *)
LEMMA StoreStep ==
  ASSUME BuffersOK, NEW cell \in Cell, NEW byte \in Byte, StoreWhenReady(cell, byte),
         UNCHANGED <<pparam_eeprom, to_write>>
  PROVE  BuffersOK'
<1>1. [pparam_sram EXCEPT ![cell] = byte] \in ParamBlock
  BY DEF BuffersOK, ParamBlock
<1>. QED
  BY <1>1 DEF BuffersOK, StoreWhenReady

(* Every step stores bytes in cells that exist, given the parser's bounds. *)
LEMMA BuffersStep ==
  ASSUME BuffersOK, ParserInBounds, idx \in Nat, len \in Byte, [Next]_vars
  PROVE  BuffersOK'
<1>. USE CellsExist
<1>1. ASSUME UNCHANGED <<pparam_eeprom, to_write>>,
             pparam_sram' = pparam_sram \/ pparam_sram' = pparam_eeprom, own' = own \/ own' = {}
      PROVE  BuffersOK'
  BY <1>1 DEF BuffersOK
<1>2. ASSUME ResetRam PROVE BuffersOK'
  BY <1>2 DEF ResetRam, Restart, BuffersOK
<1>3. CASE ReceiveLength
  BY <1>3, StoreStep, ConstantsAssumption DEF ReceiveLength, Parse
<1>4. CASE ReceiveParam
  <2>1. idx \in 0 .. MaxParam - 1
    BY <1>4, ConstantsAssumption DEF ReceiveParam, ParserInBounds, FrameLengths, Byte
  <2>. QED
    BY <1>4, <2>1, StoreStep, ConstantsAssumption DEF ReceiveParam, Parse
<1>5. CASE ReceiveWrongLength
  <2>1. PICK byte \in Byte :
          pparam_sram' = pparam_sram \/ pparam_sram' = [pparam_sram EXCEPT ![LengthCell] = byte]
    BY <1>5, ConstantsAssumption DEF ReceiveWrongLength
  <2>2. [pparam_sram EXCEPT ![LengthCell] = byte] \in ParamBlock
    BY DEF BuffersOK, ParamBlock
  <2>. QED
    BY <1>5, <2>1, <2>2 DEF ReceiveWrongLength, Parse, Restart, BuffersOK
<1>6. CASE EepromWriteCell
  <2>1. PICK c \in to_write : /\ pparam_eeprom' = [pparam_eeprom EXCEPT ![c] = pparam_sram[c]]
                              /\ to_write' = to_write \ {c}
    BY <1>6 DEF EepromWriteCell
  <2>2. [pparam_eeprom EXCEPT ![c] = pparam_sram[c]] \in ParamBlock
    BY DEF BuffersOK, ParamBlock
  <2>. QED
    BY <1>6, <2>1, <2>2 DEF EepromWriteCell, BuffersOK, parserVars
<1>7. CASE ReadyParamsToEeprom
  BY <1>7 DEF ReadyParamsToEeprom, BuffersOK, parserVars
<1>8. CASE WatchdogReset \/ PowerCycle
  BY <1>2, <1>8 DEF WatchdogReset, PowerCycle
<1>9. CASE PollFinished
  BY <1>1, <1>9 DEF PollFinished, NotFinished, HandleMeasurementFinished,
     HandleFinishedInvalid, parserVars, paramVars
<1>10. CASE PollSwitch
  BY <1>1, <1>10 DEF PollSwitch, SwitchNotPressed, HandleSwitchStart, HandleSwitchInvalid,
     CopyFromEeprom, parserVars, paramVars
<1>11. CASE HandleCommand /\ ~ReadyParamsToEeprom
  BY <1>1, <1>11 DEF HandleCommand, ReadyReport, ReadyParamsFromEeprom, ReadyMeasure,
     MeasuringReport, MeasuringIntermediate, MeasuringAbort, DoneReport, DoneResend,
     ResetOnCommand, UnknownCommand, Reply, Restart, CopyFromEeprom, parserVars, paramVars
<1>12. CASE ReceiveMagic \/ ReceiveNoMagic \/ ReceiveCommand \/ ReceiveWrongChecksum
  BY <1>1, <1>12 DEF ReceiveMagic, ReceiveNoMagic, ReceiveCommand, ReceiveWrongChecksum,
     Parse, Restart
<1>13. CASE Boot \/ MeasurementElapsed \/ NothingReceived \/ EepromWritten \/ UNCHANGED vars
  BY <1>1, <1>13 DEF Boot, MeasurementElapsed, NothingReceived, EepromWritten, Reply, Restart,
     vars, parserVars, paramVars
<1>. QED
  BY <1>3, <1>4, <1>5, <1>6, <1>7, <1>8, <1>9, <1>10, <1>11, <1>12, <1>13
  DEF Next, MainProgram, PollUart, ParseByte

(* Which combinations of poll, device state, lock, flag and interrupts     *)
(* occur.  An EEPROM write happens in READY only.                          *)
ControlOK ==
  /\ pc \in {"boot", "loop", "switch", "uart", "eeprom", "reset"}
  /\ pstate \in {"READY", "MEASURING", "DONE"}
  /\ switch_locked \in BOOLEAN /\ gf \in BOOLEAN
  /\ interrupts \in BOOLEAN /\ timer_on \in BOOLEAN
  /\ pc \in {"boot", "eeprom"} => pstate = "READY"
  /\ SwitchLockedOutsideReady
  /\ DoneIsFrozen

(* No interleaving of loop, interrupt and reset leaves those combinations. *)
LEMMA ControlStep ==
  ASSUME ControlOK, [Next]_vars
  PROVE  ControlOK'
<1>. USE DEF ControlOK, SwitchLockedOutsideReady, DoneIsFrozen, timerVars
<1>1. ASSUME UNCHANGED <<pstate, switch_locked, timerVars>>,
             pc = pc' \/ pc' \in {"loop", "switch", "uart", "reset"},
             pc = "reset" => pc' = "reset"
      PROVE  ControlOK'
  BY <1>1
<1>2. ASSUME NEW b, StartMeasurement(b), pstate = "READY"
      PROVE  ControlOK'
  <2>1. CASE /\ switch_locked' = TRUE /\ timer_on' = TRUE /\ pstate' = "MEASURING"
             /\ pc' = "loop" /\ UNCHANGED <<gf, interrupts>>
    BY <2>1
  <2>2. CASE switch_locked' = TRUE /\ pc' = "reset" /\ UNCHANGED <<pstate, timerVars>>
    BY <1>2, <2>2
  <2>. QED
    BY <1>2, <2>1, <2>2 DEF StartMeasurement, AwaitReset
<1>3. CASE WatchdogReset \/ PowerCycle
  BY <1>3 DEF WatchdogReset, PowerCycle, ResetRam
<1>4. CASE Boot
  BY <1>4 DEF Boot
<1>5. CASE MeasurementElapsed
  BY <1>5 DEF MeasurementElapsed
<1>6. CASE PollFinished
  BY <1>1, <1>6 DEF PollFinished, NotFinished, HandleMeasurementFinished,
     HandleFinishedInvalid, AwaitReset
<1>7. CASE PollSwitch
  BY <1>1, <1>2, <1>7 DEF PollSwitch, SwitchNotPressed, HandleSwitchStart,
     HandleSwitchInvalid, SwitchPressed
<1>8. CASE HandleCommand
  <2>1. CASE ReadyReport \/ ReadyParamsFromEeprom \/ MeasuringReport \/ MeasuringIntermediate
             \/ DoneReport \/ DoneResend
    BY <1>1, <2>1 DEF ReadyReport, ReadyParamsFromEeprom, MeasuringReport,
       MeasuringIntermediate, DoneReport, DoneResend, Reply, Command
  <2>2. CASE ResetOnCommand \/ UnknownCommand
    BY <1>1, <2>2 DEF ResetOnCommand, UnknownCommand, AwaitReset, Command
  <2>3. CASE ReadyMeasure
    BY <1>2, <2>3 DEF ReadyMeasure, Command
  <2>4. CASE ReadyParamsToEeprom
    BY <2>4 DEF ReadyParamsToEeprom, Command
  <2>5. CASE MeasuringAbort
    BY <2>5 DEF MeasuringAbort, Command
  <2>. QED
    BY <1>8, <2>1, <2>2, <2>3, <2>4, <2>5 DEF HandleCommand
<1>9. CASE ParseByte
  BY <1>1, <1>9 DEF ParseByte, ReceiveMagic, ReceiveNoMagic, ReceiveCommand, ReceiveLength,
     ReceiveWrongLength, ReceiveParam, ReceiveWrongChecksum, Parse
<1>10. CASE NothingReceived \/ EepromWriteCell \/ EepromWritten \/ UNCHANGED vars
  BY <1>1, <1>10 DEF NothingReceived, EepromWriteCell, EepromWritten, Reply, vars
<1>. QED
  BY <1>3, <1>4, <1>5, <1>6, <1>7, <1>8, <1>9, <1>10
  DEF Next, MainProgram, PollUart

(* What a step sends is a sequence of frames of the protocol.              *)
SentOK == sent \in Seq(Frame)

(* Short sequences of frames are sequences of frames.                      *)
LEMMA FramesAreTyped ==
  /\ <<>> \in Seq(Frame)
  /\ \A f \in Frame : <<f>> \in Seq(Frame)
  /\ \A f, g \in Frame : <<f, g>> \in Seq(Frame)
  /\ \A f, g, h \in Frame : <<f, g, h>> \in Seq(Frame)
  OBVIOUS

(* The frames the handlers build are frames of the protocol.               *)
LEMMA FramesExist ==
  /\ \A name \in StateName : State(name) \in Frame
  /\ \A what \in ErrorText \cup NoteText : Text(what) \in Frame
  /\ \A reason \in Reason : Table(reason) \in Frame
  /\ Info \in Frame /\ Params \in Frame
  BY DEF Frame, State, Text, Table

(* A reply may be preceded by the personality info.                        *)
LEMMA InfoFirst ==
  ASSUME NEW f \in Frame PROVE InfoIfAsked \o <<f>> \in Seq(Frame)
<1>1. InfoIfAsked \in Seq(Frame) /\ <<f>> \in Seq(Frame)
  BY FramesAreTyped, FramesExist DEF InfoIfAsked
<1>2. \A s, t \in Seq(Frame) : s \o t \in Seq(Frame)
  OBVIOUS
<1>. QED
  BY <1>1, <1>2

(* Every step sends frames of the protocol only.                           *)
LEMMA SentStep ==
  ASSUME SentOK, [Next]_vars
  PROVE  SentOK'
<1>. USE FramesAreTyped, FramesExist, InfoFirst
     DEF SentOK, StateName, ErrorText, NoteText, Reason
<1>1. CASE WatchdogReset \/ PowerCycle \/ Boot \/ MeasurementElapsed \/ NothingReceived
           \/ EepromWriteCell \/ EepromWritten \/ UNCHANGED vars
  BY <1>1 DEF WatchdogReset, PowerCycle, ResetRam, Boot, MeasurementElapsed, NothingReceived,
     EepromWriteCell, EepromWritten, Reply, vars
<1>2. CASE PollFinished
  BY <1>2 DEF PollFinished, NotFinished, HandleMeasurementFinished, HandleFinishedInvalid,
     AwaitReset
<1>3. CASE PollSwitch
  BY <1>3 DEF PollSwitch, SwitchNotPressed, HandleSwitchStart, HandleSwitchInvalid,
     StartMeasurement, AwaitReset
<1>4. CASE ParseByte
  BY <1>4 DEF ParseByte, ReceiveMagic, ReceiveNoMagic, ReceiveCommand, ReceiveLength,
     ReceiveWrongLength, ReceiveParam, ReceiveWrongChecksum, Parse
<1>5. CASE ReadyReport \/ MeasuringReport \/ DoneReport
  BY <1>5 DEF ReadyReport, MeasuringReport, DoneReport, Reply
<1>6. CASE ReadyParamsFromEeprom \/ ReadyParamsToEeprom \/ ReadyMeasure
  BY <1>6 DEF ReadyParamsFromEeprom, ReadyParamsToEeprom, ReadyMeasure, StartMeasurement,
     AwaitReset
<1>7. CASE MeasuringIntermediate \/ MeasuringAbort \/ DoneResend \/ ResetOnCommand \/ UnknownCommand
  BY <1>7 DEF MeasuringIntermediate, MeasuringAbort, DoneResend, ResetOnCommand, UnknownCommand,
     Reply, AwaitReset
<1>. QED
  BY <1>1, <1>2, <1>3, <1>4, <1>5, <1>6, <1>7
  DEF Next, MainProgram, PollUart, HandleCommand

-----------------------------------------------------------------------------
(* The inductive invariant that holds in every surroundings.               *)
IInv == ParserOK /\ BuffersOK /\ ControlOK /\ SentOK

(* The inductive invariant holds when power is first applied.              *)
LEMMA InitInvariant == Init => IInv
<1>. SUFFICES ASSUME Init PROVE IInv
  OBVIOUS
<1>. USE ConstantsAssumption DEF Init
<1>1. ParserOK
  BY DEF ParserOK, ParserInBounds, Byte
<1>2. BuffersOK
  BY CellsExist DEF BuffersOK
<1>3. ControlOK
  BY DEF ControlOK, SwitchLockedOutsideReady, DoneIsFrozen
<1>4. SentOK
  BY DEF SentOK
<1>. QED
  BY <1>1, <1>2, <1>3, <1>4 DEF IInv

(* The inductive invariant is kept by every step.                          *)
LEMMA StepInvariant == IInv /\ [Next]_vars => IInv'
<1>. SUFFICES ASSUME IInv, [Next]_vars PROVE IInv'
  OBVIOUS
<1>1. ParserOK' /\ ControlOK' /\ SentOK'
  BY ParserStep, ControlStep, SentStep DEF IInv
<1>2. BuffersOK'
  BY BuffersStep DEF IInv, ParserOK
<1>. QED
  BY <1>1, <1>2 DEF IInv

(* The invariant holds in every behaviour of the firmware.                 *)
THEOREM Invariant == Spec => []IInv
BY InitInvariant, StepInvariant, PTL DEF Spec

(* The firmware keeps every variable of the event loop in its range,       *)
(* whatever arrives on the UART, whatever the EEPROM held.                 *)
THEOREM TypeCorrect == Spec => []TypeOK
<1>1. IInv => TypeOK
  BY DEF IInv, ParserOK, BuffersOK, ControlOK, SentOK, TypeOK
<1>. QED
  BY <1>1, Invariant, PTL

(* The frame parser in main_event_loop() never indexes outside the magic   *)
(* string or the parameter array, whatever bytes the UART delivers.        *)
THEOREM ParserStaysInBounds == Spec => []ParserInBounds
<1>1. IInv => ParserInBounds
  BY DEF IInv, ParserOK
<1>. QED
  BY <1>1, Invariant, PTL

(* Both together, which the runs check.                                    *)
THEOREM StaysInBounds == Spec => []InBounds
BY TypeCorrect, ParserStaysInBounds, PTL DEF InBounds

(* The switch cannot start a second measurement, and the flag is never     *)
(* raised before one.                                                      *)
THEOREM SwitchIsLocked == Spec => []SwitchLockedOutsideReady
<1>1. IInv => SwitchLockedOutsideReady
  BY DEF IInv, ControlOK
<1>. QED
  BY <1>1, Invariant, PTL

(* No interrupt runs in DONE, so the value table is not changed any more.  *)
THEOREM DoneStaysFrozen == Spec => []DoneIsFrozen
<1>1. IInv => DoneIsFrozen
  BY DEF IInv, ControlOK
<1>. QED
  BY <1>1, Invariant, PTL

-----------------------------------------------------------------------------
(* The surroundings under which parameter lengths are right: an EEPROM     *)
(* whose blocks have this length at least, and room in the buffer.  If it  *)
(* is not 0, the host sends no empty parameter block either.               *)
Programmed(least) ==
  /\ \A block \in EepromContents : Length(block) \in least .. MaxParam
  /\ 0 \in LengthBytes => least = 0

(* The parts of the invariant the lengths depend on.                       *)
Shape ==
  /\ pstate \in {"READY", "MEASURING", "DONE"}
  /\ pparam_sram \in ParamBlock /\ pparam_eeprom \in ParamBlock
  /\ to_write \subseteq Cell /\ own \subseteq Cell
  /\ idx \in Nat /\ len \in Byte
  /\ ParserInBounds

(* Once a frame's length was accepted in READY, the buffer holds what the  *)
(* frame has sent so far, and only that counts when its command runs.      *)
BufferFollowsFrame ==
  pstate = "READY" /\ pc # "reset" =>
    /\ fstate \in {"PARAM", "CHECKSUM"} =>
         Length(pparam_sram) = len /\ LengthCell \in own
    /\ fstate = "PARAM" => len \in FrameLengths
    /\ fstate = "CHECKSUM" => len \in FrameLengths \cup ({0} \cap LengthBytes)
    /\ fstate = "PARAM" => \A i \in 0 .. idx - 1 : ParamCell(i) \in own
    /\ fstate = "CHECKSUM" => \A i \in 0 .. len - 1 : ParamCell(i) \in own

(* The inductive strengthening of TableParamsInBounds, EepromLengthValid   *)
(* and MeasureUsesOwnParams.                                               *)
LengthsOK(least) ==
  /\ Length(pparam_eeprom) \in least .. MaxParam
  /\ TableParamsInBounds
  /\ BufferFollowsFrame
  /\ pc = "eeprom" => Length(pparam_sram) \in least .. MaxParam

(* Every step keeps the lengths right where the surroundings are.          *)
LEMMA LengthsStep ==
  ASSUME NEW least \in {0, ParamSize}, Programmed(least), Shape,
         pc = "eeprom" => pstate = "READY", LengthsOK(least), [Next]_vars
  PROVE  LengthsOK(least)'
<1>. USE ConstantsAssumption DEF LengthsOK, Programmed, TableParamsInBounds,
         BufferFollowsFrame, Length, Shape
<1>1. ASSUME UNCHANGED <<pstate, parserVars, paramVars>>, pc' \in {pc, "loop", "switch", "uart", "reset"},
             pc = "reset" => pc' = "reset"
      PROVE  LengthsOK(least)'
  BY <1>1 DEF parserVars, paramVars
<1>2. ASSUME UNCHANGED <<pstate, pparam_sram, pparam_eeprom>>, Restart, pc' # "eeprom"
      PROVE  LengthsOK(least)'
  BY <1>2 DEF Restart
<1>3. CASE WatchdogReset \/ PowerCycle
  BY <1>3 DEF WatchdogReset, PowerCycle, ResetRam, Restart
<1>4. CASE PollFinished
  BY <1>1, <1>4 DEF PollFinished, NotFinished, HandleMeasurementFinished,
     HandleFinishedInvalid, AwaitReset, parserVars, paramVars
<1>5. ASSUME NEW b, StartMeasurement(b), Length(pparam_sram') \in least .. MaxParam,
             UNCHANGED pparam_eeprom
      PROVE  LengthsOK(least)'
  <2>1. CASE pstate' = "MEASURING" /\ pc' = "loop"
    BY <1>5, <2>1
  <2>2. CASE pc' = "reset"
    BY <1>5, <2>2
  <2>. QED
    BY <1>5, <2>1, <2>2 DEF StartMeasurement, AwaitReset
<1>6. CASE PollSwitch
  <2>1. CASE SwitchNotPressed
    BY <1>1, <2>1 DEF SwitchNotPressed
  <2>2. CASE HandleSwitchStart
    BY <1>5, <2>2 DEF HandleSwitchStart, CopyFromEeprom
  <2>3. ~HandleSwitchInvalid
    <3>1. ValidEepromLength(pparam_eeprom)
      BY DEF ValidEepromLength
    <3>. QED
      BY <3>1 DEF HandleSwitchInvalid
  <2>. QED
    BY <1>6, <2>1, <2>2, <2>3 DEF PollSwitch
<1>7. CASE ReceiveLength
  <2>1. IF len' = 0 THEN fstate' = "CHECKSUM" /\ 0 \in LengthBytes
        ELSE fstate' = "PARAM" /\ len' \in FrameLengths /\ idx' = 0
    BY <1>7 DEF ReceiveLength
  <2>2. UNCHANGED <<pstate, pparam_eeprom>> /\ pc' = "loop"
    BY <1>7 DEF ReceiveLength, Parse
  <2>3. CASE pstate = "READY"
    <3>1. pparam_sram' = [pparam_sram EXCEPT ![LengthCell] = len'] /\ own' = own \cup {LengthCell}
      BY <1>7, <2>3 DEF ReceiveLength, StoreWhenReady
    <3>2. pparam_sram'[LengthCell] = len' /\ LengthCell \in own'
      BY <3>1 DEF ParamBlock, Cell, LengthCell
    <3>. QED
      BY <2>1, <2>2, <2>3, <3>2
  <2>4. CASE pstate # "READY"
    BY <1>7, <2>1, <2>2, <2>4 DEF ReceiveLength, StoreWhenReady
  <2>. QED
    BY <2>3, <2>4
<1>8. CASE ReceiveParam
  <2>1. UNCHANGED <<pstate, pparam_eeprom, len>> /\ pc' = "loop" /\ pc = "uart" /\ fstate = "PARAM"
        /\ idx' = idx + 1 /\ fstate' = IF idx' < len THEN "PARAM" ELSE "CHECKSUM"
    BY <1>8 DEF ReceiveParam, Parse
  <2>2. CASE pstate = "READY"
    <3>1. PICK byte \in ParamBytes : /\ pparam_sram' = [pparam_sram EXCEPT ![ParamCell(idx)] = byte]
                                     /\ own' = own \cup {ParamCell(idx)}
      BY <1>8, <2>2 DEF ReceiveParam, StoreWhenReady
    <3>2. pparam_sram'[LengthCell] = pparam_sram[LengthCell]
      BY <3>1 DEF ParamBlock, Cell, LengthCell, ParamCell
    <3>3. \A i \in 0 .. idx' - 1 : ParamCell(i) \in own'
      BY <2>1, <2>2, <3>1
    <3>4. fstate' = "CHECKSUM" => idx' = len
      BY <2>1 DEF ParserInBounds, FrameLengths, Byte
    <3>. QED
      BY <2>1, <2>2, <3>1, <3>2, <3>3, <3>4
  <2>3. CASE pstate # "READY"
    BY <1>8, <2>1, <2>3 DEF ReceiveParam, StoreWhenReady
  <2>. QED
    BY <2>2, <2>3
<1>9. CASE ReceiveWrongLength
  <2>1. pstate # "READY" => UNCHANGED pparam_sram
    BY <1>9 DEF ReceiveWrongLength
  <2>. QED
    BY <1>9, <2>1 DEF ReceiveWrongLength, Parse, Restart
<1>10. CASE ReceiveMagic \/ ReceiveCommand
  BY <1>10 DEF ReceiveMagic, ReceiveCommand, Parse
<1>11. CASE ReceiveNoMagic \/ ReceiveWrongChecksum
  BY <1>2, <1>11 DEF ReceiveNoMagic, ReceiveWrongChecksum, Parse
<1>12. CASE HandleCommand
  <2>1. CASE ReadyReport \/ MeasuringReport \/ MeasuringIntermediate \/ DoneReport \/ DoneResend
    BY <1>2, <2>1 DEF ReadyReport, MeasuringReport, MeasuringIntermediate, DoneReport,
       DoneResend, Reply, paramVars
  <2>2. CASE ResetOnCommand \/ UnknownCommand
    BY <1>1, <2>2 DEF ResetOnCommand, UnknownCommand, AwaitReset, Command
  <2>3. CASE ReadyMeasure
    BY <1>5, <2>3 DEF ReadyMeasure, Command, FrameLengths, paramVars
  <2>4. CASE ReadyParamsToEeprom
    BY <2>4 DEF ReadyParamsToEeprom, Command, FrameLengths, parserVars
  <2>5. CASE ReadyParamsFromEeprom
    BY <2>5 DEF ReadyParamsFromEeprom, Command, CopyFromEeprom, Restart
  <2>6. CASE MeasuringAbort
    BY <2>6 DEF MeasuringAbort, Command, Restart, paramVars
  <2>. QED
    BY <1>12, <2>1, <2>2, <2>3, <2>4, <2>5, <2>6 DEF HandleCommand
<1>13. CASE EepromWriteCell
  <2>1. PICK c \in to_write : pparam_eeprom' = [pparam_eeprom EXCEPT ![c] = pparam_sram[c]]
    BY <1>13 DEF EepromWriteCell
  <2>2. pparam_eeprom'[LengthCell] \in {pparam_eeprom[LengthCell], pparam_sram[LengthCell]}
    BY <2>1 DEF ParamBlock, Cell, LengthCell
  <2>. QED
    BY <1>13, <2>2 DEF EepromWriteCell, parserVars
<1>14. CASE EepromWritten
  BY <1>2, <1>14 DEF EepromWritten, Reply, paramVars
<1>15. CASE Boot \/ MeasurementElapsed \/ NothingReceived \/ UNCHANGED vars
  BY <1>1, <1>15 DEF Boot, MeasurementElapsed, NothingReceived, vars
<1>. QED
  BY <1>3, <1>4, <1>6, <1>7, <1>8, <1>9, <1>10, <1>11, <1>12, <1>13, <1>14, <1>15
  DEF Next, MainProgram, PollUart, ParseByte

(* The lengths are right when power is first applied.                      *)
LEMMA LengthsInit ==
  ASSUME NEW least \in {0, ParamSize}, Programmed(least), Init
  PROVE  LengthsOK(least)
BY DEF Programmed, Init, LengthsOK, TableParamsInBounds, BufferFollowsFrame, Length

(* They stay right.                                                        *)
LEMMA LengthsKept ==
  ASSUME NEW least \in {0, ParamSize}, Programmed(least), IInv, LengthsOK(least), [Next]_vars
  PROVE  LengthsOK(least)'
<1>1. Shape /\ (pc = "eeprom" => pstate = "READY")
  BY DEF Shape, IInv, ParserOK, BuffersOK, ControlOK
<1>. QED
  BY <1>1, LengthsStep

(* The lengths are right in every behaviour of such a device.              *)
LEMMA LengthsInvariant ==
  ASSUME Programmed(0)
  PROVE  Spec => [](IInv /\ LengthsOK(0))
<1>1. Init => LengthsOK(0)
  BY LengthsInit
<1>2. IInv /\ LengthsOK(0) /\ [Next]_vars => LengthsOK(0)'
  BY LengthsKept
<1>. QED
  BY <1>1, <1>2, Invariant, PTL DEF Spec

(* On a device whose EEPROM holds no more than fits the buffer no table is *)
(* sent with more parameter bytes than personality_param_t has, whatever   *)
(* lengths the host sends, 0 and those that are refused included.          *)
THEOREM TablesInBounds ==
  ASSUME Programmed(0)
  PROVE  Spec => []TableParamsInBounds
<1>1. LengthsOK(0) => TableParamsInBounds
  BY DEF LengthsOK
<1>. QED
  BY <1>1, LengthsInvariant, PTL

(* The EEPROM keeps a length the personality can work with, even when      *)
(* power fails between two cells of a write, if no frame comes without     *)
(* parameters: such a block would be stored as it is.                      *)
THEOREM EepromStaysValid ==
  ASSUME Programmed(ParamSize)
  PROVE  Spec => []EepromLengthValid
<1>1. LengthsOK(ParamSize) => EepromLengthValid
  BY DEF LengthsOK, EepromLengthValid
<1>2. Init => LengthsOK(ParamSize)
  BY LengthsInit
<1>3. IInv /\ LengthsOK(ParamSize) /\ [Next]_vars => LengthsOK(ParamSize)'
  BY LengthsKept
<1>. QED
  BY <1>1, <1>2, <1>3, Invariant, PTL DEF Spec

(* On such a device a measure command runs with the length and the         *)
(* parameters of its own frame, all the personality needs, unless the      *)
(* frame has none at all.                                                  *)
THEOREM MeasureRunsOwnParams ==
  ASSUME Programmed(0)
  PROVE  Spec => MeasureUsesOwnParams
<1>1. IInv /\ LengthsOK(0) /\ [Next]_vars =>
        [pc = "uart" /\ pstate = "READY" /\ pstate' = "MEASURING"
           => /\ LengthCell \in own /\ Length(pparam_sram) = len
              /\ len # 0 => {ParamCell(i) : i \in 0 .. ParamSize - 1} \subseteq own]_vars
  <2>. SUFFICES ASSUME IInv, LengthsOK(0), [Next]_vars,
                       pc = "uart", pstate = "READY", pstate' = "MEASURING"
                PROVE  /\ LengthCell \in own /\ Length(pparam_sram) = len
                       /\ len # 0 => {ParamCell(i) : i \in 0 .. ParamSize - 1} \subseteq own
    OBVIOUS
  <2>1. ReadyMeasure
    <3>1. ~(Boot \/ PollFinished \/ PollSwitch \/ EepromWriteCell \/ EepromWritten \/ WatchdogReset)
      BY DEF Boot, PollFinished, NotFinished, HandleMeasurementFinished, HandleFinishedInvalid,
         PollSwitch, SwitchNotPressed, HandleSwitchStart, HandleSwitchInvalid, SwitchPressed,
         EepromWriteCell, EepromWritten, WatchdogReset
    <3>2. ~(NothingReceived \/ ParseByte \/ MeasurementElapsed \/ PowerCycle \/ UNCHANGED vars)
      BY DEF NothingReceived, ParseByte, ReceiveMagic, ReceiveNoMagic, ReceiveCommand,
         ReceiveLength, ReceiveWrongLength, ReceiveParam, ReceiveWrongChecksum, Parse,
         MeasurementElapsed, PowerCycle, ResetRam, vars
    <3>3. HandleCommand
      BY <3>1, <3>2 DEF Next, MainProgram, PollUart
    <3>. QED
      BY <3>3 DEF HandleCommand, ReadyReport, ReadyParamsFromEeprom, ReadyParamsToEeprom,
         MeasuringReport, MeasuringIntermediate, MeasuringAbort, DoneReport, DoneResend,
         ResetOnCommand, UnknownCommand, Reply, AwaitReset, Command
  <2>2. fstate = "CHECKSUM"
    BY <2>1 DEF ReadyMeasure, Command
  <2>3. /\ len \in FrameLengths \cup {0} /\ Length(pparam_sram) = len /\ LengthCell \in own
        /\ \A i \in 0 .. len - 1 : ParamCell(i) \in own
    BY <2>2 DEF LengthsOK, BufferFollowsFrame
  <2>4. len # 0 => \A i \in 0 .. ParamSize - 1 : ParamCell(i) \in own
    BY <2>3, ConstantsAssumption DEF FrameLengths
  <2>. QED
    BY <2>3, <2>4
<1>. QED
  BY <1>1, LengthsInvariant, PTL DEF Spec, MeasureUsesOwnParams

-----------------------------------------------------------------------------
(* No step of a measurement or after it touches the parameter buffer: the  *)
(* only step that does so outside READY is a reset.                        *)
THEOREM ParamsAreKept == Spec => ParamsKept
<1>1. [Next]_vars => [pstate # "READY" /\ pc' # "boot" => UNCHANGED pparam_sram]_vars
  <2>. SUFFICES ASSUME [Next]_vars, pstate # "READY", pc' # "boot"
                PROVE  UNCHANGED pparam_sram
    OBVIOUS
  <2>1. CASE PollFinished \/ PollSwitch
    BY <2>1 DEF PollFinished, NotFinished, HandleMeasurementFinished, HandleFinishedInvalid,
       PollSwitch, SwitchNotPressed, HandleSwitchStart, HandleSwitchInvalid, paramVars
  <2>2. CASE ParseByte
    BY <2>2 DEF ParseByte, ReceiveMagic, ReceiveNoMagic, ReceiveCommand, ReceiveLength,
       ReceiveWrongLength, ReceiveParam, ReceiveWrongChecksum, StoreWhenReady
  <2>3. CASE HandleCommand
    BY <2>3 DEF HandleCommand, ReadyReport, ReadyParamsFromEeprom, ReadyParamsToEeprom,
       ReadyMeasure, MeasuringReport, MeasuringIntermediate, MeasuringAbort, DoneReport,
       DoneResend, ResetOnCommand, UnknownCommand, Reply, Command, paramVars
  <2>4. CASE Boot \/ EepromWriteCell \/ EepromWritten \/ MeasurementElapsed \/ NothingReceived
             \/ UNCHANGED vars
    BY <2>4 DEF Boot, EepromWriteCell, EepromWritten, Reply, MeasurementElapsed,
       NothingReceived, paramVars, vars
  <2>5. ~(WatchdogReset \/ PowerCycle)
    BY DEF WatchdogReset, PowerCycle, ResetRam
  <2>. QED
    BY <2>1, <2>2, <2>3, <2>4, <2>5 DEF Next, MainProgram, PollUart
<1>. QED
  BY <1>1, PTL DEF Spec, ParamsKept

-----------------------------------------------------------------------------
(* The mapped state: which state of the device the main program shows.     *)
LEMMA ModeValues ==
  /\ pc = "boot" => Mode = "booting"
  /\ pc = "reset" => Mode = "RESET"
  /\ pc \notin {"boot", "reset"} => Mode = pstate
  /\ pc' = "boot" => Mode' = "booting"
  /\ pc' = "reset" => Mode' = "RESET"
  /\ pc' \notin {"boot", "reset"} => Mode' = pstate'
  BY DEF Mode

(* The frames main.c sends in a state are frames the device serves there.  *)
LEMMA ServedFrames ==
  /\ \A m \in {"READY", "MEASURING", "DONE"} :
       {Info, State(m), Text("param length mismatch"), Text("checksum fail")}
         \subseteq Device!ServedIn(m)
  /\ {State("PARAMS_TO_EEPROM"), Params, Text("invalid EEPROM data")}
       \subseteq Device!ServedIn("READY")
  /\ Table("intermediate") \in Device!ServedIn("MEASURING")
  /\ Table("resend") \in Device!ServedIn("DONE")
<1>. USE DEF Device!ServedIn, Device!Note, Device!State, Device!Info, State, Text, Table, Info, Params
<1>1. \A m \in {"READY", "MEASURING", "DONE"} :
        {Info, State(m), Text("param length mismatch"), Text("checksum fail")}
          \subseteq Device!ServedIn(m)
  <2>1. \A m : {Info, State(m)} \subseteq Device!ServedIn(m)
    OBVIOUS
  <2>2. \A m : {Text("param length mismatch"), Text("checksum fail")} \subseteq Device!ServedIn(m)
    <3>1. Text("param length mismatch") \in Device!Note /\ Text("checksum fail") \in Device!Note
      BY DEF Text, Device!Note
    <3>. HIDE DEF Device!Note
    <3>. QED
      BY <3>1
  <2>. QED
    BY <2>1, <2>2
<1>2. {State("PARAMS_TO_EEPROM"), Params, Text("invalid EEPROM data")}
        \subseteq Device!ServedIn("READY")
  OBVIOUS
<1>3. Table("intermediate") \in Device!ServedIn("MEASURING")
  OBVIOUS
<1>4. Table("resend") \in Device!ServedIn("DONE")
  OBVIOUS
<1>. QED
  BY <1>1, <1>2, <1>3, <1>4

(* The loop goes on, in the state it was in.                               *)
Running ==
  /\ pc \notin {"boot", "reset"} /\ pc' \notin {"boot", "reset"}
  /\ UNCHANGED <<pstate, gf>>

(* While the loop goes on, the device serves the frames of its state.      *)
LEMMA ServeFrames ==
  ASSUME ControlOK, Running, \A i \in DOMAIN sent' : sent'[i] \in Device!ServedIn(pstate)
  PROVE  Device!Serve
BY ModeValues DEF Running, Device!Serve, Device!Up, ControlOK

(* The same for the short sequences of frames that the handlers send.      *)
LEMMA ServeFewFrames ==
  ASSUME ControlOK, Running,
         \/ sent' = <<>>
         \/ \E f \in Device!ServedIn(pstate) : sent' = <<f>>
         \/ \E f, g \in Device!ServedIn(pstate) : sent' = <<f, g>>
  PROVE  Device!Serve
<1>1. CASE sent' = <<>>
  BY <1>1, ServeFrames
<1>2. ASSUME NEW f \in Device!ServedIn(pstate), sent' = <<f>> PROVE Device!Serve
  BY <1>2, ServeFrames
<1>3. ASSUME NEW f \in Device!ServedIn(pstate), NEW g \in Device!ServedIn(pstate),
             sent' = <<f, g>>
      PROVE  Device!Serve
  BY <1>3, ServeFrames
<1>. QED
  BY <1>1, <1>2, <1>3

(* A start succeeds, or is refused because of the timer value.             *)
LEMMA StartOrFault ==
  ASSUME NEW b, ControlOK, StartMeasurement(b), pstate = "READY", pc \notin {"boot", "reset"}
  PROVE  Device!Start \/ Device!TimerFault
<1>. USE ModeValues DEF ControlOK, timerVars
<1>1. CASE pstate' = "MEASURING" /\ pc' = "loop" /\ sent' = <<State("MEASURING")>>
  BY <1>1 DEF Device!Start, Device!State, State
<1>2. CASE pc' = "reset" /\ sent' = <<Text("unsupported timer value")>>
  BY <1>2 DEF Device!TimerFault, Device!Fault, Text
<1>. QED
  BY <1>1, <1>2 DEF StartMeasurement, AwaitReset

(* Frames put one after the other.                                         *)
LEMMA OneAfterTheOther ==
  ASSUME NEW f \in Frame, NEW g \in Frame
  PROVE  <<f>> \o <<g>> = <<f, g>> /\ <<>> \o <<g>> = <<g>>
<1>. HIDE DEF Frame
<1>1. <<f>> \in Seq(Frame) /\ <<g>> \in Seq(Frame) /\ <<f, g>> \in Seq(Frame)
      /\ Len(<<f>>) = 1 /\ Len(<<g>>) = 1 /\ Len(<<f, g>>) = 2
      /\ <<f>>[1] = f /\ <<g>>[1] = g /\ <<f, g>>[1] = f /\ <<f, g>>[2] = g
  OBVIOUS
<1>2. \A s, t, u \in Seq(Frame) :
        Len(s) = 1 /\ Len(t) = 1 /\ Len(u) = 2 /\ s[1] = u[1] /\ t[1] = u[2] => s \o t = u
  <2>. SUFFICES ASSUME NEW s \in Seq(Frame), NEW t \in Seq(Frame), NEW u \in Seq(Frame),
                       Len(s) = 1, Len(t) = 1, Len(u) = 2, s[1] = u[1], t[1] = u[2]
                PROVE  s \o t = u
    OBVIOUS
  <2>1. /\ s \o t \in Seq(Frame) /\ Len(s \o t) = Len(s) + Len(t)
        /\ \A i \in 1 .. Len(s) + Len(t) :
             (s \o t)[i] = IF i <= Len(s) THEN s[i] ELSE t[i - Len(s)]
    BY ConcatProperties
  <2>2. Len(s \o t) = Len(u) /\ \A i \in 1 .. Len(s \o t) : (s \o t)[i] = u[i]
    BY <2>1
  <2>. QED
    BY <2>1, <2>2, SeqEqual
<1>3. <<f>> \o <<g>> = <<f, g>>
  BY <1>1, <1>2, Zenon
<1>4. <<>> \o <<g>> = <<g>>
  BY <1>1, ConcatEmptySeq
<1>. QED
  BY <1>3, <1>4

(* The info precedes the state exactly if the host asked for it.           *)
LEMMA InfoOrNot ==
  ASSUME ControlOK
  PROVE  InfoIfAsked \o <<State(pstate)>> =
           IF cmd = "f" THEN <<Info, State(pstate)>> ELSE <<State(pstate)>>
<1>1. Info \in Frame /\ State(pstate) \in Frame
  BY FramesExist DEF ControlOK, StateName
<1>2. /\ <<Info>> \o <<State(pstate)>> = <<Info, State(pstate)>>
      /\ <<>> \o <<State(pstate)>> = <<State(pstate)>>
  BY <1>1, OneAfterTheOther
<1>. QED
  BY <1>2, Zenon DEF InfoIfAsked

(* What the device answers to a command, in the frames of main.c.          *)
LEMMA AnswersGiven ==
  ASSUME NEW c, pc \notin {"boot", "reset"}
  PROVE  /\ c = "f" => <<Info, State(pstate)>> \in Device!Answers(c)
         /\ c = "s" => <<State(pstate)>> \in Device!Answers(c)
         /\ pstate = "READY" /\ c \in {"a", "i"} => <<State(pstate)>> \in Device!Answers(c)
         /\ pstate = "READY" /\ c = "e"
              => <<State("PARAMS_TO_EEPROM"), State("READY")>> \in Device!Answers(c)
         /\ pstate = "READY" /\ c = "E"
              => {<<Params, State("READY")>>,
                  <<Text("invalid EEPROM data"), State("READY")>>} \subseteq Device!Answers(c)
         /\ pstate = "MEASURING" /\ c = "i"
              => <<Table("intermediate"), State(pstate)>> \in Device!Answers(c)
         /\ pstate = "MEASURING" /\ c \in {"e", "E", "m", "r"}
              => <<State(pstate)>> \in Device!Answers(c)
         /\ pstate = "DONE" /\ c \notin {"f", "s", "r"}
              => <<Table("resend"), State(pstate)>> \in Device!Answers(c)
<1>1. Mode = pstate
  BY ModeValues
<1>. QED
  BY <1>1 DEF Device!Answers, Device!State, Device!Info, State, Info, Params, Text, Table

(* Every command is obeyed; the one that writes the EEPROM in two parts.   *)
LEMMA CommandObeyed ==
  ASSUME ControlOK, HandleCommand
  PROVE  \/ Device!Obeys(cmd)
         \/ pc' = "eeprom" /\ sent' \o <<State("READY")>> \in Device!Answers(cmd)
<1>. USE ModeValues DEF Device!Obeys
<1>1. CASE ReadyReport \/ MeasuringReport \/ DoneReport
  <2>1. Running /\ sent' = InfoIfAsked \o <<State(pstate)>> /\ pc \notin {"boot", "reset"}
    BY <1>1 DEF ReadyReport, MeasuringReport, DoneReport, Reply, Command, Running, timerVars
  <2>2. sent' = IF cmd = "f" THEN <<Info, State(pstate)>> ELSE <<State(pstate)>>
    BY <2>1, InfoOrNot
  <2>3. Device!Serve
    BY <2>1, <2>2, ServeFewFrames, ServedFrames DEF ControlOK
  <2>4. \/ cmd \in {"f", "s"}
        \/ pstate = "READY" /\ cmd \in {"a", "i"}
        \/ pstate = "MEASURING" /\ cmd \in {"e", "E", "m", "r"}
    BY <1>1 DEF ReadyReport, MeasuringReport, DoneReport, Command
  <2>5. sent' \in Device!Answers(cmd)
    BY <2>1, <2>2, <2>4, AnswersGiven
  <2>. QED
    BY <2>3, <2>5
<1>2. CASE MeasuringIntermediate \/ DoneResend
  <2>1. Running /\ pc \notin {"boot", "reset"}
    BY <1>2 DEF MeasuringIntermediate, DoneResend, Reply, Command, Running, timerVars
  <2>2. PICK t \in Device!ServedIn(pstate) : sent' = <<t, State(pstate)>>
    BY <1>2, ServedFrames DEF MeasuringIntermediate, DoneResend, Reply, Command
  <2>3. Device!Serve
    BY <2>1, <2>2, ServeFewFrames, ServedFrames DEF ControlOK
  <2>4. sent' \in Device!Answers(cmd)
    BY <1>2, <2>1, AnswersGiven DEF MeasuringIntermediate, DoneResend, Reply, Command
  <2>. QED
    BY <2>3, <2>4
<1>3. CASE ReadyParamsFromEeprom
  <2>1. Running /\ pc \notin {"boot", "reset"} /\ pstate = "READY" /\ cmd = "E"
    BY <1>3 DEF ReadyParamsFromEeprom, Command, Running, timerVars
  <2>2. \/ sent' = <<Params, State("READY")>>
        \/ sent' = <<Text("invalid EEPROM data"), State("READY")>>
    BY <1>3 DEF ReadyParamsFromEeprom
  <2>3. Device!Serve
    BY <2>1, <2>2, ServeFewFrames, ServedFrames
  <2>4. sent' \in Device!Answers(cmd)
    BY <2>1, <2>2, AnswersGiven
  <2>. QED
    BY <2>3, <2>4
<1>4. CASE ReadyParamsToEeprom
  <2>1. /\ pc \notin {"boot", "reset"} /\ pstate = "READY" /\ cmd = "e"
        /\ pc' = "eeprom" /\ sent' = <<State("PARAMS_TO_EEPROM")>>
    BY <1>4 DEF ReadyParamsToEeprom, Command
  <2>2. <<State("PARAMS_TO_EEPROM"), State("READY")>> \in Device!Answers(cmd)
    BY <2>1, AnswersGiven
  <2>3. State("PARAMS_TO_EEPROM") \in Frame /\ State("READY") \in Frame
    BY FramesExist DEF StateName
  <2>4. <<State("PARAMS_TO_EEPROM")>> \o <<State("READY")>>
          = <<State("PARAMS_TO_EEPROM"), State("READY")>>
    BY <2>3, OneAfterTheOther
  <2>. QED
    BY <2>1, <2>2, <2>4, Zenon
<1>5. CASE ReadyMeasure
  BY <1>5, StartOrFault DEF ReadyMeasure, Command
<1>6. CASE MeasuringAbort
  BY <1>6 DEF MeasuringAbort, Command, Device!Abort, Device!State, State, Table, ControlOK
<1>7. CASE ResetOnCommand
  BY <1>7 DEF ResetOnCommand, Command, AwaitReset, Device!Reset, Device!State, State
<1>8. CASE UnknownCommand
  BY <1>8 DEF UnknownCommand, Command, AwaitReset, Device!CommandFault, Device!Fault, Text
<1>. QED
  BY <1>1, <1>2, <1>3, <1>4, <1>5, <1>6, <1>7, <1>8 DEF HandleCommand

(* The second part of the answer to the command that writes the EEPROM.    *)
LEMMA WriteAnswered ==
  ASSUME ControlOK, EepromWritten
  PROVE  <<State("PARAMS_TO_EEPROM")>> \o sent' \in Device!Answers("e")
<1>1. pc = "eeprom" /\ pstate = "READY" /\ sent' = <<State("READY")>>
  BY DEF EepromWritten, Reply, ControlOK
<1>2. <<State("PARAMS_TO_EEPROM"), State("READY")>> \in Device!Answers("e")
  BY <1>1, AnswersGiven
<1>3. State("PARAMS_TO_EEPROM") \in Frame /\ State("READY") \in Frame
  BY FramesExist DEF StateName
<1>4. <<State("PARAMS_TO_EEPROM")>> \o <<State("READY")>>
        = <<State("PARAMS_TO_EEPROM"), State("READY")>>
  BY <1>3, OneAfterTheOther
<1>. QED
  BY <1>1, <1>2, <1>4, Zenon

(* Every step of the main program is a step of the device, or none.        *)
LEMMA DeviceStep ==
  ASSUME ControlOK, [Next]_vars
  PROVE  [Device!Next]_(Device!vars)
<1>. USE ModeValues DEF Device!Next, timerVars
<1>1. CASE WatchdogReset \/ PowerCycle
  BY <1>1 DEF WatchdogReset, PowerCycle, ResetRam, Device!Reboot, Device!Mode, Device!Up, ControlOK
<1>2. CASE Boot
  BY <1>2 DEF Boot, Device!Announce, Device!Info, Device!State, Info, State, ControlOK
<1>3. CASE MeasurementElapsed \/ UNCHANGED vars
  BY <1>3 DEF MeasurementElapsed, vars, Device!vars, ControlOK, DoneIsFrozen, Mode
<1>4. CASE PollFinished
  <2>1. CASE NotFinished
    BY <2>1, ServeFewFrames DEF NotFinished, Running
  <2>2. CASE HandleMeasurementFinished
    BY <2>2 DEF HandleMeasurementFinished, Device!Finish, Table
  <2>3. CASE HandleFinishedInvalid
    BY <2>3 DEF HandleFinishedInvalid, AwaitReset, Device!LateFault, Device!Fault, Text,
       ControlOK, SwitchLockedOutsideReady
  <2>. QED
    BY <1>4, <2>1, <2>2, <2>3 DEF PollFinished
<1>5. CASE PollSwitch
  <2>1. CASE SwitchNotPressed
    BY <2>1, ServeFewFrames DEF SwitchNotPressed, Running
  <2>2. CASE HandleSwitchStart
    BY <2>2, StartOrFault DEF HandleSwitchStart, SwitchPressed
  <2>3. CASE HandleSwitchInvalid
    BY <2>3, ServedFrames, ServeFewFrames DEF HandleSwitchInvalid, SwitchPressed, Running
  <2>. QED
    BY <1>5, <2>1, <2>2, <2>3 DEF PollSwitch
<1>6. CASE ParseByte
  <2>1. Running /\ sent' \in {<<>>, <<Text("param length mismatch")>>, <<Text("checksum fail")>>}
    BY <1>6 DEF ParseByte, ReceiveMagic, ReceiveNoMagic, ReceiveCommand, ReceiveLength,
       ReceiveWrongLength, ReceiveParam, ReceiveWrongChecksum, Parse, Running
  <2>. QED
    BY <2>1, ServeFewFrames, ServedFrames DEF ControlOK
<1>7. CASE NothingReceived \/ EepromWriteCell
  BY <1>7, ServeFewFrames DEF NothingReceived, EepromWriteCell, Running
<1>8. CASE EepromWritten
  BY <1>8, ServeFewFrames, ServedFrames DEF EepromWritten, Reply, ControlOK, Running
<1>9. CASE ReadyParamsToEeprom
  BY <1>9, ServeFewFrames, ServedFrames DEF ReadyParamsToEeprom, Command, Running
<1>10. CASE HandleCommand /\ pc' # "eeprom"
  BY <1>10, CommandObeyed DEF Device!Obeys
<1>11. HandleCommand /\ pc' = "eeprom" => ReadyParamsToEeprom
  BY DEF HandleCommand, ReadyReport, ReadyParamsFromEeprom, ReadyMeasure, MeasuringReport,
     MeasuringIntermediate, MeasuringAbort, DoneReport, DoneResend, ResetOnCommand,
     UnknownCommand, Reply, StartMeasurement, AwaitReset
<1>. QED
  BY <1>1, <1>2, <1>3, <1>4, <1>5, <1>6, <1>7, <1>8, <1>9, <1>10, <1>11
  DEF Next, MainProgram, PollUart

(* Whatever its surroundings do, the firmware shows its host the device    *)
(* state machine: states reported truthfully, every reset announced by its *)
(* cause, a measurement that ended left by a reset only.  And each command *)
(* a frame brings does what the device does with it and is answered so.    *)
THEOREM FirmwareIsDevice == Spec => ImplementsDevice
<1>1. Init => Device!Init
  BY DEF Init, Device!Init, Mode
<1>2. IInv /\ [Next]_vars => [Device!Next]_(Device!vars)
  BY DeviceStep DEF IInv
<1>3. IInv /\ [Next]_vars =>
        [/\ HandleCommand =>
              \/ Device!Obeys(cmd)
              \/ pc' = "eeprom" /\ sent' \o <<State("READY")>> \in Device!Answers(cmd)
         /\ EepromWritten =>
              <<State("PARAMS_TO_EEPROM")>> \o sent' \in Device!Answers("e")]_vars
  BY CommandObeyed, WriteAnswered DEF IInv
<1>. QED
  BY <1>1, <1>2, <1>3, Invariant, PTL DEF Spec, ImplementsDevice, ObeysCommands, Device!Spec

=============================================================================
