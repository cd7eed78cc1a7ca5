------------------------------- MODULE HostLink -------------------------------
(***************************************************************************)
(* The way of a frame from the device to the host: frame_start(),          *)
(* uart_putb() and frame_end() (firmware/frame-comm.c) send its bytes, the *)
(* line may lose or corrupt some of them, the device may be switched off   *)
(* in their middle, and the host's parser receives what is left.           *)
(*                                                                         *)
(* The device begins a frame when the one before has arrived: the parser   *)
(* sees bytes, not pauses, so that nothing depends on it.                  *)
(***************************************************************************)
EXTENDS HostFrameParser

CONSTANTS
  Frames,       \* the frames the device may send: type and payload
  ChecksumOf(_),\* the checksum byte of some bytes
  Noise,        \* what a corrupted byte may become
  MaxFaults     \* bound: bytes lost or corrupted, frames cut short

ASSUME LinkAssumption ==
  /\ \A frame \in Frames : frame.type \in Byte /\ frame.payload \in Seq(Byte)
                           /\ Len(frame.payload) \in Size
  /\ Noise \subseteq Byte
  /\ MaxFaults \in Nat

VARIABLES
  line,    \* bytes of the frame that have not arrived
  sent,    \* the frame sent last
  aligned, \* history: whether the parser waited for a frame when it was sent
  hit,     \* history: what the line did to it, at how many bytes from the end
  faults   \* faults so far

linkVars == <<line, sent, aligned, hit, faults>>
allVars  == <<vars, linkVars>>

-----------------------------------------------------------------------------
(* The bytes the checksum is computed over.                                *)
Summed(frame) ==
  Magic \o <<Low(Len(frame.payload)), High(Len(frame.payload)), frame.type>> \o frame.payload

OnLine(frame) == Summed(frame) \o <<ChecksumOf(Summed(frame))>>

(* The host computes the checksum the device sends, which tells bytes from *)
(* bytes that differ in the last one only.                                 *)
ASSUME SameChecksum ==
  \A frame \in Frames :
    LET bytes == Summed(frame)
        sum   == ChecksumOf(bytes)
    IN /\ sum \in Byte
       /\ \A byte \in Byte :
            /\ Matches(bytes, byte) <=> byte = sum
            /\ Matches([bytes EXCEPT ![Len(bytes)] = byte], sum) => byte = bytes[Len(bytes)]

(* The packet parser is called with it.                                    *)
Packet(frame) ==
  LET length == Len(frame.payload) IN
    [type |-> frame.type, size |-> length,
     payload |-> [i \in 0 .. length |-> IF i = length THEN 0 ELSE frame.payload[i + 1]]]

LinkInit ==
  /\ Init
  /\ line = <<>> /\ sent \in Frames /\ aligned = FALSE /\ hit = <<>> /\ faults = 0

Send ==
  /\ line = <<>> /\ ~aborted
  /\ \E frame \in Frames : sent' = frame /\ line' = OnLine(frame)
  /\ aligned' = (state = "MAGIC" /\ offset = 0) /\ hit' = <<>>
  /\ handed' = NoPacket
  /\ UNCHANGED <<parser, memory, aborted, faults>>

Arrive ==
  /\ line # <<>>
  /\ Receive(Head(line)) /\ line' = Tail(line)
  /\ UNCHANGED <<sent, aligned, hit, faults>>

Fault(kind) ==
  /\ line # <<>> /\ faults < MaxFaults
  /\ faults' = faults + 1 /\ hit' = Append(hit, <<kind, Len(line)>>)
  /\ handed' = NoPacket
  /\ UNCHANGED <<parser, memory, aborted, sent, aligned>>

Lose == Fault("lost") /\ line' = Tail(line)

Corrupt ==
  Fault("corrupted") /\ \E noise \in Noise \ {Head(line)} : line' = <<noise>> \o Tail(line)

(* The device loses power in the middle of a frame.                        *)
Truncate == Fault("cut short") /\ line' = <<>>

LinkNext == Send \/ Arrive \/ Lose \/ Corrupt \/ Truncate

LinkSpec == LinkInit /\ [][LinkNext]_allVars

(* The device goes on sending frames, and their bytes arrive.              *)
LinkFairSpec == LinkSpec /\ WF_allVars(Send) /\ WF_allVars(Arrive)

-----------------------------------------------------------------------------
(***************************************************************************)
(* A frame sent to a waiting parser over a line that leaves it alone is    *)
(* handed on as it was sent, whatever the parser went through before, but  *)
(* one without payload aborts the program; and before the first fault it   *)
(* waits at every end of a frame, having thrown none away: it and the      *)
(* device stay in step.                                                    *)
(***************************************************************************)
IntactIsHanded ==
  /\ line = <<>> /\ aligned /\ hit = <<>> =>
       IF sent.payload = <<>> THEN aborted ELSE handed = Packet(sent)
  /\ faults = 0 /\ line = <<>> /\ ~aborted =>
       checksum_errors = 0 /\ state = "MAGIC" /\ offset = 0

(***************************************************************************)
(* A frame whose last payload byte, or whose checksum, was corrupted is    *)
(* thrown away.  The checksum promises no more: its low byte alone is      *)
(* sent, and a byte further in front may change without touching it.       *)
(***************************************************************************)
CaughtAtEnd ==
  line = <<>> /\ aligned /\ (\E left \in {1, 2} : hit = <<<<"corrupted", left>>>>)
    => handed = NoPacket

(***************************************************************************)
(* The parser finds back: after the last fault, frames are again handed on *)
(* as they were sent, unless the program has aborted.                      *)
(***************************************************************************)
Delivered == line = <<>> /\ handed = Packet(sent)

Recovers == []<>(aborted \/ Delivered)

=============================================================================
