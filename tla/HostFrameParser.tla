--------------------------- MODULE HostFrameParser ---------------------------
(***************************************************************************)
(* The host's parser of the frames a device sends: step_fsm() in           *)
(* hostware/frame-parser.c, which is called with one byte after the other, *)
(* and the memory of the frames it builds (hostware/frame.c).              *)
(*                                                                         *)
(* The bytes are chosen when they are read: nothing is assumed of device   *)
(* and line.  The checksum's accumulator is represented by the bytes that  *)
(* went into it, and checksum_match() may be any function of them.         *)
(***************************************************************************)
EXTENDS Integers, Sequences

CONSTANTS
  Magic,         \* FRAME_MAGIC_STR
  Base,          \* number of values of a byte (256)
  Matches(_, _), \* checksum_match(): whether a byte is the checksum of some bytes
  MaxErrors      \* bound: checksum errors the parser lives to see

ASSUME ParserAssumption ==
  /\ Base \in Nat \ {0, 1}
  /\ Magic \in Seq(0 .. Base - 1) /\ Magic # <<>>
  /\ MaxErrors \in Nat

Byte == 0 .. Base - 1
Size == 0 .. Base * Base - 1
Low(size)  == size % Base
High(size) == size \div Base

VARIABLES
  state,           \* state_t
  offset,          \* index into the magic, the size or the payload
  frame_size,      \* size of the frame in progress, as far as it was read
  frame_type,      \* type of the frame in progress
  frame_wip,       \* payload memory of the frame in progress
  summed,          \* checksum_input: the bytes since its last reset
  checksum_errors, \* frames thrown away
  live,            \* frames allocated and not freed
  handed,          \* the frame the packet parser was called with by the last step
  aborted          \* whether the program called abort()

parser == <<state, offset, frame_size, frame_type, summed>>
memory == <<frame_wip, checksum_errors, live>>
vars   == <<parser, memory, handed, aborted>>

-----------------------------------------------------------------------------
(***************************************************************************)
(* frame_new() does not clear the memory.  No frame is in progress before  *)
(* it and after frame_unref(); after a checksum error the pointer is just  *)
(* not used any more.                                                      *)
(***************************************************************************)
Unset == -1
NoFrame == <<>>

FrameNew(size) == [i \in 0 .. size |-> Unset]

NoPacket == [type |-> Unset, size |-> 0, payload |-> NoFrame]

Init ==
  /\ state = "MAGIC" /\ offset = 0 /\ frame_size = 0 /\ frame_type = 0
  /\ frame_wip = NoFrame /\ summed = <<>> /\ checksum_errors = 0 /\ live = 0
  /\ handed = NoPacket /\ aborted = FALSE

Sum(byte) == summed' = Append(summed, byte)

(* What the steps before the payload have in common.                       *)
Step(from) == ~aborted /\ state = from /\ handed' = NoPacket

\* Mutant: the checksum is not reset.
ReceiveMagic_NoReset(byte) ==
  /\ Step("MAGIC") /\ byte = Magic[offset + 1]
  /\ Sum(byte)
  /\ IF offset + 1 < Len(Magic)
       THEN offset' = offset + 1 /\ UNCHANGED state
       ELSE offset' = 0 /\ state' = "SIZE"
  /\ UNCHANGED <<frame_size, frame_type, memory, aborted>>

(* The first byte of the magic starts a new checksum.                      *)
ReceiveMagic(byte) ==
  /\ Step("MAGIC") /\ byte = Magic[offset + 1]
  /\ IF offset = 0 THEN summed' = <<byte>> ELSE Sum(byte)
  /\ IF offset + 1 < Len(Magic)
       THEN offset' = offset + 1 /\ UNCHANGED state
       ELSE offset' = 0 /\ state' = "SIZE"
  /\ UNCHANGED <<frame_size, frame_type, memory, aborted>>

(* The byte is consumed, even if it is the first one of a magic.           *)
ReceiveNoMagic(byte) ==
  /\ Step("MAGIC") /\ byte # Magic[offset + 1]
  /\ offset' = 0
  /\ UNCHANGED <<state, frame_size, frame_type, summed, memory, aborted>>

\* Mutant: the first byte is taken for the high one.
ReceiveSize_BigEndian(byte) ==
  /\ Step("SIZE") /\ Sum(byte)
  /\ \/ /\ offset = 0 /\ offset' = 1
        /\ frame_size' = Low(frame_size) + Base * byte
        /\ UNCHANGED state
     \/ /\ offset = 1 /\ offset' = 0
        /\ frame_size' = Base * High(frame_size) + byte
        /\ state' = "FRAME_TYPE"
  /\ UNCHANGED <<frame_type, memory, aborted>>

ReceiveSize(byte) ==
  /\ Step("SIZE") /\ Sum(byte)
  /\ \/ /\ offset = 0 /\ offset' = 1
        /\ frame_size' = Base * High(frame_size) + byte
        /\ UNCHANGED state
     \/ /\ offset = 1 /\ offset' = 0
        /\ frame_size' = Low(frame_size) + Base * byte
        /\ state' = "FRAME_TYPE"
  /\ UNCHANGED <<frame_type, memory, aborted>>

ReceiveFrameType(byte) ==
  /\ Step("FRAME_TYPE") /\ Sum(byte)
  /\ frame_type' = byte /\ offset' = 0
  /\ frame_wip' = FrameNew(frame_size) /\ live' = live + 1
  /\ state' = "PAYLOAD"
  /\ UNCHANGED <<frame_size, checksum_errors, aborted>>

(* A frame of size 0 passes both comparisons and ends in abort().          *)
ReceivePayload(byte) ==
  /\ Step("PAYLOAD") /\ Sum(byte)
  /\ frame_wip' = [frame_wip EXCEPT ![offset] = byte]
  /\ offset' = offset + 1
  /\ \/ offset' < frame_size /\ UNCHANGED <<state, aborted>>
     \/ offset' = frame_size /\ state' = "CHECKSUM" /\ UNCHANGED aborted
     \/ offset' > frame_size /\ aborted' = TRUE /\ UNCHANGED state
  /\ UNCHANGED <<frame_size, frame_type, checksum_errors, live>>

\* Mutant: the checksum is not looked at.
HandFrame_AnyChecksum(byte) ==
  /\ ~aborted /\ state = "CHECKSUM"
  /\ handed' = [type |-> frame_type, size |-> frame_size,
                payload |-> [frame_wip EXCEPT ![offset] = 0]]
  /\ frame_wip' = NoFrame /\ live' = live - 1
  /\ offset' = 0 /\ state' = "MAGIC"
  /\ UNCHANGED <<frame_size, frame_type, summed, checksum_errors, aborted>>

\* Mutant: the frame is not freed.
HandFrame_NoUnref(byte) ==
  /\ ~aborted /\ state = "CHECKSUM" /\ Matches(summed, byte)
  /\ handed' = [type |-> frame_type, size |-> frame_size,
                payload |-> [frame_wip EXCEPT ![offset] = 0]]
  /\ frame_wip' = NoFrame
  /\ offset' = 0 /\ state' = "MAGIC"
  /\ UNCHANGED <<frame_size, frame_type, summed, checksum_errors, live, aborted>>

(* The payload is nul terminated, handed on and freed.                     *)
HandFrame(byte) ==
  /\ ~aborted /\ state = "CHECKSUM" /\ Matches(summed, byte)
  /\ handed' = [type |-> frame_type, size |-> frame_size,
                payload |-> [frame_wip EXCEPT ![offset] = 0]]
  /\ frame_wip' = NoFrame /\ live' = live - 1
  /\ offset' = 0 /\ state' = "MAGIC"
  /\ UNCHANGED <<frame_size, frame_type, summed, checksum_errors, aborted>>

\* Mutant: the parser does not go back to the magic.
ReceiveWrongChecksum_KeepState(byte) ==
  /\ Step("CHECKSUM") /\ ~Matches(summed, byte)
  /\ checksum_errors < MaxErrors /\ checksum_errors' = checksum_errors + 1
  /\ UNCHANGED <<state, offset, frame_wip>>
  /\ UNCHANGED <<frame_size, frame_type, summed, live, aborted>>

(* The frame is thrown away, but not freed.                                *)
ReceiveWrongChecksum(byte) ==
  /\ Step("CHECKSUM") /\ ~Matches(summed, byte)
  /\ checksum_errors < MaxErrors /\ checksum_errors' = checksum_errors + 1
  /\ frame_wip' = NoFrame
  /\ offset' = 0 /\ state' = "MAGIC"
  /\ UNCHANGED <<frame_size, frame_type, summed, live, aborted>>

(* step_fsm(): one byte.                                                   *)
Receive(byte) ==
  \/ ReceiveMagic(byte) \/ ReceiveNoMagic(byte) \/ ReceiveSize(byte)
  \/ ReceiveFrameType(byte) \/ ReceivePayload(byte)
  \/ HandFrame(byte) \/ ReceiveWrongChecksum(byte)

Next == \E byte \in Byte : Receive(byte)

Spec == Init /\ [][Next]_vars

-----------------------------------------------------------------------------
IsMemory(payload) ==
  payload = NoFrame \/ \E size \in Size : payload \in [0 .. size -> Byte \cup {Unset}]

IsPacket(packet) ==
  packet.type \in Byte \cup {Unset} /\ packet.size \in Size /\ IsMemory(packet.payload)

(* The ranges of the variables.                                            *)
TypeOK ==
  /\ state \in {"MAGIC", "SIZE", "FRAME_TYPE", "PAYLOAD", "CHECKSUM"}
  /\ offset \in Nat /\ frame_size \in Size /\ frame_type \in Byte
  /\ IsMemory(frame_wip) /\ summed \in Seq(Byte)
  /\ checksum_errors \in 0 .. MaxErrors /\ live \in Nat
  /\ IsPacket(handed) /\ aborted \in BOOLEAN

(***************************************************************************)
(* Whatever sizes are announced, the parser compares bytes of the magic    *)
(* only, and writes payload and terminating nul inside the frame it has    *)
(* allocated for this size.                                                *)
(***************************************************************************)
IndexInBounds ==
  ~aborted =>
    /\ state = "MAGIC" => offset < Len(Magic)
    /\ state \in {"PAYLOAD", "CHECKSUM"} => offset \in DOMAIN frame_wip

(***************************************************************************)
(* bytes are a magic, the size and the type of a frame, and the payload in *)
(* memory up to its length.                                                *)
(***************************************************************************)
Spells(bytes, size, type, payload, length) ==
  /\ Len(bytes) = Len(Magic) + 3 + length
  /\ \A i \in 1 .. Len(Magic) : bytes[i] = Magic[i]
  /\ bytes[Len(Magic) + 1] = Low(size) /\ bytes[Len(Magic) + 2] = High(size)
  /\ bytes[Len(Magic) + 3] = type
  /\ \A i \in 1 .. length : bytes[Len(Magic) + 3 + i] = payload[i - 1]

(***************************************************************************)
(* A frame that is handed on is the one its checksum was computed over,    *)
(* "over all bytes beginning with magic value" (include/frame-defs.h): its *)
(* header and all its payload, no byte missing, none from another frame,   *)
(* and a nul byte behind it.                                               *)
(***************************************************************************)
HandedIsSummed ==
  handed # NoPacket =>
    /\ Spells(summed, handed.size, handed.type, handed.payload, handed.size)
    /\ handed.payload[handed.size] = 0

(***************************************************************************)
(* The memory the parser holds is the frame in progress, and one frame for *)
(* every checksum error so far: all others were freed, those never.        *)
(***************************************************************************)
MemoryIsCounted ==
  live = checksum_errors + (IF state \in {"PAYLOAD", "CHECKSUM"} THEN 1 ELSE 0)

(***************************************************************************)
(* The parser aborts the program on a frame that announces no payload, and *)
(* on no other, however its bytes were lost, corrupted or run together.    *)
(***************************************************************************)
AbortsOnEmptyOnly == aborted => frame_size = 0 /\ state = "PAYLOAD"

=============================================================================
