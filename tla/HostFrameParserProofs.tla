------------------------ MODULE HostFrameParserProofs ------------------------
(***************************************************************************)
(* Whatever bytes arrive, a frame that is handed on is the one its         *)
(* checksum was computed over, the parser stays inside the memory of its   *)
(* frame, and this memory is accounted for.  Proved for every magic, every *)
(* size of a byte and every checksum.                                      *)
(*                                                                         *)
(* And over the line of HostLink, for every set of frames: one sent to a   *)
(* waiting parser is handed on as it was sent unless the line harms it,    *)
(* and is thrown away when one of its last two bytes was corrupted.        *)
(***************************************************************************)
EXTENDS HostLink, Division, SequenceTheorems

-----------------------------------------------------------------------------
(* A byte is smaller than Base, and zero is one.                           *)
LEMMA Bytes ==
  /\ Base \in Nat \ {0} /\ Base > 1 /\ 0 \in Byte
  /\ \A byte \in Byte : byte \in Nat /\ byte \in 0 .. Base - 1
<1>. QED
  BY ParserAssumption DEF Byte

(* A size is made of two bytes.                                            *)
LEMMA SizeOfBytes ==
  ASSUME NEW low \in Byte, NEW high \in Byte
  PROVE  /\ Base * high + low \in Size /\ low + Base * high = Base * high + low
         /\ Low(Base * high + low) = low /\ High(Base * high + low) = high
<1>1. low \in 0 .. Base - 1 /\ high \in Nat /\ high < Base /\ Base \in Nat \ {0}
  BY Bytes
<1>2. Base * high + Base <= Base * Base
  BY <1>1, MultiplesAreApart
<1>3. Base * high >= 0 /\ Base * high \in Int /\ Base * Base \in Int
  BY <1>1, SMT
<1>4. Base * high + low \in Size
  BY <1>1, <1>2, <1>3 DEF Size
<1>5. Low(Base * high + low) = low /\ High(Base * high + low) = high
  BY <1>1, DivisionIsUnique DEF Low, High
<1>6. low + Base * high = Base * high + low
  BY <1>1, <1>3
<1>. QED
  BY <1>4, <1>5, <1>6

(* The bytes of a size are bytes.                                          *)
LEMMA BytesOfSize ==
  ASSUME NEW size \in Size
  PROVE  size \in Nat /\ Low(size) \in Byte /\ High(size) \in Byte
<1>1. Base \in Nat \ {0} /\ Base * Base \in Int
  BY Bytes, SMT
<1>2. size \in Nat /\ size < Base * Base
  BY <1>1 DEF Size
<1>3. High(size) \in Nat /\ Low(size) \in Byte /\ size = Base * High(size) + Low(size)
  BY <1>1, <1>2, DivisionWithRemainder DEF Low, High, Byte
<1>4. ~(Base <= High(size))
  <2>1. Base < High(size) => Base * Base + Base <= Base * High(size)
    BY <1>1, <1>3, MultiplesAreApart
  <2>2. Base = High(size) => Base * Base = Base * High(size)
    OBVIOUS
  <2>3. Base * High(size) \in Int /\ Low(size) \in Nat
    BY <1>1, <1>3, Bytes
  <2>. QED
    BY <2>1, <2>2, <2>3, <1>1, <1>2, <1>3
<1>. QED
  BY <1>1, <1>2, <1>3, <1>4 DEF Byte

-----------------------------------------------------------------------------
(***************************************************************************)
(* The inductive invariant says, for each state of the parser, which part  *)
(* of a frame the summed bytes are.  In the payload the offset is inside   *)
(* the frame or at the start of an empty one, so that it is at the frame's *)
(* end when the checksum is awaited.                                       *)
(***************************************************************************)
MagicSeen(length) ==
  length <= Len(Magic) /\ \A i \in 1 .. length : summed[i] = Magic[i]

HeaderSeen(length) ==
  /\ Len(summed) = Len(Magic) + length /\ MagicSeen(Len(Magic))
  /\ length >= 1 => summed[Len(Magic) + 1] = Low(frame_size)
  /\ length >= 2 => summed[Len(Magic) + 2] = High(frame_size)

PayloadSeen ==
  /\ frame_wip \in [0 .. frame_size -> Byte \cup {Unset}]
  /\ Spells(summed, frame_size, frame_type, frame_wip, offset)

Progress ==
  /\ state = "MAGIC" =>
       offset < Len(Magic) /\ (offset > 0 => Len(summed) = offset /\ MagicSeen(offset))
  /\ state = "SIZE" => offset \in {0, 1} /\ HeaderSeen(offset)
  /\ state = "FRAME_TYPE" => HeaderSeen(2)
  /\ state = "PAYLOAD" /\ ~aborted =>
       (offset < frame_size \/ offset = 0) /\ PayloadSeen
  /\ state = "CHECKSUM" => offset = frame_size /\ PayloadSeen

IInv == TypeOK /\ Progress /\ MemoryIsCounted /\ HandedIsSummed

-----------------------------------------------------------------------------
(* What a sequence is after another byte.                                  *)
LEMMA Appended ==
  ASSUME NEW bytes \in Seq(Byte), NEW byte \in Byte
  PROVE  /\ Append(bytes, byte) \in Seq(Byte)
         /\ Len(bytes) \in Nat /\ Len(Append(bytes, byte)) = Len(bytes) + 1
         /\ \A i \in 1 .. Len(bytes) : Append(bytes, byte)[i] = bytes[i]
         /\ Append(bytes, byte)[Len(bytes) + 1] = byte
<1>. QED
  OBVIOUS

(* The magic is a nonempty sequence.                                       *)
LEMMA MagicIsBytes ==
  Magic \in Seq(Byte) /\ Len(Magic) \in Nat /\ Len(Magic) >= 1
<1>. QED
  BY ParserAssumption DEF Byte

(* The memory of a frame is a memory.                                      *)
LEMMA MemoryOfSize ==
  /\ IsMemory(NoFrame)
  /\ \A size \in Size : \A payload \in [0 .. size -> Byte \cup {Unset}] : IsMemory(payload)
<1>. QED
  BY DEF IsMemory

(* Handing nothing on is of the type of handing something on.              *)
LEMMA NoPacketTyped == IsPacket(NoPacket) /\ 0 \in Size
<1>1. 0 \in Size
  <2>1. Base * Base >= 1
    BY Bytes, SMT
  <2>. QED
    BY <2>1, Bytes DEF Size
<1>. QED
  BY <1>1, MemoryOfSize DEF NoPacket, IsPacket

(* The parser starts with nothing seen.                                    *)
LEMMA InitInv == Init => IInv
<1>. SUFFICES ASSUME Init PROVE IInv
  OBVIOUS
<1>1. 0 \in Size /\ 0 \in Byte
  BY NoPacketTyped, Bytes
<1>2. summed \in Seq(Byte) /\ 0 \in 0 .. MaxErrors
  BY ParserAssumption DEF Init
<1>3. IsPacket(handed)
  BY NoPacketTyped DEF Init
<1>4. TypeOK
  BY <1>1, <1>2, <1>3, MemoryOfSize DEF Init, TypeOK
<1>5. Progress
  BY MagicIsBytes DEF Init, Progress
<1>. QED
  BY <1>4, <1>5 DEF IInv, Init, MemoryIsCounted, HandedIsSummed

(* A byte of the magic.                                                    *)
LEMMA MagicStep ==
  ASSUME IInv, NEW byte \in Byte, ReceiveMagic(byte)
  PROVE  IInv'
<1>. USE DEF ReceiveMagic, Step, Sum, memory
<1>1. state = "MAGIC" /\ offset \in Nat /\ offset < Len(Magic) /\ summed \in Seq(Byte)
  BY DEF IInv, TypeOK, Progress
<1>2. summed' \in Seq(Byte) /\ Len(summed') = offset + 1
      /\ \A i \in 1 .. offset + 1 : summed'[i] = Magic[i]
  <2>1. CASE offset = 0
    <3>1. summed' = <<byte>> /\ byte = Magic[1]
      BY <2>1, <1>1
    <3>2. <<byte>> \in Seq(Byte) /\ Len(<<byte>>) = 1 /\ <<byte>>[1] = byte
      OBVIOUS
    <3>. QED
      BY <3>1, <3>2, <2>1
  <2>2. CASE offset # 0
    <3>1. summed' = Append(summed, byte) /\ Len(summed) = offset /\ byte = Magic[offset + 1]
      BY <2>2, <1>1 DEF IInv, Progress
    <3>2. \A i \in 1 .. offset : summed[i] = Magic[i]
      BY <2>2, <1>1 DEF IInv, Progress, MagicSeen
    <3>3. summed' \in Seq(Byte) /\ Len(summed') = offset + 1
          /\ (\A i \in 1 .. offset : summed'[i] = summed[i]) /\ summed'[offset + 1] = byte
      BY <3>1, <1>1, Appended
    <3>4. \A i \in 1 .. offset + 1 : i \in 1 .. offset \/ i = offset + 1
      BY <1>1
    <3>. QED
      BY <3>1, <3>2, <3>3, <3>4
  <2>. QED
    BY <2>1, <2>2
<1>3. TypeOK'
  BY <1>1, <1>2, NoPacketTyped DEF IInv, TypeOK
<1>4. Progress'
  <2>1. CASE offset + 1 < Len(Magic)
    BY <2>1, <1>1, <1>2 DEF Progress, MagicSeen
  <2>2. CASE ~(offset + 1 < Len(Magic))
    <3>1. Len(Magic) = offset + 1 /\ offset' = 0 /\ state' = "SIZE"
      BY <2>2, <1>1, MagicIsBytes
    <3>. QED
      BY <3>1, <1>2, MagicIsBytes DEF Progress, HeaderSeen, MagicSeen
  <2>. QED
    BY <2>1, <2>2
<1>5. MemoryIsCounted' /\ HandedIsSummed'
  BY <1>1 DEF IInv, MemoryIsCounted, HandedIsSummed, NoPacket
<1>. QED
  BY <1>3, <1>4, <1>5 DEF IInv

(* Another byte instead.                                                   *)
LEMMA NoMagicStep ==
  ASSUME IInv, NEW byte \in Byte, ReceiveNoMagic(byte)
  PROVE  IInv'
<1>. USE DEF ReceiveNoMagic, Step, memory
<1>1. TypeOK'
  BY NoPacketTyped DEF IInv, TypeOK
<1>2. Progress'
  BY MagicIsBytes DEF Progress
<1>3. MemoryIsCounted' /\ HandedIsSummed'
  BY DEF IInv, MemoryIsCounted, HandedIsSummed, NoPacket
<1>. QED
  BY <1>1, <1>2, <1>3 DEF IInv

(* The two bytes of the size, the low one first.                           *)
LEMMA SizeStep ==
  ASSUME IInv, NEW byte \in Byte, ReceiveSize(byte)
  PROVE  IInv'
<1>. USE DEF ReceiveSize, Step, Sum, memory
<1>1. state = "SIZE" /\ summed \in Seq(Byte) /\ HeaderSeen(offset)
      /\ Low(frame_size) \in Byte /\ High(frame_size) \in Byte /\ byte \in Nat
  BY BytesOfSize, Bytes DEF IInv, TypeOK, Progress
<1>2. summed' \in Seq(Byte) /\ Len(summed') = Len(Magic) + offset + 1 /\ offset \in {0, 1}
      /\ (\A i \in 1 .. Len(Magic) + offset : summed'[i] = summed[i])
      /\ summed'[Len(Magic) + offset + 1] = byte
  BY <1>1, Appended DEF HeaderSeen, IInv, Progress
<1>3. MagicSeen(Len(Magic))'
  BY <1>1, <1>2, MagicIsBytes DEF HeaderSeen, MagicSeen
<1>4. frame_size' \in Size /\ Progress'
  <2>1. CASE offset = 0
    <3>1. frame_size' \in Size /\ Low(frame_size') = byte
      <4>1. frame_size' = Base * High(frame_size) + byte
        BY <2>1
      <4>2. /\ Base * High(frame_size) + byte \in Size
            /\ Low(Base * High(frame_size) + byte) = byte
        BY <1>1, SizeOfBytes
      <4>. QED
        BY <4>1, <4>2
    <3>2. state' = "SIZE" /\ offset' = 1 /\ Len(summed') = Len(Magic) + 1
          /\ summed'[Len(Magic) + 1] = byte
      BY <2>1, <1>1, <1>2, MagicIsBytes
    <3>3. HeaderSeen(1)'
      BY <3>1, <3>2, <1>3 DEF HeaderSeen
    <3>. QED
      BY <3>1, <3>2, <3>3 DEF Progress
  <2>2. CASE offset = 1
    <3>1. frame_size' = Low(frame_size) + Base * byte
      BY <2>2
    <3>2. frame_size' \in Size /\ Low(frame_size') = Low(frame_size) /\ High(frame_size') = byte
      <4>1. /\ Base * byte + Low(frame_size) \in Size
            /\ Low(frame_size) + Base * byte = Base * byte + Low(frame_size)
            /\ Low(Base * byte + Low(frame_size)) = Low(frame_size)
            /\ High(Base * byte + Low(frame_size)) = byte
        BY <1>1, SizeOfBytes
      <4>. QED
        BY <3>1, <4>1
    <3>3. summed'[Len(Magic) + 1] = Low(frame_size')
      BY <3>2, <2>2, <1>1, <1>2, MagicIsBytes DEF HeaderSeen
    <3>. QED
      BY <3>2, <3>3, <2>2, <1>1, <1>2, <1>3, MagicIsBytes DEF Progress, HeaderSeen
  <2>. QED
    BY <1>2, <2>1, <2>2
<1>5. TypeOK'
  BY <1>1, <1>2, <1>4, NoPacketTyped DEF IInv, TypeOK
<1>6. MemoryIsCounted' /\ HandedIsSummed'
  BY <1>1 DEF IInv, MemoryIsCounted, HandedIsSummed, NoPacket
<1>. QED
  BY <1>4, <1>5, <1>6 DEF IInv

(* The type; memory for the announced size.                                *)
LEMMA TypeStep ==
  ASSUME IInv, NEW byte \in Byte, ReceiveFrameType(byte)
  PROVE  IInv'
<1>. USE DEF ReceiveFrameType, Step, Sum
<1>1. state = "FRAME_TYPE" /\ ~aborted /\ summed \in Seq(Byte) /\ HeaderSeen(2)
      /\ frame_size \in Size /\ frame_size \in Nat /\ live \in Nat
  BY BytesOfSize DEF IInv, TypeOK, Progress
<1>2. summed' \in Seq(Byte) /\ Len(summed') = Len(Magic) + 3
      /\ (\A i \in 1 .. Len(Magic) + 2 : summed'[i] = summed[i])
      /\ summed'[Len(Magic) + 3] = byte
  BY <1>1, Appended, MagicIsBytes DEF HeaderSeen
<1>3. frame_wip' \in [0 .. frame_size -> Byte \cup {Unset}]
  BY DEF FrameNew
<1>4. TypeOK'
  BY <1>1, <1>2, <1>3, NoPacketTyped, MemoryOfSize DEF IInv, TypeOK
<1>5. Spells(summed', frame_size, frame_type', frame_wip', 0)
  BY <1>1, <1>2, MagicIsBytes DEF Spells, HeaderSeen, MagicSeen
<1>6. Progress'
  BY <1>1, <1>3, <1>5 DEF Progress, PayloadSeen
<1>7. MemoryIsCounted' /\ HandedIsSummed'
  BY <1>1 DEF IInv, TypeOK, MemoryIsCounted, HandedIsSummed, NoPacket
<1>. QED
  BY <1>4, <1>6, <1>7 DEF IInv

(* A byte of the payload; the one of an empty frame is the end.            *)
LEMMA PayloadStep ==
  ASSUME IInv, NEW byte \in Byte, ReceivePayload(byte)
  PROVE  IInv'
<1>. USE DEF ReceivePayload, Step, Sum
<1>1. state = "PAYLOAD" /\ ~aborted /\ summed \in Seq(Byte) /\ PayloadSeen
      /\ frame_size \in Size /\ frame_size \in Nat /\ offset \in Nat
      /\ (offset < frame_size \/ offset = 0)
  BY BytesOfSize DEF IInv, TypeOK, Progress
<1>2. /\ frame_wip' \in [0 .. frame_size -> Byte \cup {Unset}]
      /\ frame_wip'[offset] = byte
      /\ \A i \in 0 .. frame_size : i # offset => frame_wip'[i] = frame_wip[i]
  BY <1>1 DEF PayloadSeen
<1>3. summed' \in Seq(Byte) /\ Len(summed') = Len(Magic) + 3 + offset + 1
      /\ (\A i \in 1 .. Len(Magic) + 3 + offset : summed'[i] = summed[i])
      /\ summed'[Len(Magic) + 3 + offset + 1] = byte
  <2>1. Len(summed) = Len(Magic) + 3 + offset
    BY <1>1 DEF PayloadSeen, Spells
  <2>2. /\ Append(summed, byte) \in Seq(Byte)
        /\ Len(Append(summed, byte)) = Len(summed) + 1
        /\ \A i \in 1 .. Len(summed) : Append(summed, byte)[i] = summed[i]
        /\ Append(summed, byte)[Len(summed) + 1] = byte
    BY <1>1, Appended
  <2>3. summed' = Append(summed, byte)
    OBVIOUS
  <2>. QED
    BY <2>1, <2>2, <2>3
<1>4. TypeOK'
  <2>1. IsMemory(frame_wip')
    BY <1>1, <1>2, MemoryOfSize
  <2>2. aborted' \in BOOLEAN
    <3>1. aborted \in BOOLEAN
      BY DEF IInv, TypeOK
    <3>2. aborted' = aborted \/ aborted' = TRUE
      OBVIOUS
    <3>. QED
      BY <3>1, <3>2
  <2>3. offset' \in Nat
        /\ state' \in {"MAGIC", "SIZE", "FRAME_TYPE", "PAYLOAD", "CHECKSUM"}
    BY <1>1
  <2>. QED
    BY <2>1, <2>2, <2>3, <1>3, NoPacketTyped DEF IInv, TypeOK
<1>5. offset < frame_size => Spells(summed', frame_size, frame_type, frame_wip', offset + 1)
  <2>. SUFFICES ASSUME offset < frame_size
                PROVE  Spells(summed', frame_size, frame_type, frame_wip', offset + 1)
    OBVIOUS
  <2>1. \A i \in 1 .. offset + 1 : summed'[Len(Magic) + 3 + i] = frame_wip'[i - 1]
    <3>. SUFFICES ASSUME NEW i \in 1 .. offset + 1
                  PROVE  summed'[Len(Magic) + 3 + i] = frame_wip'[i - 1]
      OBVIOUS
    <3>1. CASE i = offset + 1
      <4>1. Len(Magic) + 3 + i = Len(Magic) + 3 + offset + 1 /\ i - 1 = offset
        BY <3>1, <1>1, MagicIsBytes
      <4>2. summed'[Len(Magic) + 3 + i] = byte
        BY <4>1, <1>3
      <4>3. frame_wip'[i - 1] = byte
        BY <4>1, <1>2
      <4>. QED
        BY <4>2, <4>3
    <3>2. CASE i \in 1 .. offset
      <4>1. summed'[Len(Magic) + 3 + i] = summed[Len(Magic) + 3 + i]
        BY <3>2, <1>1, <1>3, MagicIsBytes
      <4>2. frame_wip'[i - 1] = frame_wip[i - 1]
        BY <3>2, <1>1, <1>2
      <4>3. summed[Len(Magic) + 3 + i] = frame_wip[i - 1]
        BY <3>2, <1>1 DEF PayloadSeen, Spells
      <4>. QED
        BY <4>1, <4>2, <4>3
    <3>3. i = offset + 1 \/ i \in 1 .. offset
      BY <1>1
    <3>. QED
      BY <3>1, <3>2, <3>3
  <2>2. /\ \A i \in 1 .. Len(Magic) : summed'[i] = Magic[i]
        /\ summed'[Len(Magic) + 1] = Low(frame_size)
        /\ summed'[Len(Magic) + 2] = High(frame_size)
        /\ summed'[Len(Magic) + 3] = frame_type
    BY <1>1, <1>3, MagicIsBytes DEF PayloadSeen, Spells
  <2>3. Len(summed') = Len(Magic) + 3 + (offset + 1)
    BY <1>1, <1>3, MagicIsBytes
  <2>. QED
    BY <2>1, <2>2, <2>3 DEF Spells
<1>6. Progress'
  <2>1. offset' = offset + 1 /\ frame_size' = frame_size /\ frame_type' = frame_type
    OBVIOUS
  <2>2. CASE offset' < frame_size /\ UNCHANGED <<state, aborted>>
    <3>1. PayloadSeen'
      BY <2>1, <2>2, <1>1, <1>2, <1>5 DEF PayloadSeen
    <3>. QED
      BY <3>1, <2>1, <2>2, <1>1 DEF Progress
  <2>3. CASE offset' = frame_size /\ state' = "CHECKSUM" /\ UNCHANGED aborted
    <3>1. PayloadSeen'
      BY <2>1, <2>3, <1>1, <1>2, <1>5 DEF PayloadSeen
    <3>. QED
      BY <3>1, <2>1, <2>3 DEF Progress
  <2>4. CASE offset' > frame_size /\ aborted' = TRUE /\ UNCHANGED state
    BY <2>4, <1>1 DEF Progress
  <2>. QED
    BY <2>2, <2>3, <2>4
<1>7. MemoryIsCounted' /\ HandedIsSummed'
  BY <1>1 DEF IInv, MemoryIsCounted, HandedIsSummed, NoPacket
<1>. QED
  BY <1>4, <1>6, <1>7 DEF IInv

(* The right checksum: what was summed is handed on.                       *)
LEMMA HandStep ==
  ASSUME IInv, NEW byte \in Byte, HandFrame(byte)
  PROVE  IInv'
<1>. USE DEF HandFrame
<1>1. state = "CHECKSUM" /\ PayloadSeen /\ offset = frame_size
      /\ frame_size \in Size /\ frame_size \in Nat /\ frame_type \in Byte
      /\ live \in Nat /\ live = checksum_errors + 1 /\ checksum_errors \in Nat
  BY BytesOfSize, ParserAssumption DEF IInv, TypeOK, Progress, MemoryIsCounted
<1>. DEFINE payload == [frame_wip EXCEPT ![offset] = 0]
<1>2. /\ payload \in [0 .. frame_size -> Byte \cup {Unset}]
      /\ payload[frame_size] = 0
      /\ \A i \in 0 .. frame_size : i # frame_size => payload[i] = frame_wip[i]
  BY <1>1, Bytes DEF PayloadSeen
<1>3. handed' = [type |-> frame_type, size |-> frame_size, payload |-> payload]
  OBVIOUS
<1>. HIDE DEF payload
<1>4. TypeOK'
  <2>1. IsPacket(handed')
    <3>1. frame_type \in Byte \cup {Unset} /\ IsMemory(payload)
      BY <1>1, <1>2, MemoryOfSize
    <3>2. handed'.type = frame_type /\ handed'.size = frame_size
          /\ handed'.payload = payload
      BY <1>3
    <3>. QED
      BY <3>1, <3>2, <1>1 DEF IsPacket
  <2>2. live' = checksum_errors
    BY <1>1
  <2>. QED
    BY <2>1, <2>2, <1>1, MemoryOfSize DEF IInv, TypeOK
<1>5. Spells(summed, frame_size, frame_type, payload, frame_size)
  <2>1. \A i \in 1 .. frame_size : payload[i - 1] = frame_wip[i - 1]
    BY <1>1, <1>2
  <2>. QED
    BY <2>1, <1>1 DEF PayloadSeen, Spells
<1>6. HandedIsSummed'
  <2>1. handed'.type = frame_type /\ handed'.size = frame_size /\ handed'.payload = payload
        /\ summed' = summed
    BY <1>3
  <2>2. Spells(summed', handed'.size, handed'.type, handed'.payload, handed'.size)
    BY <2>1, <1>5
  <2>3. handed'.payload[handed'.size] = 0
    BY <2>1, <1>2
  <2>. QED
    BY <2>2, <2>3 DEF HandedIsSummed
<1>7. Progress'
  BY MagicIsBytes DEF Progress
<1>8. MemoryIsCounted'
  BY <1>1 DEF MemoryIsCounted
<1>. QED
  BY <1>4, <1>6, <1>7, <1>8 DEF IInv

(* The wrong checksum: the frame stays in memory.                          *)
LEMMA WrongChecksumStep ==
  ASSUME IInv, NEW byte \in Byte, ReceiveWrongChecksum(byte)
  PROVE  IInv'
<1>. USE DEF ReceiveWrongChecksum, Step
<1>1. state = "CHECKSUM" /\ checksum_errors' \in 0 .. MaxErrors
      /\ live \in Nat /\ live = checksum_errors + 1 /\ checksum_errors \in Nat
  BY ParserAssumption DEF IInv, TypeOK, MemoryIsCounted
<1>2. TypeOK'
  BY <1>1, NoPacketTyped, MemoryOfSize DEF IInv, TypeOK
<1>3. Progress'
  BY MagicIsBytes DEF Progress
<1>4. MemoryIsCounted' /\ HandedIsSummed'
  BY <1>1 DEF MemoryIsCounted, HandedIsSummed, NoPacket
<1>. QED
  BY <1>2, <1>3, <1>4 DEF IInv

(* Nothing happens.                                                        *)
LEMMA StutterStep ==
  ASSUME IInv, UNCHANGED vars
  PROVE  IInv'
<1>. USE DEF vars, parser, memory
<1>1. TypeOK'
  BY DEF IInv, TypeOK
<1>2. Progress'
  BY DEF IInv, Progress, HeaderSeen, PayloadSeen, MagicSeen
<1>3. MemoryIsCounted' /\ HandedIsSummed'
  BY DEF IInv, MemoryIsCounted, HandedIsSummed
<1>. QED
  BY <1>1, <1>2, <1>3 DEF IInv

(* Every step of the parser keeps the invariant.                           *)
LEMMA StepInv == IInv /\ [Next]_vars => IInv'
<1>. SUFFICES ASSUME IInv, [Next]_vars
              PROVE  IInv'
  OBVIOUS
<1>1. ASSUME NEW byte \in Byte, Receive(byte)
      PROVE  IInv'
  BY <1>1, MagicStep, NoMagicStep, SizeStep, TypeStep, PayloadStep, HandStep,
     WrongChecksumStep DEF Receive
<1>. QED
  BY <1>1, StutterStep DEF Next

(* The invariant holds for whatever bytes arrive.                          *)
THEOREM Invariant == Spec => []IInv
<1>. QED
  BY InitInv, StepInv, PTL DEF Spec

-----------------------------------------------------------------------------
(* The variables of the parser stay in their ranges.                       *)
THEOREM TypeCorrect == Spec => []TypeOK
<1>1. IInv => TypeOK
  BY DEF IInv
<1>. QED
  BY <1>1, Invariant, PTL

(***************************************************************************)
(* The parser never reads beyond the magic, and never writes outside the   *)
(* memory of its frame, whatever size a header announces.                  *)
(***************************************************************************)
THEOREM StaysInBounds == Spec => []IndexInBounds
<1>1. IInv => IndexInBounds
  <2>. SUFFICES ASSUME IInv, ~aborted
                PROVE  /\ state = "MAGIC" => offset < Len(Magic)
                       /\ state \in {"PAYLOAD", "CHECKSUM"} => offset \in DOMAIN frame_wip
    BY DEF IndexInBounds
  <2>1. frame_size \in Nat /\ offset \in Nat
    BY BytesOfSize DEF IInv, TypeOK
  <2>. QED
    BY <2>1 DEF IInv, Progress, PayloadSeen
<1>. QED
  BY <1>1, Invariant, PTL

(***************************************************************************)
(* What the packet parser is called with is a whole frame, the one the     *)
(* checksum was computed over.                                             *)
(***************************************************************************)
THEOREM HandsOnWhatWasSummed == Spec => []HandedIsSummed
<1>1. IInv => HandedIsSummed
  BY DEF IInv
<1>. QED
  BY <1>1, Invariant, PTL

(***************************************************************************)
(* The parser holds one frame for every checksum error, and the one in     *)
(* progress.                                                               *)
(***************************************************************************)
THEOREM LeaksOnChecksumErrorsOnly == Spec => []MemoryIsCounted
<1>1. IInv => MemoryIsCounted
  BY DEF IInv
<1>. QED
  BY <1>1, Invariant, PTL

(***************************************************************************)
(* The program aborts on a frame without payload only: where a payload is  *)
(* received its offset has not passed the announced size, or is that of    *)
(* the first byte.                                                         *)
(***************************************************************************)
THEOREM AbortsOnEmptyFrames == Spec => []AbortsOnEmptyOnly
<1>1. Init => AbortsOnEmptyOnly
  BY DEF Init, AbortsOnEmptyOnly
<1>2. ASSUME IInv, AbortsOnEmptyOnly, NEW byte \in Byte, Receive(byte)
      PROVE  AbortsOnEmptyOnly'
  <2>1. CASE ReceivePayload(byte)
    <3>1. /\ state = "PAYLOAD" /\ ~aborted /\ frame_size \in Nat /\ offset \in Nat
          /\ (offset < frame_size \/ offset = 0)
      BY <1>2, <2>1, BytesOfSize DEF ReceivePayload, Step, IInv, TypeOK, Progress
    <3>2. offset + 1 > frame_size => frame_size = 0
      BY <3>1
    <3>. QED
      BY <3>1, <3>2, <2>1 DEF ReceivePayload, AbortsOnEmptyOnly
  <2>2. CASE ReceiveMagic(byte) \/ ReceiveNoMagic(byte) \/ ReceiveSize(byte)
             \/ ReceiveFrameType(byte) \/ HandFrame(byte) \/ ReceiveWrongChecksum(byte)
    BY <2>2 DEF ReceiveMagic, ReceiveNoMagic, ReceiveSize, ReceiveFrameType, HandFrame,
       ReceiveWrongChecksum, Step, AbortsOnEmptyOnly
  <2>. QED
    BY <1>2, <2>1, <2>2 DEF Receive
<1>3. IInv /\ AbortsOnEmptyOnly /\ [Next]_vars => AbortsOnEmptyOnly'
  BY <1>2 DEF Next, vars, parser, AbortsOnEmptyOnly
<1>. QED
  BY <1>1, <1>3, Invariant, PTL DEF Spec

-----------------------------------------------------------------------------
(***************************************************************************)
(* The line.  What a frame is on it: the magic, the size, the type, the    *)
(* payload and the checksum of all these.                                  *)
(***************************************************************************)
Payload == sent.payload
Length == Len(Magic) + 3 + Len(Payload)

LEMMA FrameIsBytes ==
  ASSUME sent \in Frames
  PROVE  /\ sent.type \in Byte /\ Payload \in Seq(Byte) /\ Len(Payload) \in Size
         /\ Len(Payload) \in Nat /\ Length \in Nat
         /\ Low(Len(Payload)) \in Byte /\ High(Len(Payload)) \in Byte
<1>1. sent.type \in Byte /\ Payload \in Seq(Byte) /\ Len(Payload) \in Size
  BY LinkAssumption DEF Payload
<1>2. Len(Payload) \in Nat /\ Low(Len(Payload)) \in Byte /\ High(Len(Payload)) \in Byte
  BY <1>1, BytesOfSize
<1>3. Length \in Nat
  BY <1>2, MagicIsBytes DEF Length
<1>. QED
  BY <1>1, <1>2, <1>3

(* Two sequences of bytes, one after the other.                            *)
LEMMA Joined ==
  ASSUME NEW front \in Seq(Byte), NEW back \in Seq(Byte)
  PROVE  /\ front \o back \in Seq(Byte) /\ Len(front) \in Nat /\ Len(back) \in Nat
         /\ Len(front \o back) = Len(front) + Len(back)
         /\ \A k \in 1 .. Len(front) : (front \o back)[k] = front[k]
         /\ \A k \in 1 .. Len(back) : (front \o back)[Len(front) + k] = back[k]
OBVIOUS

LEMMA SummedIs ==
  ASSUME sent \in Frames
  PROVE  /\ Summed(sent) \in Seq(Byte) /\ Len(Summed(sent)) = Length
         /\ \A k \in 1 .. Len(Magic) : Summed(sent)[k] = Magic[k]
         /\ Summed(sent)[Len(Magic) + 1] = Low(Len(Payload))
         /\ Summed(sent)[Len(Magic) + 2] = High(Len(Payload))
         /\ Summed(sent)[Len(Magic) + 3] = sent.type
         /\ \A k \in 1 .. Len(Payload) : Summed(sent)[Len(Magic) + 3 + k] = Payload[k]
<1>1. PICK header \in Seq(Byte) :
        /\ header = <<Low(Len(Payload)), High(Len(Payload)), sent.type>>
        /\ Len(header) = 3 /\ header[1] = Low(Len(Payload))
        /\ header[2] = High(Len(Payload)) /\ header[3] = sent.type
  <2>1. \A a, b, c \in Byte : <<a, b, c>> \in Seq(Byte) /\ Len(<<a, b, c>>) = 3
    OBVIOUS
  <2>. QED
    BY <2>1, FrameIsBytes
<1>2. PICK front \in Seq(Byte) : front = Magic \o header
  BY MagicIsBytes, Joined
<1>3. /\ Len(front) = Len(Magic) + 3
      /\ \A k \in 1 .. Len(Magic) : front[k] = Magic[k]
      /\ \A k \in 1 .. 3 : front[Len(Magic) + k] = header[k]
  BY <1>1, <1>2, MagicIsBytes, Joined
<1>4. /\ front \o Payload \in Seq(Byte) /\ Len(front \o Payload) = Length
      /\ \A k \in 1 .. Len(Magic) + 3 : (front \o Payload)[k] = front[k]
      /\ \A k \in 1 .. Len(Payload) : (front \o Payload)[Len(Magic) + 3 + k] = Payload[k]
  <2>1. /\ Payload \in Seq(Byte) /\ front \o Payload \in Seq(Byte)
        /\ Len(front \o Payload) = Len(front) + Len(Payload)
        /\ \A k \in 1 .. Len(front) : (front \o Payload)[k] = front[k]
        /\ \A k \in 1 .. Len(Payload) : (front \o Payload)[Len(front) + k] = Payload[k]
    BY FrameIsBytes, Joined
  <2>. QED
    BY <2>1, <1>3, Zenon DEF Length
<1>5. Summed(sent) = front \o Payload
  BY <1>1, <1>2 DEF Summed, Payload
<1>6. \A k \in 1 .. Len(Magic) + 3 : Summed(sent)[k] = front[k]
  BY <1>4, <1>5
<1>7. front[Len(Magic) + 1] = header[1] /\ front[Len(Magic) + 2] = header[2]
      /\ front[Len(Magic) + 3] = header[3]
  BY <1>3
<1>8. /\ 1 .. Len(Magic) \subseteq 1 .. Len(Magic) + 3
      /\ Len(Magic) + 1 \in 1 .. Len(Magic) + 3 /\ Len(Magic) + 2 \in 1 .. Len(Magic) + 3
      /\ Len(Magic) + 3 \in 1 .. Len(Magic) + 3
  BY MagicIsBytes
<1>. QED
  BY <1>1, <1>3, <1>4, <1>5, <1>6, <1>7, <1>8

LEMMA OnLineIs ==
  ASSUME sent \in Frames
  PROVE  /\ OnLine(sent) \in Seq(Byte) /\ Len(OnLine(sent)) = Length + 1
         /\ \A k \in 1 .. Length : OnLine(sent)[k] = Summed(sent)[k]
         /\ OnLine(sent)[Length + 1] = ChecksumOf(Summed(sent))
<1>1. <<ChecksumOf(Summed(sent))>> \in Seq(Byte)
  BY SameChecksum
<1>. QED
  BY <1>1, SummedIs, FrameIsBytes DEF OnLine

-----------------------------------------------------------------------------
(***************************************************************************)
(* A parser that has read so many bytes of the frame sent, and none else   *)
(* since it began to wait for a frame.                                     *)
(***************************************************************************)
Hearing(n) ==
  /\ ~aborted
  /\ n > 0 => Len(summed) = n /\ \A k \in 1 .. n : summed[k] = Summed(sent)[k]
  /\ n < Len(Magic) => state = "MAGIC" /\ offset = n
  /\ n = Len(Magic) \/ n = Len(Magic) + 1 => state = "SIZE" /\ offset = n - Len(Magic)
  /\ n = Len(Magic) + 2 => state = "FRAME_TYPE"
  /\ n >= Len(Magic) + 3 =>
       /\ offset = n - (Len(Magic) + 3)
       /\ state = (IF n = Length /\ Len(Payload) > 0 THEN "CHECKSUM" ELSE "PAYLOAD")

(* A size is known by its bytes.                                           *)
LEMMA SizeIsKnown ==
  ASSUME NEW a \in Size, NEW b \in Size, Low(a) = Low(b), High(a) = High(b)
  PROVE  a = b
<1>1. Base \in Nat \ {0} /\ a \in Nat /\ b \in Nat
  BY Bytes, BytesOfSize
<1>2. a = Base * High(a) + Low(a) /\ b = Base * High(b) + Low(b)
  BY <1>1, DivisionWithRemainder DEF Low, High
<1>. QED
  BY <1>2, Zenon

(* After the header the parser knows size and type of the frame.           *)
LEMMA HeaderIsKnown ==
  ASSUME IInv, sent \in Frames, NEW n \in Len(Magic) + 3 .. Length, Hearing(n)
  PROVE  /\ frame_size = Len(Payload) /\ frame_type = sent.type /\ PayloadSeen
         /\ offset = n - (Len(Magic) + 3)
         /\ state = (IF n = Length /\ Len(Payload) > 0 THEN "CHECKSUM" ELSE "PAYLOAD")
<1>1. Len(Magic) \in Nat /\ Len(Magic) >= 1 /\ n \in Nat /\ n >= Len(Magic) + 3
  BY MagicIsBytes, FrameIsBytes
<1>2. /\ offset = n - (Len(Magic) + 3) /\ ~aborted
      /\ state = (IF n = Length /\ Len(Payload) > 0 THEN "CHECKSUM" ELSE "PAYLOAD")
      /\ \A k \in 1 .. n : summed[k] = Summed(sent)[k]
  BY <1>1 DEF Hearing
<1>3. PayloadSeen
  BY <1>2 DEF IInv, Progress
<1>4. /\ summed[Len(Magic) + 1] = Low(frame_size) /\ summed[Len(Magic) + 2] = High(frame_size)
      /\ summed[Len(Magic) + 3] = frame_type
  BY <1>3 DEF PayloadSeen, Spells
<1>5. /\ Len(Magic) + 1 \in 1 .. n /\ Len(Magic) + 2 \in 1 .. n /\ Len(Magic) + 3 \in 1 .. n
  BY <1>1
<1>6. Low(frame_size) = Low(Len(Payload)) /\ High(frame_size) = High(Len(Payload))
      /\ frame_type = sent.type
  BY <1>2, <1>4, <1>5, SummedIs
<1>7. frame_size = Len(Payload)
  BY <1>6, SizeIsKnown, FrameIsBytes DEF IInv, TypeOK
<1>. QED
  BY <1>2, <1>3, <1>6, <1>7

(* The bytes summed with one more, where they are those of the frame.      *)
LEMMA SummedOn ==
  ASSUME IInv, sent \in Frames, NEW n \in 0 .. Length - 1, Hearing(n), NEW byte \in Byte,
         byte = Summed(sent)[n + 1], IF n = 0 THEN summed' = <<byte>> ELSE Sum(byte)
  PROVE  Len(summed') = n + 1 /\ \A k \in 1 .. n + 1 : summed'[k] = Summed(sent)[k]
<1>0. n \in Nat
  BY FrameIsBytes
<1>1. CASE n = 0
  <2>1. summed' = <<byte>>
    BY <1>1
  <2>2. Len(<<byte>>) = 1 /\ <<byte>>[1] = byte
    OBVIOUS
  <2>. QED
    BY <1>1, <2>1, <2>2
<1>2. CASE n # 0
  <2>1. summed' = Append(summed, byte) /\ summed \in Seq(Byte)
    BY <1>2 DEF Sum, IInv, TypeOK
  <2>2. Len(summed) = n /\ \A k \in 1 .. n : summed[k] = Summed(sent)[k]
    BY <1>0, <1>2 DEF Hearing
  <2>3. /\ Len(summed') = n + 1 /\ summed'[n + 1] = byte
        /\ \A k \in 1 .. n : summed'[k] = summed[k]
    BY <2>1, <2>2, Appended
  <2>4. \A k \in 1 .. n + 1 : k \in 1 .. n \/ k = n + 1
    BY <1>0
  <2>. QED
    BY <2>2, <2>3, <2>4
<1>. QED
  BY <1>1, <1>2

(* Another byte of the frame: the parser goes on to the part it belongs to.*)
LEMMA HearsOn ==
  ASSUME IInv, sent \in Frames, NEW n \in 0 .. Length - 1, Hearing(n), NEW byte \in Byte,
         byte = Summed(sent)[n + 1], Receive(byte), UNCHANGED sent
  PROVE  Hearing(n + 1)' /\ UNCHANGED checksum_errors
<1>. DEFINE m == Len(Magic)
<1>0. /\ m \in Nat /\ m >= 1 /\ n \in Nat /\ n + 1 \in Nat /\ n < Length /\ ~aborted
      /\ Length = m + 3 + Len(Payload) /\ Len(Payload) \in Nat
  BY MagicIsBytes, FrameIsBytes DEF Hearing, Length
<1>. HIDE DEF m
<1>1. UNCHANGED <<Length, Payload, Summed(sent), Magic>>
  BY DEF Length, Payload, Summed
<1>2. ASSUME Len(summed') = n + 1 /\ \A k \in 1 .. n + 1 : summed'[k] = Summed(sent)[k]
      PROVE  n + 1 > 0 =>
               Len(summed') = n + 1 /\ \A k \in 1 .. n + 1 : summed'[k] = Summed(sent')[k]
  BY <1>1, <1>2
<1>3. CASE n < m
  <2>1. state = "MAGIC" /\ offset = n
    BY <1>3 DEF Hearing, m
  <2>2. byte = Magic[offset + 1]
    BY <1>0, <1>3, <2>1, SummedIs DEF m
  <2>3. ReceiveMagic(byte)
    BY <2>1, <2>2 DEF Receive, ReceiveNoMagic, ReceiveSize, ReceiveFrameType, ReceivePayload,
       HandFrame, ReceiveWrongChecksum, Step
  <2>4. Len(summed') = n + 1 /\ \A k \in 1 .. n + 1 : summed'[k] = Summed(sent)[k]
    BY <2>1, <2>3, SummedOn DEF ReceiveMagic
  <2>5. /\ ~aborted' /\ UNCHANGED checksum_errors
        /\ IF n + 1 < m THEN state' = "MAGIC" /\ offset' = n + 1
                        ELSE state' = "SIZE" /\ offset' = 0
    BY <1>0, <2>1, <2>3 DEF ReceiveMagic, memory, m
  <2>. QED
    BY <1>0, <1>1, <1>2, <1>3, <2>4, <2>5 DEF Hearing, m
<1>4. CASE n = m \/ n = m + 1
  <2>1. state = "SIZE" /\ offset = n - m
    BY <1>4 DEF Hearing, m
  <2>2. ReceiveSize(byte)
    BY <2>1 DEF Receive, ReceiveMagic, ReceiveNoMagic, ReceiveFrameType, ReceivePayload,
       HandFrame, ReceiveWrongChecksum, Step
  <2>3. Len(summed') = n + 1 /\ \A k \in 1 .. n + 1 : summed'[k] = Summed(sent)[k]
    BY <1>0, <1>4, <2>2, SummedOn DEF ReceiveSize
  <2>4. /\ ~aborted' /\ UNCHANGED checksum_errors
        /\ IF n = m THEN state' = "SIZE" /\ offset' = 1 ELSE state' = "FRAME_TYPE"
    BY <1>0, <1>4, <2>1, <2>2 DEF ReceiveSize, memory
  <2>. QED
    BY <1>0, <1>1, <1>2, <1>4, <2>3, <2>4 DEF Hearing, m
<1>5. CASE n = m + 2
  <2>1. state = "FRAME_TYPE"
    BY <1>5 DEF Hearing, m
  <2>2. ReceiveFrameType(byte)
    BY <2>1 DEF Receive, ReceiveMagic, ReceiveNoMagic, ReceiveSize, ReceivePayload,
       HandFrame, ReceiveWrongChecksum, Step
  <2>3. Len(summed') = n + 1 /\ \A k \in 1 .. n + 1 : summed'[k] = Summed(sent)[k]
    BY <1>0, <1>5, <2>2, SummedOn DEF ReceiveFrameType
  <2>4. ~aborted' /\ UNCHANGED checksum_errors /\ state' = "PAYLOAD" /\ offset' = 0
    BY <1>0, <2>2 DEF ReceiveFrameType, Step
  <2>5. n + 1 = Length => Len(Payload) = 0
    BY <1>0, <1>5
  <2>. QED
    BY <1>0, <1>1, <1>2, <1>5, <2>3, <2>4, <2>5 DEF Hearing, m
<1>6. CASE n >= m + 3
  <2>1. /\ frame_size = Len(Payload) /\ offset = n - (m + 3) /\ state = "PAYLOAD"
    <3>1. n \in m + 3 .. Length /\ n # Length
      BY <1>0, <1>6
    <3>. QED
      BY <3>1, HeaderIsKnown DEF m
  <2>2. ReceivePayload(byte)
    BY <2>1 DEF Receive, ReceiveMagic, ReceiveNoMagic, ReceiveSize, ReceiveFrameType,
       HandFrame, ReceiveWrongChecksum, Step
  <2>3. Len(summed') = n + 1 /\ \A k \in 1 .. n + 1 : summed'[k] = Summed(sent)[k]
    BY <1>0, <1>6, <2>2, SummedOn DEF ReceivePayload
  <2>4. /\ ~aborted' /\ UNCHANGED checksum_errors /\ offset' = n + 1 - (m + 3)
        /\ state' = (IF n + 1 = Length THEN "CHECKSUM" ELSE "PAYLOAD")
    BY <1>0, <1>6, <2>1, <2>2 DEF ReceivePayload, Step
  <2>5. Len(Payload) > 0
    BY <1>0, <1>6
  <2>. QED
    BY <1>0, <1>1, <1>2, <1>6, <2>3, <2>4, <2>5 DEF Hearing, m
<1>. QED
  BY <1>0, <1>3, <1>4, <1>5, <1>6

(* At the end of the frame, its bytes are what was summed.                 *)
LEMMA AllSummed ==
  ASSUME IInv, sent \in Frames, Hearing(Length)
  PROVE  summed = Summed(sent) /\ summed \in Seq(Byte) /\ Length >= Len(Magic) + 3
<1>1. Length >= Len(Magic) + 3 /\ Length > 0 /\ Length \in Nat
  BY MagicIsBytes, FrameIsBytes DEF Length
<1>2. Len(summed) = Length /\ \A k \in 1 .. Length : summed[k] = Summed(sent)[k]
  BY <1>1 DEF Hearing
<1>3. summed \in Seq(Byte) /\ Summed(sent) \in Seq(Byte) /\ Len(Summed(sent)) = Length
  BY SummedIs DEF IInv, TypeOK
<1>. QED
  BY <1>1, <1>2, <1>3, SeqEqual

(* The checksum of the frame: it is handed on, or aborts the program.      *)
LEMMA HandsOn ==
  ASSUME IInv, sent \in Frames, Hearing(Length), NEW byte \in Byte,
         byte = ChecksumOf(Summed(sent)), Receive(byte)
  PROVE  /\ UNCHANGED checksum_errors
         /\ IF Len(Payload) = 0 THEN aborted'
            ELSE ~aborted' /\ handed' = Packet(sent) /\ state' = "MAGIC" /\ offset' = 0
<1>0. Length \in Len(Magic) + 3 .. Length /\ Len(Payload) \in Nat
      /\ Length - (Len(Magic) + 3) = Len(Payload)
  BY AllSummed, MagicIsBytes, FrameIsBytes DEF Length
<1>1. /\ frame_size = Len(Payload) /\ frame_type = sent.type /\ PayloadSeen
      /\ offset = Len(Payload)
      /\ state = (IF Len(Payload) > 0 THEN "CHECKSUM" ELSE "PAYLOAD")
  BY <1>0, HeaderIsKnown
<1>2. CASE Len(Payload) = 0
  <2>1. ReceivePayload(byte)
    BY <1>1, <1>2 DEF Receive, ReceiveMagic, ReceiveNoMagic, ReceiveSize, ReceiveFrameType,
       HandFrame, ReceiveWrongChecksum, Step
  <2>. QED
    BY <1>1, <1>2, <2>1 DEF ReceivePayload
<1>3. CASE Len(Payload) > 0
  <2>1. Matches(summed, byte)
    BY AllSummed, SameChecksum
  <2>2. HandFrame(byte)
    BY <1>1, <1>3, <2>1 DEF Receive, ReceiveMagic, ReceiveNoMagic, ReceiveSize,
       ReceiveFrameType, ReceivePayload, ReceiveWrongChecksum, Step
  <2>3. /\ frame_wip \in [0 .. Len(Payload) -> Byte \cup {Unset}]
        /\ \A k \in 1 .. Len(Payload) : summed[Len(Magic) + 3 + k] = frame_wip[k - 1]
    BY <1>1 DEF PayloadSeen, Spells
  <2>4. \A k \in 1 .. Len(Payload) : frame_wip[k - 1] = Payload[k]
    BY <2>3, AllSummed, SummedIs
  <2>5. \A k \in 0 .. Len(Payload) : k # Len(Payload) => frame_wip[k] = Payload[k + 1]
    <3>. SUFFICES ASSUME NEW k \in 0 .. Len(Payload), k # Len(Payload)
                  PROVE  frame_wip[k] = Payload[k + 1]
      OBVIOUS
    <3>1. k + 1 \in 1 .. Len(Payload) /\ (k + 1) - 1 = k
      BY <1>0
    <3>. QED
      BY <2>4, <3>1
  <2>6. [frame_wip EXCEPT ![offset] = 0] =
          [k \in 0 .. Len(Payload) |-> IF k = Len(Payload) THEN 0 ELSE Payload[k + 1]]
    BY <1>1, <2>3, <2>5
  <2>7. handed' = [type |-> sent.type, size |-> Len(Payload),
                   payload |-> [frame_wip EXCEPT ![offset] = 0]]
    BY <1>1, <2>2 DEF HandFrame
  <2>8. handed' = Packet(sent)
    BY <2>6, <2>7 DEF Packet, Payload
  <2>. QED
    BY <1>3, <2>2, <2>8 DEF HandFrame
<1>. QED
  BY <1>0, <1>2, <1>3

(* Any other byte in its place: nothing is handed on.                      *)
LEMMA Refuses ==
  ASSUME NEW byte \in Byte, state = "CHECKSUM" => ~Matches(summed, byte), Receive(byte)
  PROVE  handed' = NoPacket
BY DEF Receive, ReceiveMagic, ReceiveNoMagic, ReceiveSize, ReceiveFrameType, ReceivePayload,
   HandFrame, ReceiveWrongChecksum, Step

LEMMA RefusesAnother ==
  ASSUME IInv, sent \in Frames, Hearing(Length), NEW byte \in Byte,
         byte # ChecksumOf(Summed(sent))
  PROVE  ~Matches(summed, byte)
BY AllSummed, SameChecksum

(* Another byte in the last place before: the checksum will not match it.  *)
LEMMA LastByteIsSummed ==
  ASSUME IInv, sent \in Frames, Hearing(Length - 1), NEW byte \in Byte,
         byte # Summed(sent)[Length], Receive(byte)
  PROVE  state' = "CHECKSUM" => ~Matches(summed', ChecksumOf(Summed(sent)))
<1>. DEFINE n == Length - 1
<1>0. /\ Len(Magic) \in Nat /\ Len(Magic) >= 1 /\ n \in Nat /\ n > 0 /\ n + 1 = Length
      /\ Len(Payload) \in Nat /\ Length = Len(Magic) + 3 + Len(Payload)
  BY MagicIsBytes, FrameIsBytes DEF Length
<1>. HIDE DEF n
<1>. SUFFICES ASSUME state' = "CHECKSUM"
              PROVE  ~Matches(summed', ChecksumOf(Summed(sent)))
  OBVIOUS
<1>1. CASE Len(Payload) = 0
  <2>1. state = "FRAME_TYPE"
    BY <1>0, <1>1 DEF Hearing
  <2>2. state' = "PAYLOAD"
    BY <2>1 DEF Receive, ReceiveMagic, ReceiveNoMagic, ReceiveSize, ReceiveFrameType,
       ReceivePayload, HandFrame, ReceiveWrongChecksum, Step
  <2>. QED
    BY <2>2
<1>2. CASE Len(Payload) > 0
  <2>1. state = "PAYLOAD"
    <3>1. Length - 1 \in Len(Magic) + 3 .. Length /\ Length - 1 # Length
      BY <1>0, <1>2
    <3>. QED
      BY <3>1, HeaderIsKnown
  <2>2. summed' = Append(summed, byte)
    BY <2>1 DEF Receive, ReceiveMagic, ReceiveNoMagic, ReceiveSize, ReceiveFrameType,
       ReceivePayload, HandFrame, ReceiveWrongChecksum, Step, Sum
  <2>3. /\ summed \in Seq(Byte) /\ Len(summed) = n
        /\ \A k \in 1 .. n : summed[k] = Summed(sent)[k]
    BY <1>0 DEF Hearing, IInv, TypeOK, n
  <2>4. /\ summed' \in Seq(Byte) /\ Len(summed') = Length /\ summed'[Length] = byte
        /\ \A k \in 1 .. n : summed'[k] = Summed(sent)[k]
    BY <1>0, <2>2, <2>3, Appended
  <2>5. /\ Summed(sent) \in Seq(Byte) /\ Len(Summed(sent)) = Length
    BY SummedIs
  <2>6. /\ [Summed(sent) EXCEPT ![Length] = byte] \in Seq(Byte)
        /\ Len([Summed(sent) EXCEPT ![Length] = byte]) = Length
        /\ \A k \in 1 .. Length : [Summed(sent) EXCEPT ![Length] = byte][k] =
                                 IF k = Length THEN byte ELSE Summed(sent)[k]
    BY <1>0, <2>5, ExceptSeq
  <2>7. \A k \in 1 .. Length : k = Length \/ k \in 1 .. n
    BY <1>0
  <2>8. summed' = [Summed(sent) EXCEPT ![Length] = byte]
    BY <2>4, <2>6, <2>7, SeqEqual
  <2>. QED
    BY <2>5, <2>8, SameChecksum
<1>. QED
  BY <1>0, <1>1, <1>2

-----------------------------------------------------------------------------
(***************************************************************************)
(* The inductive invariant of the line.  While a frame is on its way to a  *)
(* waiting parser unharmed, what is still on the line and what the parser  *)
(* has summed are the two parts of it; at its end it has been handed on.   *)
(* When one of its last two bytes was corrupted, the byte that comes for   *)
(* the checksum is not the one of what was summed.                         *)
(***************************************************************************)
Unharmed ==
  \E n \in 0 .. Length :
    /\ Len(line) = Length + 1 - n
    /\ Hearing(n)
    /\ \A k \in 1 .. Len(line) : line[k] = OnLine(sent)[n + k]

Delivery ==
  /\ line # <<>> => Unharmed
  /\ line = <<>> =>
       IF Len(Payload) = 0 THEN aborted
       ELSE handed = Packet(sent) /\ state = "MAGIC" /\ offset = 0

Refusal ==
  /\ Len(line) = 0 => handed = NoPacket
  /\ Len(line) = 1 => (state = "CHECKSUM" => ~Matches(summed, line[1]))

Corrupted(left) == hit = <<<<"corrupted", left>>>>

Kinds == {"lost", "corrupted", "cut short"}

LinkType ==
  /\ line \in Seq(Byte) /\ sent \in Frames /\ aligned \in BOOLEAN /\ faults \in Nat
  /\ hit \in Seq(Kinds \X Nat)

LinkInv ==
  /\ LinkType
  /\ aligned /\ hit = <<>> => Delivery
  /\ aligned /\ Corrupted(1) => Len(line) <= 1 /\ Refusal
  /\ aligned /\ Corrupted(2) =>
       /\ Len(line) <= 2 /\ Refusal
       /\ Len(line) = 2 =>
            /\ Hearing(Length - 1) /\ line[1] # Summed(sent)[Length]
            /\ line[2] = ChecksumOf(Summed(sent))
  /\ faults = 0 =>
       /\ hit = <<>> /\ checksum_errors = 0
       /\ line # <<>> => aligned
       /\ line = <<>> /\ ~aborted => state = "MAGIC" /\ offset = 0

LEMMA LinkStarts == LinkInit => IInv /\ LinkInv
<1>. SUFFICES ASSUME LinkInit PROVE IInv /\ LinkInv
  OBVIOUS
<1>1. IInv
  BY InitInv DEF LinkInit
<1>2. line = <<>> /\ aligned = FALSE /\ hit = <<>> /\ faults = 0 /\ sent \in Frames
      /\ checksum_errors = 0 /\ state = "MAGIC" /\ offset = 0
  BY DEF LinkInit, Init
<1>3. LinkType
  BY <1>2, EmptySeq DEF LinkType
<1>. QED
  BY <1>1, <1>2, <1>3 DEF LinkInv

(* The steps of the line keep what holds of the parser.                    *)
LEMMA LineKeepsParser ==
  ASSUME IInv, UNCHANGED <<parser, memory, aborted>>, handed' = NoPacket
  PROVE  IInv'
<1>1. TypeOK'
  BY NoPacketTyped DEF IInv, TypeOK, parser, memory
<1>2. Progress'
  BY DEF IInv, Progress, HeaderSeen, PayloadSeen, MagicSeen, parser, memory
<1>3. MemoryIsCounted' /\ HandedIsSummed'
  BY DEF IInv, MemoryIsCounted, HandedIsSummed, parser, memory
<1>. QED
  BY <1>1, <1>2, <1>3 DEF IInv

(* A new frame: the parser has read nothing of it.                         *)
LEMMA SendKeeps ==
  ASSUME IInv, LinkInv, Send
  PROVE  LinkInv'
<1>1. /\ line = <<>> /\ ~aborted /\ sent' \in Frames /\ line' = OnLine(sent')
      /\ aligned' = (state = "MAGIC" /\ offset = 0) /\ hit' = <<>>
      /\ UNCHANGED <<parser, memory, aborted, faults>>
  BY DEF Send
<1>2. /\ line' \in Seq(Byte) /\ Len(line') = Length' + 1 /\ Length' \in Nat /\ line' # <<>>
  <2>1. (sent \in Frames => OnLine(sent) \in Seq(Byte) /\ Len(OnLine(sent)) = Length + 1
                            /\ Length \in Nat)'
    BY OnLineIs, FrameIsBytes, PTL
  <2>. QED
    BY <1>1, <2>1
<1>3. LinkType'
  BY <1>1, <1>2 DEF LinkInv, LinkType
<1>4. aligned' => Delivery'
  <2>. SUFFICES ASSUME state = "MAGIC" /\ offset = 0 PROVE Delivery'
    BY <1>1
  <2>1. 0 \in 0 .. Length' /\ Len(line') = Length' + 1 - 0
    BY <1>2
  <2>2. Hearing(0)'
    BY <1>1, MagicIsBytes DEF Hearing, parser
  <2>3. Unharmed'
    <3>1. \A k \in 1 .. Len(line') : line'[k] = OnLine(sent')[0 + k]
      BY <1>1, <1>2
    <3>. QED
      BY <2>1, <2>2, <3>1, Zenon DEF Unharmed
  <2>. QED
    BY <1>2, <2>3 DEF Delivery
<1>5. faults' = 0 => checksum_errors' = 0 /\ aligned'
  BY <1>1 DEF LinkInv, memory
<1>. QED
  BY <1>1, <1>2, <1>3, <1>4, <1>5 DEF LinkInv, Corrupted

(* The bytes on the line when the first one has arrived.                   *)
LEMMA Arrives ==
  ASSUME LinkInv, Arrive
  PROVE  /\ Head(line) \in Byte /\ Head(line) = line[1] /\ Receive(Head(line))
         /\ line' \in Seq(Byte) /\ Len(line) \in Nat \ {0} /\ Len(line') = Len(line) - 1
         /\ line' = <<>> <=> Len(line) = 1
         /\ \A k \in 1 .. Len(line) - 1 : line'[k] = line[k + 1]
         /\ UNCHANGED <<sent, aligned, hit, faults>>
<1>1. line \in Seq(Byte) /\ line # <<>> /\ line' = Tail(line)
  BY DEF LinkInv, LinkType, Arrive
<1>2. /\ Head(line) \in Byte /\ Head(line) = line[1] /\ line' \in Seq(Byte)
      /\ Len(line) \in Nat \ {0} /\ Len(line') = Len(line) - 1
      /\ \A k \in 1 .. Len(line') : line'[k] = line[k + 1]
  BY <1>1, HeadTailProperties, EmptySeq
<1>3. line' = <<>> <=> Len(line') = 0
  BY <1>2
<1>. QED
  BY <1>2, <1>3 DEF Arrive

(* A byte of a frame on its way to a waiting parser.                       *)
LEMMA ArriveDelivers ==
  ASSUME IInv, LinkInv, Arrive, aligned, hit = <<>>
  PROVE  /\ Delivery' /\ UNCHANGED checksum_errors
         /\ line' = <<>> /\ ~aborted' => state' = "MAGIC" /\ offset' = 0
<1>1. sent \in Frames /\ Unharmed /\ line # <<>>
  BY DEF LinkInv, LinkType, Arrive, Delivery
<1>2. PICK n \in 0 .. Length :
        /\ Len(line) = Length + 1 - n /\ Hearing(n)
        /\ \A k \in 1 .. Len(line) : line[k] = OnLine(sent)[n + k]
  BY <1>1, Zenon DEF Unharmed
<1>3. Length \in Nat /\ n \in Nat /\ n <= Length
  BY <1>1, FrameIsBytes
<1>4. Head(line) = OnLine(sent)[n + 1]
  BY <1>2, Arrives
<1>5. CASE n < Length
  <2>1. Head(line) = Summed(sent)[n + 1] /\ n \in 0 .. Length - 1
    BY <1>1, <1>3, <1>4, <1>5, OnLineIs
  <2>2. Hearing(n + 1)' /\ UNCHANGED checksum_errors
    BY <1>1, <1>2, <2>1, Arrives, HearsOn
  <2>3. Len(line) = Length + 1 - n /\ Len(line') = Len(line) - 1
    BY <1>2, Arrives
  <2>4. UNCHANGED <<Length, sent>>
    BY Arrives DEF Length, Payload
  <2>5. n + 1 \in 0 .. Length /\ Len(line') = Length + 1 - (n + 1) /\ line' # <<>>
    <3>1. Len(line) # 1
      BY <1>3, <1>5, <2>3
    <3>. QED
      BY <1>3, <1>5, <2>3, <3>1, Arrives
  <2>6. \A k \in 1 .. Len(line') : line'[k] = OnLine(sent)[(n + 1) + k]
    <3>. SUFFICES ASSUME NEW k \in 1 .. Len(line') PROVE line'[k] = OnLine(sent)[(n + 1) + k]
      OBVIOUS
    <3>1. k \in 1 .. Len(line) - 1 /\ k + 1 \in 1 .. Len(line) /\ n + (k + 1) = (n + 1) + k
      BY <1>3, <2>3, Arrives
    <3>. QED
      BY <1>2, <3>1, Arrives
  <2>7. Unharmed'
    BY <2>2, <2>4, <2>5, <2>6, Zenon DEF Unharmed
  <2>. QED
    BY <2>2, <2>5, <2>7 DEF Delivery
<1>6. CASE n = Length
  <2>1. Head(line) = ChecksumOf(Summed(sent)) /\ Hearing(Length)
    BY <1>1, <1>2, <1>4, <1>6, OnLineIs
  <2>2. line' = <<>>
    BY <1>2, <1>3, <1>6, Arrives
  <2>3. /\ UNCHANGED checksum_errors
        /\ IF Len(Payload) = 0 THEN aborted'
           ELSE ~aborted' /\ handed' = Packet(sent) /\ state' = "MAGIC" /\ offset' = 0
    BY <1>1, <2>1, Arrives, HandsOn
  <2>4. UNCHANGED <<Payload, Packet(sent)>>
    BY Arrives DEF Payload, Packet
  <2>. QED
    BY <2>2, <2>3, <2>4 DEF Delivery
<1>. QED
  BY <1>3, <1>5, <1>6

(* A corrupted byte, or the one after it.                                  *)
LEMMA ArriveRefuses ==
  ASSUME IInv, LinkInv, Arrive, Refusal, Len(line) = 1
  PROVE  Refusal' /\ Len(line') = 0
<1>1. Len(line') = 0 /\ handed' = NoPacket
  BY Arrives, Refuses DEF Refusal
<1>. QED
  BY <1>1 DEF Refusal

LEMMA ArriveKeeps ==
  ASSUME IInv, LinkInv, Arrive
  PROVE  LinkInv'
<1>0. \A k \in Nat \ {0} : (k <= 1 => k = 1) /\ (k <= 2 => k = 1 \/ k = 2)
  OBVIOUS
<1>1. LinkType'
  BY Arrives DEF LinkInv, LinkType
<1>2. aligned' /\ hit' = <<>> => Delivery'
  BY Arrives, ArriveDelivers
<1>3. ASSUME aligned', Corrupted(1)'
      PROVE  Len(line') <= 1 /\ Refusal'
  <2>1. aligned /\ Corrupted(1)
    BY <1>3, Arrives DEF Corrupted
  <2>2. Len(line) <= 1 /\ Refusal
    BY <2>1 DEF LinkInv
  <2>3. Len(line) = 1
    BY <1>0, <2>2, Arrives, Zenon
  <2>. QED
    BY <2>2, <2>3, ArriveRefuses
<1>4. ASSUME aligned', Corrupted(2)'
      PROVE  Len(line') <= 1 /\ Refusal'
  <2>0. aligned /\ Corrupted(2) /\ Len(line) \in Nat \ {0}
    BY <1>4, Arrives DEF Corrupted
  <2>1. /\ sent \in Frames /\ Len(line) <= 2 /\ Refusal
        /\ Len(line) = 2 => /\ Hearing(Length - 1) /\ line[1] # Summed(sent)[Length]
                            /\ line[2] = ChecksumOf(Summed(sent))
    BY <2>0 DEF LinkInv, LinkType
  <2>2. CASE Len(line) = 1
    BY <2>1, <2>2, ArriveRefuses
  <2>3. CASE Len(line) = 2
    <3>1. Len(line') = 1 /\ line'[1] = ChecksumOf(Summed(sent))
      BY <2>1, <2>3, Arrives
    <3>2. state' = "CHECKSUM" => ~Matches(summed', ChecksumOf(Summed(sent)))
      BY <2>1, <2>3, Arrives, LastByteIsSummed
    <3>. QED
      BY <3>1, <3>2 DEF Refusal
  <2>. QED
    BY <1>0, <2>0, <2>1, <2>2, <2>3, Zenon
<1>5. ASSUME faults' = 0
      PROVE  /\ hit' = <<>> /\ checksum_errors' = 0 /\ aligned'
             /\ line' = <<>> /\ ~aborted' => state' = "MAGIC" /\ offset' = 0
  <2>1. faults = 0 /\ aligned /\ hit = <<>> /\ checksum_errors = 0
    BY <1>5, Arrives DEF LinkInv, Arrive
  <2>. QED
    BY <2>1, Arrives, ArriveDelivers
<1>6. Len(line') <= 1 => Len(line') <= 2 /\ Len(line') # 2
  <2>1. \A k \in Nat : k <= 1 => k <= 2 /\ k # 2
    OBVIOUS
  <2>. QED
    BY <2>1, Arrives, LenProperties, Zenon
<1>. QED
  BY <1>1, <1>2, <1>3, <1>4, <1>5, <1>6, Zenon DEF LinkInv

(* A sequence that was made to hold one element.                           *)
LEMMA AppendedOnly ==
  ASSUME NEW S, NEW seq \in Seq(S), NEW elt \in S
  PROVE  /\ Append(seq, elt) \in Seq(S) /\ Append(seq, elt) # <<>>
         /\ \A only \in S : Append(seq, elt) = <<only>> => seq = <<>> /\ elt = only
<1>1. /\ Append(seq, elt) \in Seq(S) /\ Len(Append(seq, elt)) = Len(seq) + 1
      /\ Append(seq, elt)[Len(seq) + 1] = elt
  BY AppendProperties
<1>2. Len(seq) \in Nat /\ (Len(seq) = 0 => seq = <<>>)
  BY LenProperties, EmptySeq
<1>3. Append(seq, elt) # <<>>
  BY <1>1, <1>2, EmptySeq
<1>4. ASSUME NEW only \in S, Append(seq, elt) = <<only>>
      PROVE  seq = <<>> /\ elt = only
  <2>1. Len(<<only>>) = 1 /\ <<only>>[1] = only
    OBVIOUS
  <2>2. Len(seq) + 1 = 1 /\ <<only>>[Len(seq) + 1] = elt
    BY <1>1, <1>4
  <2>3. Len(seq) = 0
    BY <1>2, <2>2
  <2>4. seq = <<>>
    BY <1>2, <2>3
  <2>5. Len(seq) + 1 = 1
    BY <2>3
  <2>. QED
    BY <2>1, <2>2, <2>4, <2>5, Zenon
<1>. QED
  BY <1>1, <1>3, <1>4

(* A fault: the frame is not unharmed any more.                            *)
LEMMA Faults ==
  ASSUME LinkInv, NEW kind \in Kinds, Fault(kind)
  PROVE  /\ line \in Seq(Byte) /\ line # <<>> /\ faults' \in Nat /\ faults' # 0
         /\ hit' # <<>> /\ hit' \in Seq(Kinds \X Nat)
         /\ handed' = NoPacket /\ UNCHANGED <<parser, memory, aborted, sent, aligned>>
         /\ \A left \in Nat : Corrupted(left)' =>
              hit = <<>> /\ kind = "corrupted" /\ left = Len(line)
<1>1. line \in Seq(Byte) /\ Len(line) \in Nat /\ faults \in Nat /\ hit \in Seq(Kinds \X Nat)
  BY LenProperties DEF LinkInv, LinkType
<1>2. <<kind, Len(line)>> \in Kinds \X Nat /\ hit' = Append(hit, <<kind, Len(line)>>)
  BY <1>1 DEF Fault
<1>3. /\ hit' \in Seq(Kinds \X Nat) /\ hit' # <<>>
      /\ \A only \in Kinds \X Nat : hit' = <<only>> => hit = <<>> /\ <<kind, Len(line)>> = only
  <2>. DEFINE Hits == Kinds \X Nat
              new  == <<kind, Len(line)>>
  <2>1. hit \in Seq(Hits) /\ new \in Hits /\ hit' = Append(hit, new)
    BY <1>1, <1>2
  <2>. HIDE DEF Hits, new
  <2>2. /\ Append(hit, new) \in Seq(Hits) /\ Append(hit, new) # <<>>
        /\ \A only \in Hits : Append(hit, new) = <<only>> => hit = <<>> /\ new = only
    BY <2>1, AppendedOnly
  <2>. QED
    BY <2>1, <2>2, Zenon DEF Hits, new
<1>4. ASSUME NEW left \in Nat, Corrupted(left)'
      PROVE  hit = <<>> /\ kind = "corrupted" /\ left = Len(line)
  <2>1. <<"corrupted", left>> \in Kinds \X Nat /\ hit' = <<<<"corrupted", left>>>>
    BY <1>4 DEF Corrupted, Kinds
  <2>2. hit = <<>> /\ <<kind, Len(line)>> = <<"corrupted", left>>
    BY <1>3, <2>1
  <2>. QED
    BY <2>2
<1>5. line # <<>> /\ faults' = faults + 1 /\ handed' = NoPacket
      /\ UNCHANGED <<parser, memory, aborted, sent, aligned>>
  BY DEF Fault
<1>6. faults' \in Nat /\ faults' # 0
  BY <1>1, <1>5
<1>. QED
  BY <1>1, <1>3, <1>4, <1>5, <1>6

(* A corrupted byte: the others stay.                                      *)
LEMMA CorruptsFirst ==
  ASSUME line \in Seq(Byte), line # <<>>, Corrupt
  PROVE  /\ line' \in Seq(Byte) /\ Len(line') = Len(line) /\ line'[1] \in Byte
         /\ line'[1] # line[1] /\ (Len(line) = 2 => line'[2] = line[2])
<1>1. /\ Head(line) = line[1] /\ Tail(line) \in Seq(Byte) /\ Len(Tail(line)) = Len(line) - 1
      /\ \A k \in 1 .. Len(Tail(line)) : Tail(line)[k] = line[k + 1]
  BY HeadTailProperties
<1>2. PICK noise \in Byte : noise # line[1] /\ line' = <<noise>> \o Tail(line)
  BY <1>1, LinkAssumption DEF Corrupt
<1>3. <<noise>> \in Seq(Byte) /\ Len(<<noise>>) = 1 /\ <<noise>>[1] = noise
  OBVIOUS
<1>4. /\ line' \in Seq(Byte) /\ Len(line') = 1 + Len(Tail(line))
      /\ \A k \in 1 .. 1 : line'[k] = noise
      /\ \A k \in 1 .. Len(Tail(line)) : line'[1 + k] = Tail(line)[k]
  <2>1. \A k \in 1 .. 1 : k = 1
    OBVIOUS
  <2>2. /\ line' \in Seq(Byte) /\ Len(line') = Len(<<noise>>) + Len(Tail(line))
        /\ \A k \in 1 .. Len(<<noise>>) : line'[k] = <<noise>>[k]
        /\ \A k \in 1 .. Len(Tail(line)) : line'[Len(<<noise>>) + k] = Tail(line)[k]
    BY <1>1, <1>2, <1>3, Joined
  <2>. QED
    BY <1>3, <2>1, <2>2, Zenon
<1>5. line'[1] = noise
  <2>1. 1 \in 1 .. 1
    OBVIOUS
  <2>. QED
    BY <1>4, <2>1
<1>6. Len(line) \in Nat
  BY LenProperties
<1>7. Len(line') = Len(line)
  BY <1>1, <1>4, <1>6
<1>8. ASSUME Len(line) = 2
      PROVE  line'[2] = line[2]
  <2>1. Len(Tail(line)) = 1
    BY <1>1, <1>8
  <2>2. 1 \in 1 .. 1 /\ 1 + 1 = 2
    OBVIOUS
  <2>3. 1 \in 1 .. Len(Tail(line))
    BY <2>1, <2>2, Zenon
  <2>4. line'[1 + 1] = Tail(line)[1] /\ Tail(line)[1] = line[1 + 1]
    BY <1>1, <1>4, <2>3, Zenon
  <2>. QED
    BY <2>2, <2>4, Zenon
<1>. QED
  BY <1>2, <1>4, <1>5, <1>7, <1>8

(* The byte that is corrupted, where it is one of the last two.            *)
LEMMA AtTheEnd ==
  ASSUME Unharmed, sent \in Frames
  PROVE  /\ Len(line) = 1 => Hearing(Length) /\ line[1] = ChecksumOf(Summed(sent))
         /\ Len(line) = 2 => /\ Hearing(Length - 1) /\ line[1] = Summed(sent)[Length]
                             /\ line[2] = ChecksumOf(Summed(sent))
<1>1. PICK n \in 0 .. Length :
        /\ Len(line) = Length + 1 - n /\ Hearing(n)
        /\ \A k \in 1 .. Len(line) : line[k] = OnLine(sent)[n + k]
  BY Zenon DEF Unharmed
<1>2. Length \in Nat /\ n \in Nat /\ Length >= 1
  BY FrameIsBytes, MagicIsBytes DEF Length
<1>3. ASSUME Len(line) = 1
      PROVE  Hearing(Length) /\ line[1] = ChecksumOf(Summed(sent))
  <2>1. n = Length
    <3>1. 1 = Length + 1 - n
      BY <1>1, <1>3
    <3>. QED
      BY <1>2, <3>1
  <2>2. 1 \in 1 .. 1
    OBVIOUS
  <2>. QED
    BY <1>1, <1>3, <2>1, <2>2, OnLineIs, Zenon
<1>4. ASSUME Len(line) = 2
      PROVE  /\ Hearing(Length - 1) /\ line[1] = Summed(sent)[Length]
             /\ line[2] = ChecksumOf(Summed(sent))
  <2>1. n = Length - 1
    <3>1. 2 = Length + 1 - n
      BY <1>1, <1>4
    <3>. QED
      BY <1>2, <3>1
  <2>2. 1 \in 1 .. 2 /\ 2 \in 1 .. 2
    OBVIOUS
  <2>3. n + 1 = Length /\ n + 2 = Length + 1 /\ Length \in 1 .. Length
    BY <1>2, <2>1
  <2>4. line[1] = OnLine(sent)[n + 1] /\ line[2] = OnLine(sent)[n + 2]
    BY <1>1, <1>4, <2>2, Zenon
  <2>5. line[1] = OnLine(sent)[Length] /\ line[2] = OnLine(sent)[Length + 1]
    BY <2>3, <2>4, Zenon
  <2>. QED
    BY <1>1, <2>1, <2>3, <2>5, OnLineIs, Zenon
<1>. QED
  BY <1>3, <1>4

LEMMA FaultKeeps ==
  ASSUME IInv, LinkInv, Lose \/ Corrupt \/ Truncate
  PROVE  LinkInv'
<1>1. PICK kind \in Kinds : Fault(kind) /\ (kind = "corrupted" => Corrupt)
  BY DEF Lose, Corrupt, Truncate, Kinds
<1>2. /\ line \in Seq(Byte) /\ line # <<>> /\ faults' # 0 /\ hit' # <<>>
      /\ UNCHANGED <<parser, memory, aborted, sent, aligned>> /\ handed' = NoPacket
      /\ \A left \in Nat : Corrupted(left)' =>
           hit = <<>> /\ kind = "corrupted" /\ left = Len(line)
  BY <1>1, Faults
<1>3. LinkType'
  <2>1. line' \in Seq(Byte)
    <3>1. CASE Lose
      BY <1>2, <3>1, HeadTailProperties DEF Lose
    <3>2. CASE Corrupt
      BY <1>2, <3>2, CorruptsFirst
    <3>3. CASE Truncate
      BY <3>3, EmptySeq DEF Truncate
    <3>. QED
      BY <3>1, <3>2, <3>3
  <2>2. sent' \in Frames /\ aligned' \in BOOLEAN
    BY <1>2 DEF LinkInv, LinkType
  <2>. QED
    BY <1>1, <2>1, <2>2, Faults DEF LinkType, Kinds
<1>4. ASSUME NEW left \in {1, 2}, aligned', Corrupted(left)'
      PROVE  /\ left = Len(line) /\ sent \in Frames /\ Unharmed
             /\ Len(line') = left /\ line'[1] \in Byte
             /\ line'[1] # line[1] /\ (left = 2 => line'[2] = line[2])
  <2>1. left \in Nat
    OBVIOUS
  <2>2. hit = <<>> /\ aligned /\ left = Len(line) /\ Corrupt
    BY <1>1, <1>2, <1>4, <2>1
  <2>3. sent \in Frames /\ Unharmed
    BY <1>2, <2>2 DEF LinkInv, LinkType, Delivery
  <2>. QED
    BY <1>2, <2>2, <2>3, CorruptsFirst
<1>5. ASSUME aligned', Corrupted(1)'
      PROVE  Len(line') <= 1 /\ Refusal'
  <2>0. 1 <= 1
    OBVIOUS
  <2>1. /\ Len(line) = 1 /\ sent \in Frames /\ Unharmed
        /\ Len(line') = 1 /\ line'[1] \in Byte /\ line'[1] # line[1]
    BY <1>4, <1>5
  <2>2. ~Matches(summed, line'[1])
    BY <2>1, AtTheEnd, RefusesAnother
  <2>3. UNCHANGED summed
    BY <1>2 DEF parser
  <2>4. Refusal'
    BY <2>1, <2>2, <2>3 DEF Refusal
  <2>. QED
    BY <2>0, <2>1, <2>4, Zenon
<1>6. ASSUME aligned', Corrupted(2)'
      PROVE  /\ Len(line') <= 2 /\ Refusal'
             /\ Len(line') = 2 =>
                  /\ Hearing(Length - 1)' /\ (line[1] # Summed(sent)[Length])'
                  /\ (line[2] = ChecksumOf(Summed(sent)))'
  <2>0. 2 <= 2
    OBVIOUS
  <2>1. /\ Len(line) = 2 /\ sent \in Frames /\ Unharmed
        /\ Len(line') = 2 /\ line'[1] # line[1] /\ line'[2] = line[2]
    BY <1>4, <1>6
  <2>2. /\ Hearing(Length - 1) /\ line[1] = Summed(sent)[Length]
        /\ line[2] = ChecksumOf(Summed(sent))
    BY <2>1, AtTheEnd
  <2>3. UNCHANGED <<Length, Payload, Summed(sent), sent, state, offset, summed, aborted>>
    BY <1>2 DEF Length, Payload, Summed, parser
  <2>4. Hearing(Length - 1)'
    BY <2>2, <2>3 DEF Hearing
  <2>5. Refusal'
    BY <2>1 DEF Refusal
  <2>6. (line[1] # Summed(sent)[Length])' /\ (line[2] = ChecksumOf(Summed(sent)))'
    BY <2>1, <2>2, <2>3
  <2>. QED
    BY <2>0, <2>1, <2>4, <2>5, <2>6, Zenon
<1>. QED
  BY <1>2, <1>3, <1>5, <1>6, Zenon DEF LinkInv

LEMMA LinkInvariant == LinkSpec => [](IInv /\ LinkInv)
<1>1. ASSUME IInv, LinkInv, LinkNext
      PROVE  IInv' /\ LinkInv'
  <2>1. CASE Send
    BY <1>1, <2>1, SendKeeps, LineKeepsParser DEF Send
  <2>2. CASE Arrive
    <3>1. Next
      BY <1>1, <2>2, Arrives DEF Next
    <3>. QED
      BY <1>1, <2>2, <3>1, StepInv, ArriveKeeps
  <2>3. CASE Lose \/ Corrupt \/ Truncate
    BY <1>1, <2>3, FaultKeeps, LineKeepsParser DEF Lose, Corrupt, Truncate, Fault
  <2>. QED
    BY <1>1, <2>1, <2>2, <2>3 DEF LinkNext
<1>2. ASSUME IInv, LinkInv, UNCHANGED allVars
      PROVE  IInv' /\ LinkInv'
  <2>1. UNCHANGED vars
    BY <1>2 DEF allVars
  <2>2. IInv'
    BY <1>2, <2>1, StepInv
  <2>3. UNCHANGED <<line, sent, aligned, hit, faults, state, offset, summed, checksum_errors,
                    handed, aborted>>
    BY <1>2 DEF allVars, vars, linkVars, parser, memory
  <2>4. UNCHANGED <<Payload, Length>>
    BY <2>3 DEF Payload, Length
  <2>5. UNCHANGED <<Unharmed, Delivery, Refusal, Corrupted(1), Corrupted(2), LinkType,
                    Hearing(Length - 1)>>
    BY <2>3, <2>4 DEF Unharmed, Delivery, Refusal, Corrupted, LinkType, Hearing
  <2>6. LinkInv'
    BY <1>2, <2>3, <2>4, <2>5 DEF LinkInv
  <2>. QED
    BY <2>2, <2>6
<1>. QED
  BY LinkStarts, <1>1, <1>2, PTL DEF LinkSpec

(***************************************************************************)
(* frame-comm.c and frame-parser.c are the two ends of one format: a frame *)
(* sent to a waiting parser over a line that leaves it alone is handed on  *)
(* as it was sent, or aborts the program when it has no payload, whatever  *)
(* the parser went through before.                                         *)
(***************************************************************************)
THEOREM IntactFramesAreHanded == LinkSpec => []IntactIsHanded
<1>1. IInv /\ LinkInv => IntactIsHanded
  <2>1. ASSUME LinkInv, line = <<>>, aligned, hit = <<>>
        PROVE  IF sent.payload = <<>> THEN aborted ELSE handed = Packet(sent)
    <3>1. Delivery /\ sent \in Frames
      BY <2>1 DEF LinkInv, LinkType
    <3>2. Payload \in Seq(Byte)
      BY <3>1, FrameIsBytes
    <3>3. Len(Payload) = 0 <=> sent.payload = <<>>
      BY <3>2, EmptySeq DEF Payload
    <3>. QED
      BY <2>1, <3>1, <3>3 DEF Delivery
  <2>. QED
    BY <2>1 DEF LinkInv, IntactIsHanded
<1>. QED
  BY <1>1, LinkInvariant, PTL

(***************************************************************************)
(* The host throws a frame away whose last byte in front of the checksum,  *)
(* or whose checksum, was corrupted to any other byte.                     *)
(***************************************************************************)
THEOREM CorruptionIsCaught == LinkSpec => []CaughtAtEnd
<1>1. LinkInv => CaughtAtEnd
  <2>1. ASSUME LinkInv, line = <<>>, aligned, NEW left \in {1, 2}, hit = <<<<"corrupted", left>>>>
        PROVE  handed = NoPacket
    <3>1. Refusal
      BY <2>1 DEF LinkInv, Corrupted
    <3>. QED
      BY <2>1, <3>1 DEF Refusal
  <2>. QED
    BY <2>1 DEF CaughtAtEnd
<1>. QED
  BY <1>1, LinkInvariant, PTL

=============================================================================
