------------------------------- MODULE Checksum -------------------------------
(***************************************************************************)
(* The checksum of a frame: the device's (firmware/checksum.c, checksum.h  *)
(* and uart-comm.c), which sends it, and the host's                        *)
(* (hostware/freemcan-checksum.c), which compares it.  The accumulator is  *)
(* wider than a byte, and only its low byte is sent.                       *)
(***************************************************************************)
EXTENDS Integers, Bitwise, Sequences

CONSTANTS
  ByteBits, \* bits of a byte (8)
  AccuBits, \* bits of the accumulator (16)
  Seed      \* value it is reset to (0x3e59)

ASSUME ChecksumAssumption ==
  /\ ByteBits \in Nat \ {0} /\ AccuBits \in Nat /\ AccuBits >= ByteBits /\ AccuBits > 3
  /\ Seed \in 0 .. (2 ^ AccuBits) - 1

Accu == 0 .. (2 ^ AccuBits) - 1
LowByte(accu) == accu % (2 ^ ByteBits)

(* Both programs compute with the same three expressions: r = accu << 3 |  *)
(* accu >> 13, x = 8*n + 2*n + n and r ^ x.  The first and the last are    *)
(* tables.                                                                 *)
RotateLeft == [accu \in Accu |->
                 ((accu * 8) % (2 ^ AccuBits)) + (accu \div (2 ^ (AccuBits - 3)))]

ExclusiveOr == [r, x \in Accu |-> r ^^ x]

Spread(n) == (8 * n + 2 * n + n) % (2 ^ AccuBits)

-----------------------------------------------------------------------------
(* The device: uart_putc() updates the accumulator by every byte it sends. *)
checksum_reset == Seed

checksum_update(accu, data) == ExclusiveOr[RotateLeft[accu], Spread(data)]

uart_putb(bytes) ==
  LET after[sent \in 0 .. Len(bytes)] ==
        IF sent = 0 THEN checksum_reset ELSE checksum_update(after[sent - 1], bytes[sent])
  IN  after[Len(bytes)]

uart_send_checksum(bytes) == LowByte(uart_putb(bytes))

-----------------------------------------------------------------------------
(* The host's copy of it.                                                  *)
host_checksum_update(accu, value) == ExclusiveOr[RotateLeft[accu], Spread(value)]

checksum_input(bytes) ==
  LET after[read \in 0 .. Len(bytes)] ==
        IF read = 0 THEN Seed ELSE host_checksum_update(after[read - 1], bytes[read])
  IN  after[Len(bytes)]

checksum_match(bytes, value) == LowByte(checksum_input(bytes)) = value

=============================================================================
