------------------------------ MODULE MCHostLink ------------------------------
(***************************************************************************)
(* Small instances of HostLink: bytes of three bits, a magic of two bytes, *)
(* and the checksum computed as the two programs do.                       *)
(***************************************************************************)
EXTENDS HostLink, Checksum

MCMagic == <<1, 2>>

(* A payload of four bytes, one of them the magic's second byte, and the   *)
(* frame of an EEPROM that holds no parameters.                            *)
MCFrames ==
  {[type |-> 4, payload |-> <<5, 2, 0, 3>>], [type |-> 5, payload |-> <<>>]}

=============================================================================
