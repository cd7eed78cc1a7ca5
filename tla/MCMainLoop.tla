----------------------------- MODULE MCMainLoop -----------------------------
(***************************************************************************)
(* Small instances of MainLoop: a magic string of two bytes, a personality *)
(* with two parameter bytes (one 16 bit timer value), a buffer with room   *)
(* for three or four.                                                      *)
(***************************************************************************)
EXTENDS MainLoop

(* A parameter block as a device holds it after a programming session.     *)
BlockOf(length, byte) ==
  [c \in Cell |-> IF c = LengthCell THEN length ELSE byte]

MCProgrammed == {BlockOf(ParamSize, 2), BlockOf(MaxParam, 2)}
MCErased     == {[c \in Cell |-> 255]}
MCAnyEeprom  == MCProgrammed \cup MCErased

MCAllCommands == KnownCommand \cup {"other"}

=============================================================================
