------------------------------ MODULE DeviceFSM ------------------------------
(***************************************************************************)
(* What the device promises its host: the state machine of the             *)
(* communication protocol (include/frame-defs.h, firmware/main.c), without *)
(* the event loop, the frame parser, the parameter buffers and the         *)
(* interrupts that implement it.                                           *)
(*                                                                         *)
(* Every step either keeps the state and sends frames that belong to that  *)
(* state, or takes one of the transitions below and sends exactly the      *)
(* frames that announce it.  A reset nobody asked for is announced by an   *)
(* error text, and a finished or aborted measurement can only be left by   *)
(* a reset.                                                                *)
(***************************************************************************)
EXTENDS Naturals, Sequences

VARIABLES
  mode, \* state of the device
  late, \* the measurement ended by itself while it was being aborted
  said  \* frames sent by the last step

vars == <<mode, late, said>>

Up == {"READY", "MEASURING", "DONE"}
Mode == Up \cup {"booting", "RESET"}

State(name) == <<"state", name>>
Info        == <<"info", "personality">>
Note        == {"text"} \X {"param length mismatch", "checksum fail"}

(* The frames that belong to a state and do not end it.                    *)
ServedIn(m) ==
  {Info, State(m)} \cup Note \cup
  CASE m = "READY"     -> {State("PARAMS_TO_EEPROM"), <<"params", "eeprom">>,
                           <<"text", "invalid EEPROM data">>}
    [] m = "MEASURING" -> {<<"table", "intermediate">>}
    [] m = "DONE"      -> {<<"table", "resend">>}

Init == mode = "booting" /\ late = FALSE /\ said = <<>>

Announce ==
  /\ mode = "booting" /\ mode' = "READY"
  /\ said' = <<Info, State("READY")>>
  /\ UNCHANGED late

Serve ==
  /\ mode \in Up /\ UNCHANGED <<mode, late>>
  /\ \A i \in DOMAIN said' : said'[i] \in ServedIn(mode)

Start ==
  /\ mode = "READY" /\ mode' = "MEASURING"
  /\ said' = <<State("MEASURING")>>
  /\ UNCHANGED late

Finish ==
  /\ mode = "MEASURING" /\ mode' = "DONE"
  /\ said' = <<<<"table", "done">>>>
  /\ late' = FALSE

Abort ==
  /\ mode = "MEASURING" /\ mode' = "DONE"
  /\ said' = <<State("DONE"), <<"table", "aborted">>, State("DONE")>>
  /\ late' \in BOOLEAN

Reset ==
  /\ mode \in {"READY", "DONE"} /\ mode' = "RESET"
  /\ said' = <<State("RESET")>>
  /\ late' = FALSE

(* The error resets, each in the only states that can come to it.          *)
Fault(states, what) ==
  /\ mode \in states /\ mode' = "RESET"
  /\ said' = <<<<"text", what>>>>
  /\ late' = FALSE

TimerFault   == Fault({"READY"}, "unsupported timer value")
CommandFault == Fault({"READY", "MEASURING"}, "STP_ERROR")
LateFault    == late /\ Fault({"DONE"}, "invalid state transition")

Reboot ==
  /\ mode \in Mode /\ mode' = "booting"
  /\ late' = FALSE /\ said' = <<>>

(***************************************************************************)
(* What it does when it hears a command: it answers and keeps its state,   *)
(* or takes the transition the command asks for.  A byte that is none of   *)
(* the commands is "other".                                                *)
(***************************************************************************)
Answers(cmd) ==
  LET table(reason) == {<<<<"table", reason>>, State(mode)>>}
  IN CASE cmd = "f" -> {<<Info, State(mode)>>}
       [] cmd = "s" -> {<<State(mode)>>}
       [] mode = "READY" /\ cmd \in {"a", "i"} -> {<<State(mode)>>}
       [] mode = "READY" /\ cmd = "e" -> {<<State("PARAMS_TO_EEPROM"), State(mode)>>}
       [] mode = "READY" /\ cmd = "E" ->
            {<<<<"params", "eeprom">>, State(mode)>>,
             <<<<"text", "invalid EEPROM data">>, State(mode)>>}
       [] mode = "MEASURING" /\ cmd = "i" -> table("intermediate")
       [] mode = "MEASURING" /\ cmd \in {"e", "E", "m", "r"} -> {<<State(mode)>>}
       [] mode = "DONE" /\ cmd \notin {"f", "s", "r"} -> table("resend")
       [] OTHER -> {}

Obeys(cmd) ==
  \/ Serve /\ said' \in Answers(cmd)
  \/ cmd = "m" /\ (Start \/ TimerFault)
  \/ cmd = "a" /\ Abort
  \/ cmd = "r" /\ Reset
  \/ cmd = "other" /\ CommandFault

Next ==
  \/ Announce \/ Serve \/ Start \/ Finish \/ Abort \/ Reset
  \/ TimerFault \/ CommandFault \/ LateFault \/ Reboot

Spec == Init /\ [][Next]_vars

(* A device that is booting, or waits for the watchdog, comes up.          *)
FairSpec == Spec /\ WF_vars(Announce) /\ WF_vars(mode = "RESET" /\ Reboot)

=============================================================================
