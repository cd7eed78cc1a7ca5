--------------------------------- MODULE Beep ---------------------------------
(***************************************************************************)
(* The loudspeaker (firmware/beep.c, beep.h): timer2 makes the tone and    *)
(* timer0, started with it, ends both with its overflow interrupt.         *)
(***************************************************************************)

VARIABLES
  gate,  \* timer0 is running
  tone   \* timer2 is running

beepVars == <<gate, tone>>

(* beep_init_and_start() sets up both and starts neither.                  *)
BeepInit == gate = FALSE /\ tone = FALSE

(* A beep that is going on is not made longer: timer0 is not set back.     *)
_beep == gate' = TRUE /\ tone' = TRUE

\* Mutant: the tone goes on.
timer0_2_stop_and_reset_KeepTone == gate' = FALSE /\ UNCHANGED tone

timer0_2_stop_and_reset == gate' = FALSE /\ tone' = FALSE

(* TIMER0_OVF                                                              *)
GateElapsed == gate /\ timer0_2_stop_and_reset

(* With the interrupts off; an overflow that is pending is cleared too.    *)
beep_kill_all == timer0_2_stop_and_reset

=============================================================================
