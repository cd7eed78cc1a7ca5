----------------------------- MODULE GeigerDisplay -----------------------------
(***************************************************************************)
(* The Geiger counter with its display: the display is set up when the     *)
(* device boots (personality_io_init()), labelled when the measurement     *)
(* starts, and shows what display_count_stats() makes of the pulses        *)
(* (GeigerStats).  Only the main program uses it, so that what one step of *)
(* it draws is drawn at once.                                              *)
(***************************************************************************)
EXTENDS GeigerStats, Lcd

VARIABLES
  lcd,   \* the controller of the display
  booted \* transfers of lcd_init() made

displayVars == <<vars, lcd, booted>>

(* What is left of an earlier evaluation, or of the time before a reset.   *)
Stale == -1

-----------------------------------------------------------------------------
(* Texts in the display's code; custom characters have the codes 0 to 5.   *)
Code(character) ==
  CASE character = " " -> 32
    [] character = "." -> 46
    [] character = "other" -> 58
    [] OTHER -> 48 + (CHOOSE d \in 0 .. 9 : Character(d) = character)

Ascii(text) == [k \in DOMAIN text |-> Code(text[k])]

dose_str == <<117, 83, 118, 47, 104>>
cpm_str  == <<67, 80, 77>>

CHAR_UP   == 4
CHAR_DOWN == 5

InitTransfers == lcd_init(LCD_DISP_ON)

DisplayInit ==
  /\ Init
  /\ lcd \in Controllers(Stale) /\ booted = 0

Boot ==
  /\ booted < Len(InitTransfers)
  /\ lcd' = Toggle(lcd, InitTransfers[booted + 1])
  /\ booted' = booted + 1 /\ UNCHANGED vars

(* What was drawn is looked at when it is drawn; afterwards it is only     *)
(* what was there before, and where the last byte went.                    *)
Label == (6 .. 10) \cup (72 .. 74)

Aged(display) ==
  [display EXCEPT !.address = 0,
                  !.ddram = [cell \in Cell |-> IF cell \in Label THEN @[cell] ELSE Stale]]

(* The rest of personality_io_init(), and the labels that                  *)
(* personality_start_measurement_sram() draws.                             *)
Labelled(display) ==
  Draw(Draw(lcd_clrscr(set_font(display)), 6, 0, dose_str), 8, 1, cpm_str)

Start ==
  /\ booted = Len(InitTransfers)
  /\ lcd' = Aged(Labelled(lcd))
  /\ booted' = booted + 1 /\ UNCHANGED vars

Measuring == booted > Len(InitTransfers) /\ UNCHANGED booted

(* avrg_len() marks a change of the range by an arrow.                     *)
CopyAndDraw ==
  /\ Measuring /\ Copy
  /\ lcd' = IF state_range' = state_range THEN lcd
            ELSE Draw(lcd, 12, 1, <<IF state_range' = "high" THEN CHAR_UP ELSE CHAR_DOWN>>)

DrawChange(detected, letter) == IF detected THEN Draw(lcd, 13, 1, <<letter>>) ELSE lcd

TestShortAndDraw == Measuring /\ TestShort /\ lcd' = DrawChange(test1, 83)

(* Its four characters take turns; one stands for them.                    *)
get_indicator == 0

(* The numbers of an evaluation, and the indicator.                        *)
DrawNumbers(display, numbers) ==
  Draw(Draw(Draw(Draw(display, 0, 0, Ascii(numbers[1])), 0, 1, Ascii(numbers[2])),
            13, 0, Ascii(numbers[3])), 15, 1, <<get_indicator>>)

Drawn(numbers) == DrawNumbers(DrawChange(test2, 76), numbers)

TestHalvesAndDraw ==
  /\ Measuring /\ TestHalves
  /\ \E numbers \in {Numbers(estimator, num_proceed)} : lcd' = Aged(Drawn(numbers))

Undrawn ==
  /\ Measuring /\ UNCHANGED lcd
  /\ \/ Display \/ ReadLow \/ ReadHigh \/ Estimate \/ Over
     \/ Pulse \/ GateInterrupt \/ \E accu_counts \in Counts : Second(accu_counts)

DisplayNext ==
  \/ Boot \/ Start
  \/ CopyAndDraw \/ TestShortAndDraw \/ TestHalvesAndDraw \/ Undrawn

DisplaySpec == DisplayInit /\ [][DisplayNext]_displayVars

(* The main program runs, timer0 counts: as in GeigerStats.                *)
DisplayFairSpec == DisplaySpec /\ WF_vars(display_count_stats) /\ WF_vars(GateInterrupt)

-----------------------------------------------------------------------------
(***************************************************************************)
(* After lcd_init() the controller and the driver agree on where a byte    *)
(* begins, and the display is as the driver wants it, whatever the         *)
(* controller was in the middle of when the CPU was reset.                 *)
(***************************************************************************)
InStep ==
  /\ lcd.bits = 4 /\ lcd.pending = NoHalf
  /\ lcd.lines = 2 /\ lcd.on /\ lcd.increment /\ lcd.into = "ddram"

(***************************************************************************)
(* After an evaluation the display shows its dose rate, its count rate and *)
(* the seconds they are made of, each in its place with nothing of earlier *)
(* numbers left there, beside the labels; and it tells which test has      *)
(* detected a change.                                                      *)
(***************************************************************************)
Row(display, x, y, n) == [k \in 1 .. n |-> display.ddram[64 * y + x + k - 1]]

Shows(display, numbers) ==
  /\ Row(display, 0, 0, 5) = Ascii(numbers[1])
  /\ Row(display, 6, 0, 5) = dose_str
  /\ Row(display, 13, 0, 3) = Ascii(numbers[3])
  /\ Row(display, 0, 1, 7) = Ascii(numbers[2])
  /\ Row(display, 8, 1, 3) = cpm_str
  /\ Row(display, 15, 1, 1) = <<get_indicator>>
  /\ test1 \/ test2 => display.ddram[77] = (IF test2 THEN 76 ELSE 83)

ScreenShows ==
  /\ booted >= Len(InitTransfers) => InStep
  /\ pc = "halves" =>
       \E numbers \in {Numbers(estimator, num_proceed)} : Shows(Drawn(numbers), numbers)

=============================================================================
