------------------------------ MODULE LcdNumbers ------------------------------
(***************************************************************************)
(* The numbers on the display of the Geiger counter: decimal conversion,   *)
(* dose rate and square root (firmware/freemcan-lcd.c, perso-geiger-lcd.c  *)
(* and perso-geiger-lcd.h).  A text is a sequence of characters.           *)
(***************************************************************************)
EXTENDS Integers, Sequences

-----------------------------------------------------------------------------
(* A digit; one the place cannot hold runs on into the characters that     *)
(* follow "9".                                                             *)
Character(num) ==
  IF num \in 0 .. 9 THEN <<"0", "1", "2", "3", "4", "5", "6", "7", "8", "9">>[num + 1]
  ELSE "other"

(* uint_to_ascii() prints this many digits, pos of them after the point.   *)
Place(digit) == <<1, 10, 100, 1000, 10000, 100000>>[digit + 1]

DigitOf(value, digit, print) ==
  (IF digit = print - 1 THEN value ELSE value % Place(digit + 1)) \div Place(digit)

\* Mutant: zeros before the point are printed.
Shown_Zeros(value, digit, pos, print) == Character(DigitOf(value, digit, print))

(* The character of a digit: a zero nothing but zeros come before is blank,*)
(* unless it stands right before the point or behind it.                   *)
Shown(value, digit, pos, print) ==
  IF digit > pos /\ value < Place(digit) THEN " " ELSE Character(DigitOf(value, digit, print))

uint_to_ascii(value, pos, print) ==
  LET character(digit) == Shown(value, digit, pos, print)
      before == [k \in 1 .. print - pos |-> character(print - k)]
      after  == [k \in 1 .. pos |-> character(pos - k)]
  IN before \o (IF pos > 0 THEN <<".">> ELSE <<>>) \o after

(* Thousandths of a microsievert an hour, for the SI8B tube.               *)
cpm2doserate(count_rate) == (1000 * count_rate) \div 6944

-----------------------------------------------------------------------------
(* c_sqrt32(): the bits of the root from the highest on.  r is known to    *)
(* within mask; the last step takes back the one it may be too much.       *)
Mask(i) ==
  <<32768, 16384, 8192, 4096, 2048, 1024, 512, 256, 128, 64, 32, 16, 8, 4, 2, 1>>[i + 1]

SqrtStep(q, r, mask) == IF q < r * r THEN r - mask ELSE r + mask

c_sqrt32(q) ==
  LET r[i \in 0 .. 15] == IF i = 0 THEN Mask(0) ELSE SqrtStep(q, r[i - 1], Mask(i))
      last == r[15]
  IN IF q < last * last THEN last - 1 ELSE last

=============================================================================
