---------------------------------- MODULE Lcd ----------------------------------
(***************************************************************************)
(* The display of the Geiger counter: the driver (firmware/lcd.c), which   *)
(* sends bytes as two halves over four lines, and the controller behind    *)
(* them, an HD44780, as far as the driver relies on it.  A transfer is     *)
(* what the register select and data lines hold when the enable line is    *)
(* toggled.  Delays and the busy flag are left out.                        *)
(***************************************************************************)
EXTENDS Integers, Sequences

-----------------------------------------------------------------------------
(* The controller shows sixteen of the forty addresses of each line.       *)
Cell == (0 .. 15) \cup (64 .. 79)
Blank == 32

After(address) == CASE address = 39 -> 64 [] address = 103 -> 0 [] OTHER -> address + 1

NoHalf == <<>>

(* What it may be left as by a reset of the CPU, which may strike between  *)
(* the halves of a byte, or be when the power comes on.                    *)
HalfByte == {0, 1} \X (0 .. 15)

Controllers(stale) ==
  {lcd \in [bits : {4, 8}, pending : {NoHalf} \cup HalfByte, lines : {1, 2}, on : BOOLEAN,
            into : {"ddram", "cgram"}, increment : {TRUE}, address : {0},
            ddram : {[cell \in Cell |-> stale]}] :
     lcd.bits = 8 => lcd.pending = NoHalf}

Store(lcd, byte) ==
  [lcd EXCEPT
     !.ddram = IF lcd.into = "ddram" /\ lcd.address \in Cell
               THEN [lcd.ddram EXCEPT ![lcd.address] = byte] ELSE lcd.ddram,
     !.address = IF lcd.increment THEN After(@) ELSE @ - 1]

(* An instruction is told by its highest bit.                              *)
Instruct(lcd, byte) ==
  CASE byte >= 128       -> [lcd EXCEPT !.into = "ddram", !.address = byte - 128]
    [] byte \in 64 .. 127 -> [lcd EXCEPT !.into = "cgram", !.address = byte - 64]
    [] byte \in 32 .. 63  -> [lcd EXCEPT !.bits = IF byte >= 48 THEN 8 ELSE 4,
                                         !.lines = IF byte % 16 >= 8 THEN 2 ELSE 1]
    [] byte \in 8 .. 15   -> [lcd EXCEPT !.on = (byte >= 12)]
    [] byte \in 4 .. 7    -> [lcd EXCEPT !.increment = (byte >= 6)]
    [] byte \in 2 .. 3    -> [lcd EXCEPT !.into = "ddram", !.address = 0]
    [] byte = 1 -> [lcd EXCEPT !.into = "ddram", !.address = 0, !.increment = TRUE,
                               !.ddram = [cell \in Cell |-> Blank]]
    [] OTHER -> lcd

Take(lcd, rs, byte) == IF rs = 1 THEN Store(lcd, byte) ELSE Instruct(lcd, byte)

(* The lower four of eight data lines are not connected.                   *)
Toggle(lcd, transfer) ==
  IF lcd.bits = 8 THEN Take(lcd, transfer[1], 16 * transfer[2])
  ELSE IF lcd.pending = NoHalf THEN [lcd EXCEPT !.pending = transfer]
  ELSE Take([lcd EXCEPT !.pending = NoHalf], lcd.pending[1], 16 * lcd.pending[2] + transfer[2])

-----------------------------------------------------------------------------
\* Mutant: the lower half is sent first.
lcd_write_LowFirst(data, rs) == <<<<rs, data % 16>>, <<rs, data \div 16>>>>

(* The high half is sent first.                                            *)
lcd_write(data, rs) == <<<<rs, data \div 16>>, <<rs, data % 16>>>>

lcd_command(cmd) == lcd_write(cmd, 0)

LCD_DISP_ON == 12

(* Three times the function is set to eight bits, whatever the controller  *)
(* takes the transfers for, then to four; from then on bytes are sent: two *)
(* lines, display off, clear, incrementing addresses.                      *)
lcd_init(dispAttr) ==
  <<<<0, 3>>, <<0, 3>>, <<0, 3>>, <<0, 2>>>>
    \o lcd_command(40) \o lcd_command(8) \o lcd_command(1) \o lcd_command(6)
    \o lcd_command(dispAttr)

-----------------------------------------------------------------------------
(***************************************************************************)
(* Once both are in step every byte arrives: the functions the firmware    *)
(* draws with, as what becomes of the display.                             *)
(***************************************************************************)
LCD_START_LINE1 == 0
LCD_START_LINE2 == 64

\* Mutant: the second line is taken to follow the first.
lcd_gotoxy_Behind(display, x, y) == Instruct(display, 128 + x + 16 * y)

lcd_gotoxy(display, x, y) ==
  Instruct(display, 128 + x + (IF y = 0 THEN LCD_START_LINE1 ELSE LCD_START_LINE2))

lcd_clrscr(display) == Instruct(display, 1)

(* lcd_puts(), and lcd_putc() of its characters: no line feed among them,  *)
(* no line is wrapped and none left.                                       *)
lcd_puts(display, text) ==
  LET At(cell) == cell - display.address + 1 IN
  [display EXCEPT
     !.address = @ + Len(text),
     !.ddram = [cell \in Cell |->
                  IF display.into = "ddram" /\ At(cell) \in DOMAIN text THEN text[At(cell)]
                  ELSE display.ddram[cell]]]

(* The set of one element is there for TLC to evaluate each display once.  *)
Draw(display, x, y, text) ==
  CHOOSE drawn \in {lcd_puts(at[1], at[2]) : at \in {<<lcd_gotoxy(display, x, y), text>>}} : TRUE

(* The characters of its own, whose looks are left out: eight bytes each.  *)
NUM_CHAR == 6

set_font(display) ==
  lcd_gotoxy([display EXCEPT !.into = "cgram", !.address = 8 * NUM_CHAR], 0, 0)

=============================================================================
