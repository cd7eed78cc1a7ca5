-------------------------------- MODULE HostLog --------------------------------
(***************************************************************************)
(* A line of the table the host logs: fmlog_value_table()                  *)
(* (hostware/freemcan-log.c) prints an index and up to 32 numbers into a   *)
(* buffer of 80 bytes.  How many there are, and how wide, depends on the   *)
(* largest element; idx is what the line has come to.                      *)
(***************************************************************************)
EXTENDS Integers

VARIABLES
  max,    \* the largest element of the table
  places, \* the width its numbers are printed with
  y,      \* the index of the line's first element
  x,      \* numbers printed
  idx     \* characters printed

vars == <<max, places, y, x, idx>>

(* A frame has 65535 bytes at most.                                        *)
Index == 0 .. 65535

(* The least number that takes so many places.                             *)
Threshold ==
  [p \in 1 .. 10 |->
     CASE p = 1 -> 0 [] p = 2 -> 10 [] p = 3 -> 100 [] p = 4 -> 1000 [] p = 5 -> 10000
       [] p = 6 -> 100000 [] p = 7 -> 1000000 [] p = 8 -> 10000000
       [] p = 9 -> 100000000 [] p = 10 -> 1000000000]

Places(value, p) == value >= Threshold[p] /\ (p = 10 \/ value < Threshold[p + 1])

perline(p) == CASE p = 1 -> 32 [] p \in 2 .. 3 -> 16 [] p \in 4 .. 8 -> 8 [] p \in 9 .. 10 -> 4

(* What "%d" makes of an element, which has 32 bits; from 2^31 on it is    *)
(* taken for negative, and has ten digits at most and a sign.              *)
Printed(value, length) ==
  \/ value < 2147483648 /\ \E p \in 1 .. 10 : Places(value, p) /\ length = p
  \/ value >= 2147483648 /\ length \in 2 .. 11

Init ==
  /\ max \in Nat /\ places \in 1 .. 10 /\ Places(max, places)
  /\ y \in Index /\ x = 0
  /\ idx = (IF y < 10000 THEN 5 ELSE 6)

(* A number, a blank in front of it, and another one every eight numbers.  *)
PrintNumber ==
  /\ x < perline(places)
  /\ \E value \in 0 .. max, length \in 1 .. 11 :
       /\ Printed(value, length)
       /\ idx' = idx + (IF x % 8 = 0 THEN 1 ELSE 0)
                     + 1 + (IF length < places THEN places ELSE length)
  /\ x' = x + 1 /\ UNCHANGED <<max, places, y>>

Spec == Init /\ [][PrintNumber]_vars

=============================================================================
