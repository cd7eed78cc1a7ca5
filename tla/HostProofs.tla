------------------------------ MODULE HostProofs ------------------------------
(***************************************************************************)
(* The host's program at work with a device, the lines it logs, and the    *)
(* emulator that may take the place of the device.                         *)
(*                                                                         *)
(* Proved for every set of personalities, durations and keys, and any      *)
(* number of mishaps: the program waits for answers under way only, gives  *)
(* nothing back twice and leaves the terminal as it was, a measure command *)
(* fits the device, and a table before the personality info is that of a   *)
(* measurement that ended just then, unless frames were lost.              *)
(***************************************************************************)
EXTENDS HostSession, HostLog, Emulator, FiniteSetTheorems, SequenceTheorems, TLAPS

-----------------------------------------------------------------------------
(***************************************************************************)
(* The inductive invariant.  First the ranges of what is on its way, and   *)
(* of what the program knows of the device: its personality, or nothing.   *)
(***************************************************************************)
Words ==
  Device!Mode \cup {"personality", "PARAMS_TO_EEPROM", "eeprom", "invalid EEPROM data",
    "intermediate", "resend", "done", "aborted", "invalid state transition", "checksum fail",
    "unsupported timer value"}

SentFrames == {"info", "state", "text", "table", "params"} \X Words
Packets    == [frame : SentFrames, total_duration : Nat, run : Nat]
Commands   == [cmd : {"a", "r", "s", "i", "f", "E", "m", "e"}, params : Seq(Nat)]

Ranges ==
  /\ waiting_for \in Nat /\ lost \in Nat /\ skip_samples \in Nat
  /\ duration_index \in DOMAIN Durations /\ duration \in Nat /\ run \in Nat
  /\ up \in Seq(Packets) /\ down \in Seq(Commands)
  /\ personality \in Personalities /\ personality_info \in {NoInfo, personality}
  /\ mode \in Device!Mode

Place ==
  /\ pc = "packet" => todo \in 1 .. Len(up)
  /\ pc \in {"start", "open"} => down = <<>>

(* The references to the packet parser, and the terminal's mode, where the *)
(* program is.  tui_fini() runs once: at the end of main(), where no key   *)
(* is looked for, or else in exit(), called at the end of the terminal.    *)
References ==
  /\ pc = "start" => tty = "cooked" /\ packet_parser_refs = 0 /\ ~tui_fini_run
  /\ pc = "stdin" => stdin_ready
  /\ pc = "cleanup" => ~stdin_ready
  /\ pc = "fini" => packet_parser_refs = 1 /\ ~tui_fini_run /\ ~stdin_ready
  /\ pc = "atexit" =>
       IF tui_fini_run THEN tty = "cooked" /\ packet_parser_refs = 0 /\ ~stdin_ready
       ELSE packet_parser_refs = 2 /\ stdin_ready
  /\ pc \notin {"start", "fini", "atexit", "exited", "aborted"} =>
       packet_parser_refs = 2 /\ ~tui_fini_run
  /\ NothingReleasedTwice

(* Until the personality info is on its way, the command that asks for it  *)
(* is the first of all, and a device that had finished does not come up    *)
(* again.  The tables in front of it are those of measurements that ended  *)
(* by themselves meanwhile.                                                *)
Is(packet, kind) == packet.frame[1] = kind

Uninformed == lost = 0 /\ personality_info = NoInfo

NoInfoUpTo(i) == \A j \in 1 .. i : ~Is(up[j], "info")

Awake == mode \in {"READY", "MEASURING"}

Asking ==
  Uninformed /\ NoInfoUpTo(Len(up)) =>
    /\ IF down = <<>> THEN pc \in {"start", "open", "aborted"} ELSE Head(down).cmd = "f"
    /\ Awake => begun # "DONE"

EarlyTables ==
  Uninformed =>
    \A i \in 1 .. Len(up) : Is(up[i], "table") /\ NoInfoUpTo(i) =>
      begun # "DONE" /\ up[i].frame[2] = "done"

SessionInv ==
  /\ Ranges /\ Place /\ References /\ WaitsForWhatComes /\ ParametersFit
  /\ Asking /\ EarlyTables

-----------------------------------------------------------------------------
(* Counting packets.                                                       *)
LEMMA CountedIsFinite ==
  ASSUME NEW packets \in Seq(Packets)
  PROVE  /\ CountedIn(packets) \subseteq 1 .. Len(packets)
         /\ IsFiniteSet(CountedIn(packets)) /\ Cardinality(CountedIn(packets)) \in Nat
<1>1. CountedIn(packets) \in SUBSET (1 .. Len(packets)) /\ Len(packets) \in Nat
  BY LenProperties DEF CountedIn
<1>2. IsFiniteSet(1 .. Len(packets))
  BY <1>1, FS_Interval
<1>. QED
  BY <1>1, <1>2, FS_Subset, FS_CardinalityType

(* Packets added at the end.                                               *)
LEMMA CountedConcat ==
  ASSUME NEW packets \in Seq(Packets), NEW new \in Seq(Packets)
  PROVE  LET old == Cardinality(CountedIn(packets))
             all == Cardinality(CountedIn(packets \o new))
         IN  /\ old \in Nat /\ all \in Nat /\ old <= all
             /\ (\E k \in 1 .. Len(new) : Counted(new[k])) => old + 1 <= all
<1>1. /\ packets \o new \in Seq(Packets) /\ Len(packets) \in Nat /\ Len(new) \in Nat
      /\ Len(packets \o new) = Len(packets) + Len(new)
      /\ \A k \in 1 .. Len(packets) + Len(new) :
           (packets \o new)[k] = IF k <= Len(packets) THEN packets[k]
                                 ELSE new[k - Len(packets)]
  BY ConcatProperties, LenProperties
<1>2. CountedIn(packets) \subseteq CountedIn(packets \o new)
  BY <1>1, LenProperties DEF CountedIn
<1>3. /\ IsFiniteSet(CountedIn(packets)) /\ Cardinality(CountedIn(packets)) \in Nat
      /\ IsFiniteSet(CountedIn(packets \o new)) /\ Cardinality(CountedIn(packets \o new)) \in Nat
  BY <1>1, CountedIsFinite
<1>4. Cardinality(CountedIn(packets)) <= Cardinality(CountedIn(packets \o new))
  BY <1>2, <1>3, FS_Subset
<1>5. ASSUME NEW k \in 1 .. Len(new), Counted(new[k])
      PROVE  Cardinality(CountedIn(packets)) + 1 <= Cardinality(CountedIn(packets \o new))
  <2>1. /\ Len(packets) + k \in 1 .. Len(packets \o new)
        /\ Len(packets) + k \notin 1 .. Len(packets)
        /\ (packets \o new)[Len(packets) + k] = new[k]
    BY <1>1
  <2>2. Len(packets) + k \in CountedIn(packets \o new)
    BY <1>1, <1>5, <2>1, LenProperties DEF CountedIn
  <2>3. Len(packets) + k \notin CountedIn(packets)
    BY <2>1, CountedIsFinite
  <2>4. Cardinality(CountedIn(packets) \cup {Len(packets) + k})
          = Cardinality(CountedIn(packets)) + 1
    BY <1>3, <2>3, FS_AddElement
  <2>5. CountedIn(packets) \cup {Len(packets) + k} \in SUBSET CountedIn(packets \o new)
    BY <1>2, <2>2
  <2>. QED
    BY <1>3, <2>4, <2>5, FS_Subset
<1>. QED
  BY <1>3, <1>4, <1>5

(* The first packet taken.                                                 *)
LEMMA CountedTail ==
  ASSUME NEW packets \in Seq(Packets), packets # <<>>
  PROVE  LET old       == Cardinality(CountedIn(packets))
             remaining == Cardinality(CountedIn(Tail(packets)))
         IN  /\ old \in Nat /\ remaining \in Nat
             /\ old <= remaining + (IF Counted(Head(packets)) THEN 1 ELSE 0)
<1>. DEFINE Old  == CountedIn(packets)
            Rest == CountedIn(Tail(packets))
<1>1. /\ Tail(packets) \in Seq(Packets) /\ Len(packets) \in Nat \ {0}
      /\ Head(packets) = packets[1] /\ Len(Tail(packets)) = Len(packets) - 1
      /\ \A k \in 1 .. Len(packets) - 1 : Tail(packets)[k] = packets[k + 1]
  BY HeadTailProperties, EmptySeq
<1>2. /\ IsFiniteSet(Old) /\ Cardinality(Old) \in Nat /\ Old \subseteq 1 .. Len(packets)
      /\ IsFiniteSet(Rest) /\ Cardinality(Rest) \in Nat
  BY <1>1, CountedIsFinite
<1>3. 1 \in Old <=> Counted(Head(packets))
  BY <1>1, LenProperties DEF CountedIn
<1>4. \A i \in Old \ {1} : i - 1 \in Rest
  <2>. SUFFICES ASSUME NEW i \in Old \ {1} PROVE i - 1 \in Rest
    OBVIOUS
  <2>1. i \in 1 .. Len(packets) /\ Counted(packets[i])
    BY <1>2 DEF CountedIn
  <2>2. i - 1 \in 1 .. Len(packets) - 1 /\ (i - 1) + 1 = i
    BY <1>1, <2>1
  <2>3. Tail(packets)[i - 1] = packets[i] /\ i - 1 \in DOMAIN Tail(packets)
    BY <1>1, <2>2, LenProperties
  <2>. QED
    BY <2>1, <2>3 DEF CountedIn
<1>5. [i \in Old \ {1} |-> i - 1] \in Injection(Old \ {1}, Rest)
  <2>1. \A i, j \in Old \ {1} : i - 1 = j - 1 => i = j
    BY <1>1, <1>2
  <2>. QED
    BY <1>4, <2>1 DEF Injection, IsInjective
<1>6. Cardinality(Old \ {1}) <= Cardinality(Rest)
  BY <1>2, <1>5, FS_Injection
<1>7. Cardinality(Old \ {1}) = IF 1 \in Old THEN Cardinality(Old) - 1 ELSE Cardinality(Old)
  BY <1>2, FS_RemoveElement
<1>. QED
  BY <1>2, <1>3, <1>6, <1>7

-----------------------------------------------------------------------------
(***************************************************************************)
(* What a step of the device or of the line does: packets arrive, and      *)
(* nothing is answered that was not asked for.                             *)
(***************************************************************************)
Arrives(new) ==
  /\ new \in Seq(Packets) /\ up' = up \o new
  /\ lost' \in Nat /\ lost' >= lost

(* All that was said arrives, or something is lost.                        *)
Tells(new) ==
  /\ \A k \in 1 .. Len(new) : \E i \in 1 .. Len(said') : new[k].frame = said'[i]
  /\ lost' = lost => /\ Len(new) = Len(said')
                     /\ \A k \in 1 .. Len(said') : new[k].frame = said'[k]

LEMMA SentTells ==
  ASSUME Ranges, Sent, said' \in Seq(SentFrames), Len(said') <= 3
  PROVE  \E new : Arrives(new) /\ Tells(new)
<1>0. Len(said') \in Nat /\ DOMAIN said' = 1 .. Len(said') /\ lost \in Nat
  BY LenProperties DEF Ranges
<1>1. PICK n \in 0 .. Len(said') : \E kept \in [1 .. n -> DOMAIN said'] :
        /\ \A i, j \in 1 .. n : i < j => kept[i] < kept[j]
        /\ lost' = lost + (Len(said') - n)
        /\ up' = up \o [k \in 1 .. n |-> Packet(said'[kept[k]], duration, run)]
  BY Zenon DEF Sent
<1>2. PICK kept \in [1 .. n -> 1 .. Len(said')] :
        /\ \A i, j \in 1 .. n : i < j => kept[i] < kept[j]
        /\ lost' = lost + (Len(said') - n)
        /\ up' = up \o [k \in 1 .. n |-> Packet(said'[kept[k]], duration, run)]
  BY <1>0, <1>1, Zenon
<1>. DEFINE new == [k \in 1 .. n |-> Packet(said'[kept[k]], duration, run)]
<1>3. \A k \in 1 .. n : kept[k] \in 1 .. Len(said') /\ said'[kept[k]] \in SentFrames
  BY <1>2, ElementOfSeq
<1>4. \A k \in 1 .. n : new[k].frame = said'[kept[k]] /\ new[k] \in Packets
  BY <1>3 DEF Packet, Packets, Ranges
<1>5. n \in Nat /\ new \in Seq(Packets) /\ Len(new) = n
  <2>1. n \in Nat
    BY <1>0
  <2>2. \A f \in [1 .. n -> Packets] : f \in Seq(Packets) /\ Len(f) = n
    BY <2>1
  <2>3. new \in [1 .. n -> Packets]
    BY <1>4
  <2>. QED
    BY <2>1, <2>2, <2>3, Zenon
<1>6. lost' \in Nat /\ lost' >= lost /\ (lost' = lost => n = Len(said'))
  <2>1. \A a, b, c \in Nat : b <= a =>
          c + (a - b) \in Nat /\ c + (a - b) >= c /\ (c + (a - b) = c => b = a)
    OBVIOUS
  <2>2. n \in Nat /\ n <= Len(said')
    BY <1>0
  <2>. QED
    BY <1>0, <1>2, <2>1, <2>2, Zenon
<1>7. ASSUME n = Len(said')
      PROVE  \A k \in 1 .. n : kept[k] = k
  <2>1. n \in {0, 1, 2, 3}
    BY <1>0, <1>7
  <2>2. CASE n = 0
    BY <2>2
  <2>3. CASE n = 1
    BY <1>2, <1>7, <2>3
  <2>4. CASE n = 2
    <3>1. kept[1] \in 1 .. 2 /\ kept[2] \in 1 .. 2 /\ kept[1] < kept[2]
      BY <1>2, <1>7, <2>4
    <3>. QED
      BY <3>1, <2>4
  <2>5. CASE n = 3
    <3>1. /\ kept[1] \in 1 .. 3 /\ kept[2] \in 1 .. 3 /\ kept[3] \in 1 .. 3
          /\ kept[1] < kept[2] /\ kept[2] < kept[3]
      BY <1>2, <1>7, <2>5
    <3>. QED
      BY <3>1, <2>5
  <2>. QED
    BY <2>1, <2>2, <2>3, <2>4, <2>5
<1>8. Arrives(new)
  BY <1>2, <1>5, <1>6 DEF Arrives
<1>9. Tells(new)
  BY <1>3, <1>4, <1>5, <1>6, <1>7 DEF Tells
<1>. QED
  BY <1>8, <1>9

Kind(frame) == frame[1]

Counts(frame) == Kind(frame) \in {"state", "text", "table"}

(* A command is answered, unless something is lost; while the first one    *)
(* asks for the personality info, only the end of a measurement is told.   *)
DeviceDoes(new) ==
  /\ Arrives(new)
  /\ \/ UNCHANGED down
     \/ /\ down # <<>> /\ down' = Tail(down)
        /\ lost' > lost \/ \E k \in 1 .. Len(new) : Counted(new[k])
  /\ lost' = 0 /\ down # <<>> /\ Head(down).cmd = "f" =>
       /\ \A k \in 1 .. Len(new) :
            Is(new[k], "table") => mode = "MEASURING" /\ new[k].frame[2] = "done"
       /\ (\A k \in 1 .. Len(new) : ~Is(new[k], "info")) =>
            UNCHANGED down /\ (Awake' => Awake)
  /\ duration' \in Nat /\ run' \in Nat /\ mode' \in Device!Mode
  /\ HostUnchanged /\ UNCHANGED <<personality, begun>>

LEMMA SentDoes ==
  ASSUME Ranges, Sent, said' \in Seq(SentFrames), Len(said') <= 3,
         duration' \in Nat, run' \in Nat, mode' \in Device!Mode,
         HostUnchanged, UNCHANGED <<personality, begun>>,
         \/ UNCHANGED down
         \/ down # <<>> /\ down' = Tail(down) /\ \E i \in 1 .. Len(said') : Counts(said'[i]),
         down # <<>> /\ Head(down).cmd = "f" =>
           /\ \A i \in 1 .. Len(said') :
                Kind(said'[i]) = "table" => mode = "MEASURING" /\ said'[i][2] = "done"
           /\ (\A i \in 1 .. Len(said') : Kind(said'[i]) # "info") =>
                UNCHANGED down /\ (Awake' => Awake)
  PROVE  \E new : DeviceDoes(new)
<1>1. PICK new : Arrives(new) /\ Tells(new)
  BY SentTells
<1>2. /\ \A k \in 1 .. Len(new) : \E i \in 1 .. Len(said') : new[k].frame = said'[i]
      /\ lost' = lost => /\ Len(new) = Len(said')
                         /\ \A k \in 1 .. Len(said') : new[k].frame = said'[k]
  BY <1>1 DEF Tells
<1>3. (lost' = lost \/ lost' > lost) /\ (lost' = 0 => lost' = lost)
  <2>1. \A a, b \in Nat : a >= b => (a = b \/ a > b) /\ (a = 0 => a = b)
    OBVIOUS
  <2>. QED
    BY <1>1, <2>1, Zenon DEF Arrives, Ranges
<1>4. \/ UNCHANGED down
      \/ /\ down # <<>> /\ down' = Tail(down)
         /\ lost' > lost \/ \E k \in 1 .. Len(new) : Counted(new[k])
  BY <1>2, <1>3, Zenon DEF Counted, Counts, Kind
<1>5. lost' = 0 /\ down # <<>> /\ Head(down).cmd = "f" =>
        /\ \A k \in 1 .. Len(new) :
             Is(new[k], "table") => mode = "MEASURING" /\ new[k].frame[2] = "done"
        /\ (\A k \in 1 .. Len(new) : ~Is(new[k], "info")) =>
             UNCHANGED down /\ (Awake' => Awake)
  BY <1>2, <1>3, Zenon DEF Is, Kind
<1>. QED
  BY <1>1, <1>4, <1>5 DEF DeviceDoes

(* What the device says.                                                   *)
LEMMA FramesAreFrames ==
  /\ \A name \in Device!Mode : Device!State(name) \in SentFrames
  /\ \A name \in Words : <<"table", name>> \in SentFrames /\ <<"text", name>> \in SentFrames
                          /\ <<"params", name>> \in SentFrames
  /\ Device!Info \in SentFrames /\ Device!State("PARAMS_TO_EEPROM") \in SentFrames
  /\ \A a \in SentFrames : <<a>> \in Seq(SentFrames) /\ Len(<<a>>) = 1
  /\ \A a, b \in SentFrames : <<a, b>> \in Seq(SentFrames) /\ Len(<<a, b>>) = 2
  /\ \A a, b, c \in SentFrames : <<a, b, c>> \in Seq(SentFrames) /\ Len(<<a, b, c>>) = 3
<1>1. /\ \A name \in Device!Mode : Device!State(name) \in SentFrames
      /\ \A name \in Words : <<"table", name>> \in SentFrames /\ <<"text", name>> \in SentFrames
                              /\ <<"params", name>> \in SentFrames
      /\ Device!Info \in SentFrames /\ Device!State("PARAMS_TO_EEPROM") \in SentFrames
  <2>1. \A kind \in {"info", "state", "text", "table", "params"}, name \in Words :
          <<kind, name>> \in SentFrames
    BY DEF SentFrames
  <2>2. Device!Mode \subseteq Words
    BY DEF Words
  <2>3. "personality" \in Words /\ "PARAMS_TO_EEPROM" \in Words
    BY DEF Words
  <2>4. /\ \A name \in Words : Device!State(name) \in SentFrames
        /\ Device!Info \in SentFrames
    BY <2>1, <2>3 DEF Device!State, Device!Info
  <2>5. \A name \in Words : <<"table", name>> \in SentFrames /\ <<"text", name>> \in SentFrames
                              /\ <<"params", name>> \in SentFrames
    BY <2>1
  <2>. QED
    BY <2>2, <2>3, <2>4, <2>5, Zenon
<1>2. /\ \A a \in SentFrames : <<a>> \in Seq(SentFrames) /\ Len(<<a>>) = 1
      /\ \A a, b \in SentFrames : <<a, b>> \in Seq(SentFrames) /\ Len(<<a, b>>) = 2
      /\ \A a, b, c \in SentFrames : <<a, b, c>> \in Seq(SentFrames) /\ Len(<<a, b, c>>) = 3
  OBVIOUS
<1>. QED
  BY <1>1, <1>2

(* Every answer ends with the state, and "f" gets the personality info.    *)
LEMMA AnswersAre ==
  ASSUME mode \in Device!Up, NEW cmd, NEW answer \in Device!Answers(cmd)
  PROVE  /\ answer \in Seq(SentFrames) /\ Len(answer) \in 1 .. 3
         /\ \E i \in 1 .. Len(answer) : Counts(answer[i])
         /\ cmd = "f" => answer = <<Device!Info, Device!State(mode)>>
<1>. DEFINE report == Device!State(mode)
<1>0. report \in SentFrames /\ Counts(report) /\ mode \in Device!Mode
  BY FramesAreFrames DEF Device!Mode, Counts, Kind, Device!State
<1>1. /\ answer = <<report>> \/ \E frame \in SentFrames : answer = <<frame, report>>
      /\ cmd = "f" => answer = <<Device!Info, report>>
  <2>1. CASE cmd = "f"
    BY <2>1, FramesAreFrames, Zenon DEF Device!Answers
  <2>2. CASE cmd # "f"
    <3>1. "intermediate" \in Words /\ "resend" \in Words /\ "eeprom" \in Words
          /\ "invalid EEPROM data" \in Words
      BY DEF Words
    <3>2. CASE cmd = "s"
      BY <2>2, <3>2, Zenon DEF Device!Answers
    <3>3. CASE mode = "READY" /\ cmd # "s"
      BY <2>2, <3>1, <3>3, FramesAreFrames DEF Device!Answers
    <3>4. CASE mode = "MEASURING" /\ cmd # "s"
      BY <2>2, <3>1, <3>4, FramesAreFrames DEF Device!Answers
    <3>5. CASE mode = "DONE" /\ cmd # "s"
      BY <2>2, <3>1, <3>5, FramesAreFrames DEF Device!Answers
    <3>. QED
      BY <3>2, <3>3, <3>4, <3>5 DEF Device!Up
  <2>. QED
    BY <2>1, <2>2
<1>. HIDE DEF report
<1>2. \A a, b \in SentFrames : Counts(b) =>
        /\ <<b>> \in Seq(SentFrames) /\ Len(<<b>>) \in 1 .. 3
        /\ \E i \in 1 .. Len(<<b>>) : Counts(<<b>>[i])
        /\ <<a, b>> \in Seq(SentFrames) /\ Len(<<a, b>>) \in 1 .. 3
        /\ \E i \in 1 .. Len(<<a, b>>) : Counts(<<a, b>>[i])
  <2>. SUFFICES ASSUME NEW a \in SentFrames, NEW b \in SentFrames, Counts(b)
                PROVE  /\ <<b>> \in Seq(SentFrames) /\ Len(<<b>>) \in 1 .. 3
                       /\ \E i \in 1 .. Len(<<b>>) : Counts(<<b>>[i])
                       /\ <<a, b>> \in Seq(SentFrames) /\ Len(<<a, b>>) \in 1 .. 3
                       /\ \E i \in 1 .. Len(<<a, b>>) : Counts(<<a, b>>[i])
    OBVIOUS
  <2>1. <<b>>[1] = b /\ 1 \in 1 .. Len(<<b>>) /\ Len(<<b>>) \in 1 .. 3
    OBVIOUS
  <2>2. <<a, b>>[2] = b /\ 2 \in 1 .. Len(<<a, b>>) /\ Len(<<a, b>>) \in 1 .. 3
    OBVIOUS
  <2>. QED
    BY <2>1, <2>2, FramesAreFrames, Zenon
<1>. QED
  BY <1>0, <1>1, <1>2, Zenon DEF report

(* Nothing is said.                                                        *)
LEMMA SilentDoes ==
  ASSUME Ranges, UNCHANGED <<up, duration, run, personality, begun>>, HostUnchanged,
         lost' \in Nat, lost' >= lost, mode' \in Device!Mode,
         Awake' => Awake,
         UNCHANGED down \/ (down # <<>> /\ down' = Tail(down) /\ lost' > lost /\ lost' # 0)
  PROVE  DeviceDoes(<<>>)
<1>1. <<>> \in Seq(Packets) /\ up \o <<>> = up /\ Len(<<>>) = 0
  BY EmptySeq, ConcatEmptySeq DEF Ranges
<1>2. Arrives(<<>>)
  BY <1>1 DEF Arrives
<1>3. \A k : k \notin 1 .. Len(<<>>)
  BY <1>1
<1>. QED
  BY <1>2, <1>3 DEF DeviceDoes, Ranges

LEMMA DeviceSteps ==
  ASSUME Ranges, ParametersFit,
         \/ DeviceAnswers \/ CorruptCommand \/ LoseCommand \/ NotHeard
         \/ DeviceByItself \/ SwitchStart \/ SwitchUseless \/ PowerCut
  PROVE  \E new : DeviceDoes(new)
<1>0. /\ lost \in Nat /\ lost + 1 \in Nat /\ lost + 1 >= lost /\ lost + 1 > lost
      /\ lost + 1 # 0 /\ lost >= lost
  BY DEF Ranges
<1>1. ASSUME NEW frame \in SentFrames
      PROVE  <<frame>> \in Seq(SentFrames) /\ Len(<<frame>>) <= 3 /\ <<frame>>[1] = frame
             /\ \A i \in 1 .. Len(<<frame>>) : i = 1
  OBVIOUS
<1>2. CASE ServeCommand
  <2>1. /\ mode \in Device!Up /\ said' \in Device!Answers(Head(down).cmd) /\ mode' = mode
        /\ down # <<>> /\ down' = Tail(down) /\ Sent /\ HostUnchanged
        /\ UNCHANGED <<personality, duration, run, begun>>
    BY <1>2 DEF ServeCommand, Device!Serve
  <2>2. /\ said' \in Seq(SentFrames) /\ Len(said') \in 1 .. 3
        /\ \E i \in 1 .. Len(said') : Counts(said'[i])
        /\ Head(down).cmd = "f" => said' = <<Device!Info, Device!State(mode)>>
    BY <2>1, AnswersAre
  <2>3. Head(down).cmd = "f" => 1 \in 1 .. Len(said') /\ Kind(said'[1]) = "info"
    BY <2>2 DEF Device!Info, Kind
  <2>4. Head(down).cmd = "f" => \A i \in 1 .. Len(said') : Kind(said'[i]) # "table"
    BY <2>2 DEF Device!Info, Device!State, Kind
  <2>5. Len(said') <= 3
    <3>1. \A n \in 1 .. 3 : n <= 3
      OBVIOUS
    <3>. QED
      BY <2>2, <3>1, Zenon
  <2>6. mode' \in Device!Mode /\ duration' \in Nat /\ run' \in Nat
    BY <2>1 DEF Ranges
  <2>. QED
    BY <2>1, <2>2, <2>3, <2>4, <2>5, <2>6, SentDoes
<1>3. CASE StartMeasurement
  <2>1. /\ said' = <<Device!State("MEASURING")>> /\ mode' = "MEASURING"
        /\ down # <<>> /\ down' = Tail(down) /\ Head(down).cmd = "m" /\ Sent /\ HostUnchanged
        /\ run' = run + 1 /\ UNCHANGED <<personality, begun>>
        /\ duration' = (IF personality.timer_count = 2 THEN Head(down).params[1] ELSE NoDuration)
    BY <1>3 DEF StartMeasurement, Device!Start
  <2>2. Device!State("MEASURING") \in SentFrames /\ Counts(Device!State("MEASURING"))
        /\ mode' \in Device!Mode
    BY <2>1, FramesAreFrames DEF Counts, Kind, Device!State, Device!Mode, Device!Up
  <2>3. duration' \in Nat /\ run' \in Nat
    <3>1. Head(down) = down[1] /\ down[1] \in Commands /\ 1 \in DOMAIN down
      BY <2>1, HeadTailProperties, EmptySeq, LenProperties, ElementOfSeq DEF Ranges
    <3>2. Head(down).params \in Seq(Nat)
      BY <3>1 DEF Commands
    <3>3. ASSUME personality.timer_count = 2
          PROVE  Head(down).params[1] \in Nat
      <4>1. Len(Head(down).params) = 1 + (IF personality.skip_samples = 2 THEN 1 ELSE 0)
        BY <2>1, <3>1, <3>3 DEF ParametersFit
      <4>2. 1 \in 1 .. Len(Head(down).params)
        BY <4>1
      <4>. QED
        BY <3>2, <4>2, ElementOfSeq
    <3>4. run' \in Nat
      BY <2>1 DEF Ranges
    <3>. QED
      BY <2>1, <3>3, <3>4 DEF NoDuration
  <2>4. /\ said' \in Seq(SentFrames) /\ Len(said') <= 3 /\ 1 \in 1 .. Len(said')
        /\ Counts(said'[1])
    BY <2>1, <2>2
  <2>. QED
    BY <2>1, <2>2, <2>3, <2>4, SentDoes
<1>4. CASE AbortMeasurement
  <2>1. /\ said' = <<Device!State("DONE"), <<"table", "aborted">>, Device!State("DONE")>>
        /\ mode' = "DONE"
        /\ down # <<>> /\ down' = Tail(down) /\ Head(down).cmd = "a" /\ Sent /\ HostUnchanged
        /\ UNCHANGED <<personality, duration, run, begun>>
    BY <1>4 DEF AbortMeasurement, Device!Abort
  <2>2. Device!State("DONE") \in SentFrames /\ Counts(Device!State("DONE"))
        /\ mode' \in Device!Mode /\ <<"table", "aborted">> \in SentFrames
    BY <2>1, FramesAreFrames DEF Counts, Kind, Device!State, Device!Mode, Device!Up, Words
  <2>3. /\ said' \in Seq(SentFrames) /\ Len(said') <= 3 /\ 1 \in 1 .. Len(said')
        /\ Counts(said'[1])
    BY <2>1, <2>2
  <2>4. duration' \in Nat /\ run' \in Nat
    BY <2>1 DEF Ranges
  <2>. QED
    BY <2>1, <2>2, <2>3, <2>4, SentDoes
<1>5. CASE ResetDevice
  <2>1. /\ said' = <<Device!State("RESET")>> /\ mode' = "RESET"
        /\ down # <<>> /\ down' = Tail(down) /\ Head(down).cmd = "r" /\ Sent /\ HostUnchanged
        /\ UNCHANGED <<personality, duration, run, begun>>
    BY <1>5 DEF ResetDevice, Device!Reset
  <2>2. Device!State("RESET") \in SentFrames /\ Counts(Device!State("RESET"))
        /\ mode' \in Device!Mode
    BY <2>1, FramesAreFrames DEF Counts, Kind, Device!State, Device!Mode
  <2>3. /\ said' \in Seq(SentFrames) /\ Len(said') <= 3 /\ 1 \in 1 .. Len(said')
        /\ Counts(said'[1])
    BY <2>1, <2>2
  <2>4. duration' \in Nat /\ run' \in Nat
    BY <2>1 DEF Ranges
  <2>. QED
    BY <2>1, <2>2, <2>3, <2>4, SentDoes
<1>6. CASE CorruptCommand
  <2>1. /\ said' = <<<<"text", "checksum fail">>>> /\ mode' = mode
        /\ down # <<>> /\ down' = Tail(down) /\ lost' = lost + 1
        /\ up' = Append(up, Packet(said'[1], duration, run)) /\ HostUnchanged
        /\ UNCHANGED <<personality, duration, run, begun>>
    BY <1>6 DEF CorruptCommand, Device!Serve
  <2>. DEFINE new == <<Packet(<<"text", "checksum fail">>, duration, run)>>
  <2>2. <<"text", "checksum fail">> \in SentFrames
    BY FramesAreFrames DEF Words
  <2>3. Packet(<<"text", "checksum fail">>, duration, run) \in Packets
    BY <2>2 DEF Packet, Packets, Ranges
  <2>4. new \in Seq(Packets) /\ up' = up \o new
    <3>1. \A packet \in Packets : <<packet>> \in Seq(Packets)
      OBVIOUS
    <3>2. said'[1] = <<"text", "checksum fail">>
      BY <2>1
    <3>. QED
      BY <2>1, <2>3, <3>1, <3>2, AppendIsConcat, Zenon DEF Ranges
  <2>5. Arrives(new)
    BY <1>0, <2>1, <2>4 DEF Arrives
  <2>. QED
    BY <1>0, <2>1, <2>5 DEF DeviceDoes, Ranges
<1>7. CASE LoseCommand \/ NotHeard \/ PowerCut
  <2>1. /\ UNCHANGED <<up, duration, run, personality, begun>> /\ HostUnchanged
        /\ mode' = mode \/ mode' = "booting"
        /\ \/ lost' = lost /\ UNCHANGED down
           \/ lost' = lost + 1 /\ down # <<>> /\ down' = Tail(down)
    <3>1. CASE LoseCommand
      BY <3>1 DEF LoseCommand, deviceVars
    <3>2. CASE NotHeard
      BY <3>2 DEF NotHeard, deviceVars
    <3>3. CASE PowerCut
      BY <3>3 DEF PowerCut, Device!Reboot
    <3>. QED
      BY <1>7, <3>1, <3>2, <3>3
  <2>2. mode' \in Device!Mode /\ (Awake' => Awake)
    BY <2>1 DEF Ranges, Device!Mode, Awake
  <2>3. DeviceDoes(<<>>)
    BY <1>0, <2>1, <2>2, SilentDoes
  <2>. QED
    BY <2>3
<1>8. CASE DeviceByItself
  <2>1. /\ Sent /\ HostUnchanged /\ UNCHANGED <<personality, duration, run, begun, down>>
        /\ \/ said' = <<Device!Info, Device!State("READY")>> /\ mode' = "READY"
           \/ said' = <<<<"table", "done">>>> /\ mode = "MEASURING" /\ mode' = "DONE"
           \/ said' = <<<<"text", "invalid state transition">>>> /\ mode' = "RESET"
           \/ said' = <<>> /\ mode' = "booting"
    BY <1>8 DEF DeviceByItself, Device!Announce, Device!Finish, Device!LateFault, Device!Fault,
       Device!Reboot
  <2>2. duration' \in Nat /\ run' \in Nat /\ mode' \in Device!Mode
    BY <2>1 DEF Ranges, Device!Mode, Device!Up
  <2>3. /\ Device!Info \in SentFrames /\ Device!State("READY") \in SentFrames
        /\ <<"table", "done">> \in SentFrames
        /\ <<"text", "invalid state transition">> \in SentFrames
    BY FramesAreFrames DEF Words, Device!Mode, Device!Up
  <2>4. /\ said' \in Seq(SentFrames) /\ Len(said') <= 3
        /\ \A i \in 1 .. Len(said') :
             Kind(said'[i]) = "table" => mode = "MEASURING" /\ said'[i][2] = "done"
    <3>1. CASE said' = <<Device!Info, Device!State("READY")>>
      <4>1. Kind(Device!Info) # "table" /\ Kind(Device!State("READY")) # "table"
        BY DEF Kind, Device!Info, Device!State
      <4>2. /\ Len(said') = 2 /\ said'[1] = Device!Info /\ said'[2] = Device!State("READY")
            /\ \A i \in 1 .. 2 : i = 1 \/ i = 2
        BY <3>1
      <4>3. said' \in Seq(SentFrames) /\ Len(said') <= 3
        <5>1. 2 <= 3
          OBVIOUS
        <5>. QED
          BY <2>3, <3>1, <5>1, FramesAreFrames, Zenon
      <4>. QED
        BY <4>1, <4>2, <4>3, Zenon
    <3>2. CASE said' = <<<<"table", "done">>>> /\ mode = "MEASURING"
      <4>1. said'[1] = <<"table", "done">> /\ said'[1][2] = "done"
        BY <3>2
      <4>. QED
        BY <2>3, <3>2, <4>1, <1>1
    <3>3. CASE said' = <<<<"text", "invalid state transition">>>>
      <4>1. Kind(said'[1]) = "text"
        BY <3>3 DEF Kind
      <4>. QED
        BY <2>3, <3>3, <4>1, <1>1
    <3>4. CASE said' = <<>>
      BY <3>4, EmptySeq
    <3>. QED
      BY <2>1, <3>1, <3>2, <3>3, <3>4
  <2>5. (\A i \in 1 .. Len(said') : Kind(said'[i]) # "info") => (Awake' => Awake)
    <3>1. CASE said' = <<Device!Info, Device!State("READY")>>
      <4>1. Kind(said'[1]) = "info" /\ 1 \in 1 .. Len(said')
        BY <3>1 DEF Kind, Device!Info
      <4>. QED
        BY <4>1
    <3>2. CASE mode' \in {"DONE", "RESET", "booting"}
      BY <3>2 DEF Awake
    <3>. QED
      BY <2>1, <3>1, <3>2
  <2>. QED
    BY <2>1, <2>2, <2>4, <2>5, SentDoes
<1>9. CASE SwitchStart
  <2>1. /\ said' = <<Device!State("MEASURING")>> /\ mode = "READY" /\ mode' = "MEASURING"
        /\ Sent /\ HostUnchanged /\ UNCHANGED <<personality, begun, down>>
        /\ run' = run + 1 /\ (duration' \in EepromTimers \/ duration' = NoDuration)
    BY <1>9, Zenon DEF SwitchStart, Device!Start
  <2>2. /\ Device!State("MEASURING") \in SentFrames /\ Kind(Device!State("MEASURING")) = "state"
        /\ mode' \in Device!Mode /\ Awake
    BY <2>1, FramesAreFrames DEF Kind, Device!State, Device!Mode, Device!Up, Awake
  <2>3. duration' \in Nat /\ run' \in Nat
    <3>1. EepromTimers \subseteq Nat /\ NoDuration \in Nat
      BY SessionAssumption DEF NoDuration
    <3>2. run + 1 \in Nat
      BY DEF Ranges
    <3>. QED
      BY <2>1, <3>1, <3>2, Zenon
  <2>4. /\ said' \in Seq(SentFrames) /\ Len(said') <= 3
        /\ \A i \in 1 .. Len(said') : Kind(said'[i]) = "state"
    BY <1>1, <2>1, <2>2
  <2>. QED
    BY <2>1, <2>2, <2>3, <2>4, SentDoes
<1>10. CASE SwitchUseless
  <2>. DEFINE new == [k \in DOMAIN said' |-> Packet(said'[k], duration, run)]
  <2>1. /\ \/ said' = <<<<"text", "invalid EEPROM data">>, Device!State("READY")>> /\ mode' = mode
           \/ said' = <<<<"text", "unsupported timer value">>>> /\ mode' = "RESET"
        /\ mode = "READY" /\ up' = up \o new /\ HostUnchanged
        /\ UNCHANGED <<personality, duration, run, begun, lost, down>>
    BY <1>10 DEF SwitchUseless, Device!Serve, Device!TimerFault, Device!Fault
  <2>2. /\ <<"text", "invalid EEPROM data">> \in SentFrames
        /\ <<"text", "unsupported timer value">> \in SentFrames
        /\ Device!State("READY") \in SentFrames
        /\ mode' \in Device!Mode /\ Awake
    BY <2>1, FramesAreFrames DEF Words, Device!Mode, Device!Up, Awake
  <2>3. /\ said' \in Seq(SentFrames)
        /\ \A i \in 1 .. Len(said') : Kind(said'[i]) # "table"
    <3>1. Kind(Device!State("READY")) = "state" /\ Kind(<<"text", "invalid EEPROM data">>) = "text"
          /\ Kind(<<"text", "unsupported timer value">>) = "text"
      BY DEF Kind, Device!State
    <3>2. \A a, b \in SentFrames : Kind(a) # "table" /\ Kind(b) # "table" =>
            /\ \A i \in 1 .. Len(<<a, b>>) : Kind(<<a, b>>[i]) # "table"
            /\ \A i \in 1 .. Len(<<a>>) : Kind(<<a>>[i]) # "table"
      OBVIOUS
    <3>3. CASE said' = <<<<"text", "invalid EEPROM data">>, Device!State("READY")>>
      <4>1. /\ Kind(Device!State("READY")) # "table"
            /\ Kind(<<"text", "invalid EEPROM data">>) # "table"
        BY <3>1
      <4>. QED
        BY <2>2, <3>2, <3>3, <4>1, FramesAreFrames, Zenon
    <3>4. CASE said' = <<<<"text", "unsupported timer value">>>>
      <4>1. Kind(<<"text", "unsupported timer value">>) # "table"
        BY <3>1
      <4>. QED
        BY <2>2, <3>2, <3>4, <4>1, FramesAreFrames, Zenon
    <3>. QED
      BY <2>1, <3>3, <3>4, Zenon
  <2>4. \A k \in 1 .. Len(said') : new[k].frame = said'[k] /\ new[k] \in Packets
    BY <2>3, LenProperties, ElementOfSeq DEF Packet, Packets, Ranges
  <2>5. new \in Seq(Packets) /\ Len(new) = Len(said')
    <3>1. Len(said') \in Nat /\ DOMAIN said' = 1 .. Len(said')
      BY <2>3, LenProperties
    <3>2. \A n \in Nat : \A f \in [1 .. n -> Packets] : f \in Seq(Packets) /\ Len(f) = n
      OBVIOUS
    <3>3. new \in [1 .. Len(said') -> Packets]
      BY <2>4, <3>1
    <3>. QED
      BY <3>1, <3>2, <3>3, Zenon
  <2>6. \A k \in 1 .. Len(new) : ~Is(new[k], "table")
    BY <2>3, <2>4, <2>5 DEF Is, Kind
  <2>. HIDE DEF new
  <2>7. Arrives(new)
    BY <1>0, <2>1, <2>5 DEF Arrives
  <2>8. DeviceDoes(new)
    BY <2>1, <2>2, <2>6, <2>7 DEF DeviceDoes, Ranges
  <2>. QED
    BY <2>8
<1>. QED
  BY <1>2, <1>3, <1>4, <1>5, <1>6, <1>7, <1>8, <1>9, <1>10 DEF DeviceAnswers

-----------------------------------------------------------------------------
(* The commands that remain, and one more, fit the device.                 *)
Fits(command) ==
  command.cmd \in {"m", "e"} =>
    Len(command.params) = (IF personality.timer_count = 2 THEN 1 ELSE 0)
                          + (IF personality.skip_samples = 2 THEN 1 ELSE 0)

LEMMA AllFit ==
  ASSUME down \in Seq(Commands), ParametersFit
  PROVE  \A i \in 1 .. Len(down) : Fits(down[i])
BY LenProperties DEF ParametersFit, Fits

LEMMA TakenFits ==
  ASSUME Ranges, ParametersFit, UNCHANGED personality,
         UNCHANGED down \/ (down # <<>> /\ down' = Tail(down))
  PROVE  down' \in Seq(Commands) /\ ParametersFit'
<1>1. CASE UNCHANGED down
  BY <1>1 DEF Ranges, ParametersFit
<1>2. CASE down # <<>> /\ down' = Tail(down)
  <2>1. /\ down' \in Seq(Commands) /\ Len(down) \in Nat /\ Len(down') = Len(down) - 1
        /\ \A i \in 1 .. Len(down') : down'[i] = down[i + 1]
    BY <1>2, HeadTailProperties, LenProperties DEF Ranges
  <2>2. \A i \in 1 .. Len(down') : i + 1 \in 1 .. Len(down)
    BY <2>1
  <2>3. \A i \in 1 .. Len(down') : Fits(down'[i])
    BY <2>1, <2>2, AllFit, Zenon DEF Ranges
  <2>4. DOMAIN down' = 1 .. Len(down')
    BY <2>1, LenProperties
  <2>. QED
    BY <2>1, <2>3, <2>4 DEF Fits, ParametersFit
<1>. QED
  BY <1>1, <1>2

LEMMA DeviceKeeps ==
  ASSUME SessionInv, NEW new, DeviceDoes(new)
  PROVE  SessionInv'
<1>. USE DEF SessionInv
<1>1. /\ pc = "select" /\ pc' = pc /\ tty' = tty
      /\ UNCHANGED <<waiting_for, skip_samples, duration_index, personality, begun>>
      /\ UNCHANGED <<personality_info, infos, packet_parser_refs, tui_fini_run>>
  BY DEF DeviceDoes, HostUnchanged, control, settings, memory
<1>0. stdin_ready' = stdin_ready
  BY DEF DeviceDoes, HostUnchanged, control
<1>2. /\ new \in Seq(Packets) /\ up' = up \o new /\ lost' \in Nat /\ lost' >= lost
      /\ duration' \in Nat /\ run' \in Nat /\ mode' \in Device!Mode
      /\ UNCHANGED down \/ (down # <<>> /\ down' = Tail(down))
  BY DEF DeviceDoes, Arrives
<1>3. up \in Seq(Packets) /\ down \in Seq(Commands) /\ waiting_for \in Nat /\ lost \in Nat
  BY DEF Ranges
<1>4. /\ up' \in Seq(Packets) /\ Len(up) \in Nat /\ Len(new) \in Nat
      /\ Len(up') = Len(up) + Len(new)
      /\ \A i \in 1 .. Len(up) : up'[i] = up[i]
      /\ \A k \in 1 .. Len(new) : up'[Len(up) + k] = new[k]
  <2>1. /\ up' \in Seq(Packets) /\ Len(up) \in Nat /\ Len(new) \in Nat
        /\ Len(up') = Len(up) + Len(new)
        /\ \A i \in 1 .. Len(up) + Len(new) :
             up'[i] = IF i <= Len(up) THEN up[i] ELSE new[i - Len(up)]
    BY <1>2, <1>3, ConcatProperties, LenProperties
  <2>2. \A i \in 1 .. Len(up) : i \in 1 .. Len(up) + Len(new) /\ i <= Len(up)
    BY <2>1
  <2>3. \A k \in 1 .. Len(new) :
          /\ Len(up) + k \in 1 .. Len(up) + Len(new)
          /\ ~(Len(up) + k <= Len(up)) /\ (Len(up) + k) - Len(up) = k
    BY <2>1
  <2>4. \A i \in 1 .. Len(up) : up'[i] = up[i]
    BY <2>1, <2>2, Zenon
  <2>5. ASSUME NEW k \in 1 .. Len(new)
        PROVE  up'[Len(up) + k] = new[k]
    <3>1. up'[Len(up) + k] = new[(Len(up) + k) - Len(up)]
      BY <2>1, <2>3, Zenon
    <3>. QED
      BY <2>3, <3>1
  <2>. QED
    BY <2>1, <2>4, <2>5
<1>5. down' \in Seq(Commands) /\ ParametersFit'
  BY <1>1, <1>2, TakenFits
<1>6. Ranges'
  BY <1>1, <1>2, <1>4, <1>5 DEF Ranges
<1>7. Place' /\ References'
  BY <1>0, <1>1 DEF Place, References, NothingReleasedTwice, Ended
<1>8. WaitsForWhatComes'
  <2>. DEFINE old == Cardinality(CountedIn(up))
              all == Cardinality(CountedIn(up \o new))
  <2>1. /\ old \in Nat /\ all \in Nat /\ old <= all
        /\ (\E k \in 1 .. Len(new) : Counted(new[k])) => old + 1 <= all
    BY <1>2, <1>3, CountedConcat
  <2>2. waiting_for <= Len(down) + old + lost
    BY DEF WaitsForWhatComes
  <2>3. CASE UNCHANGED down
    <3>1. Len(down) \in Nat /\ Len(down') = Len(down)
      BY <1>3, <2>3, LenProperties
    <3>2. \A w, d, o, a, l, n \in Nat : w <= d + o + l /\ o <= a /\ n >= l => w <= d + a + n
      OBVIOUS
    <3>3. waiting_for <= Len(down) + all + lost'
      BY <1>2, <1>3, <2>1, <2>2, <3>1, <3>2, Zenon
    <3>. QED
      BY <1>1, <1>2, <3>1, <3>3, Zenon DEF WaitsForWhatComes
  <2>4. CASE ~UNCHANGED down
    <3>1. /\ down # <<>> /\ down' = Tail(down)
          /\ lost' > lost \/ \E k \in 1 .. Len(new) : Counted(new[k])
      BY <2>4 DEF DeviceDoes
    <3>2. Len(down') \in Nat /\ Len(down) = Len(down') + 1
      <4>1. Len(down) \in Nat \ {0} /\ Len(Tail(down)) = Len(down) - 1
        BY <1>3, <3>1, HeadTailProperties, EmptySeq
      <4>2. \A a, b \in Nat : b # 0 /\ a = b - 1 => b = a + 1
        OBVIOUS
      <4>3. Len(down') \in Nat
        BY <1>5, LenProperties
      <4>. QED
        BY <3>1, <4>1, <4>2, <4>3
    <3>3. \A w, d, o, a, l, n \in Nat :
            w <= (d + 1) + o + l /\ o <= a /\ n >= l /\ (n > l \/ o + 1 <= a) => w <= d + a + n
      OBVIOUS
    <3>4. waiting_for <= Len(down') + all + lost'
      BY <1>2, <1>3, <2>1, <2>2, <3>1, <3>2, <3>3, Zenon
    <3>. QED
      BY <1>1, <1>2, <3>4, Zenon DEF WaitsForWhatComes
  <2>. QED
    BY <2>3, <2>4
<1>9. ASSUME Uninformed', \A i \in 1 .. Len(up) : ~Is(up[i], "info")
      PROVE  /\ Uninformed /\ lost' = 0 /\ down # <<>> /\ Head(down).cmd = "f"
             /\ Awake => begun # "DONE"
  <2>1. lost' = 0 /\ lost = 0 /\ personality_info = NoInfo
    BY <1>1, <1>2, <1>3, <1>9 DEF Uninformed
  <2>. QED
    BY <1>1, <1>9, <2>1 DEF Uninformed, Asking, NoInfoUpTo
<1>10. \A k \in 1 .. Len(new) : \A kind : Is(new[k], kind) <=> Is(up'[Len(up) + k], kind)
  BY <1>4
<1>11. \A i \in 1 .. Len(up) : \A kind : Is(up'[i], kind) <=> Is(up[i], kind)
  BY <1>4
<1>12. Asking'
  <2>. SUFFICES ASSUME Uninformed', \A j \in 1 .. Len(up') : ~Is(up'[j], "info")
                PROVE  /\ IF down' = <<>> THEN pc' \in {"start", "open", "aborted"}
                                          ELSE Head(down').cmd = "f"
                       /\ Awake' => begun' # "DONE"
    BY DEF Asking, NoInfoUpTo, Is
  <2>1. /\ \A i \in 1 .. Len(up) : i \in 1 .. Len(up')
        /\ \A k \in 1 .. Len(new) : Len(up) + k \in 1 .. Len(up')
    BY <1>4
  <2>2. /\ \A i \in 1 .. Len(up) : ~Is(up[i], "info")
        /\ \A k \in 1 .. Len(new) : ~Is(new[k], "info")
    BY <1>10, <1>11, <2>1, Zenon
  <2>3. /\ lost' = 0 /\ down # <<>> /\ Head(down).cmd = "f"
        /\ Awake => begun # "DONE"
    BY <1>9, <2>2
  <2>4. UNCHANGED down /\ (Awake' => Awake)
    BY <2>2, <2>3 DEF DeviceDoes
  <2>. QED
    BY <1>1, <2>3, <2>4
<1>13. EarlyTables'
  <2>. SUFFICES ASSUME Uninformed', NEW i \in 1 .. Len(up'), Is(up'[i], "table"),
                       \A j \in 1 .. i : ~Is(up'[j], "info")
                PROVE  begun' # "DONE" /\ up'[i].frame[2] = "done"
    BY DEF EarlyTables, NoInfoUpTo, Is
  <2>1. CASE i \in 1 .. Len(up)
    <3>1. Uninformed
      BY <1>1, <1>2, <1>3 DEF Uninformed
    <3>2. \A j \in 1 .. i : j \in 1 .. Len(up)
      BY <1>4, <2>1
    <3>3. Is(up[i], "table") /\ NoInfoUpTo(i)
      BY <1>11, <2>1, <3>2, Zenon DEF NoInfoUpTo
    <3>. QED
      BY <1>1, <1>4, <2>1, <3>1, <3>3 DEF EarlyTables
  <2>2. CASE i \notin 1 .. Len(up)
    <3>1. PICK k \in 1 .. Len(new) : i = Len(up) + k /\ \A j \in 1 .. Len(up) : j \in 1 .. i
      <4>1. i - Len(up) \in 1 .. Len(new) /\ i = Len(up) + (i - Len(up))
            /\ \A j \in 1 .. Len(up) : j \in 1 .. i
        BY <1>4, <2>2
      <4>. QED
        BY <4>1
    <3>2. \A j \in 1 .. Len(up) : ~Is(up[j], "info")
      BY <1>11, <3>1, Zenon
    <3>3. Is(new[k], "table") /\ up'[i] = new[k]
      BY <1>4, <1>10, <3>1, Zenon
    <3>. QED
      BY <1>1, <1>9, <3>2, <3>3 DEF DeviceDoes, Awake
  <2>. QED
    BY <2>1, <2>2
<1>. QED
  BY <1>5, <1>6, <1>7, <1>8, <1>12, <1>13

-----------------------------------------------------------------------------
(***************************************************************************)
(* What a step of the host's program, of the user or of the cable does: it *)
(* leaves packets and commands alone, sends commands, or takes the packet  *)
(* that is next.                                                           *)
(***************************************************************************)
Aside == pc \in {"start", "open", "aborted"}

Stays ==
  /\ UNCHANGED <<up, down, waiting_for, personality_info>>
  /\ Aside => Aside'

Orders(new) ==
  /\ new \in Seq(Commands) /\ new # <<>> /\ \A i \in 1 .. Len(new) : Fits(new[i])
  /\ down' = down \o new /\ waiting_for' = waiting_for + Len(new)
  /\ ~Aside \/ (down = <<>> /\ new[1].cmd = "f")
  /\ UNCHANGED <<up, personality_info>>

Takes ==
  /\ pc = "packet" /\ up' = Tail(up) /\ UNCHANGED down
  /\ IF Counted(Head(up)) THEN Answered ELSE UNCHANGED waiting_for
  /\ personality_info' = IF Is(Head(up), "info") THEN personality ELSE personality_info

HostDoes ==
  /\ UNCHANGED <<mode, personality, duration, run, begun, lost>>
  /\ skip_samples' \in Nat /\ duration_index' \in DOMAIN Durations
  /\ Stays \/ Takes \/ \E new : Orders(new)

LEMMA StaysKeeps ==
  ASSUME SessionInv, HostDoes, Stays
  PROVE  Ranges' /\ WaitsForWhatComes' /\ ParametersFit' /\ Asking' /\ EarlyTables'
<1>1. /\ UNCHANGED <<up, down, waiting_for, personality_info>> /\ (Aside => Aside')
      /\ UNCHANGED <<mode, personality, duration, run, begun, lost>>
      /\ skip_samples' \in Nat /\ duration_index' \in DOMAIN Durations
  BY DEF Stays, HostDoes
<1>2. Ranges'
  BY <1>1 DEF SessionInv, Ranges
<1>3. WaitsForWhatComes' /\ ParametersFit'
  BY <1>1 DEF SessionInv, WaitsForWhatComes, ParametersFit
<1>4. Asking' /\ EarlyTables'
  BY <1>1 DEF SessionInv, Asking, EarlyTables, Uninformed, NoInfoUpTo, Is, Aside, Awake
<1>. QED
  BY <1>2, <1>3, <1>4

LEMMA OrdersKeeps ==
  ASSUME SessionInv, HostDoes, NEW new, Orders(new)
  PROVE  Ranges' /\ WaitsForWhatComes' /\ ParametersFit' /\ Asking' /\ EarlyTables'
<1>1. /\ new \in Seq(Commands) /\ new # <<>> /\ \A i \in 1 .. Len(new) : Fits(new[i])
      /\ down' = down \o new /\ waiting_for' = waiting_for + Len(new)
      /\ UNCHANGED <<mode, personality, duration, run, begun, lost, up, personality_info>>
      /\ skip_samples' \in Nat /\ duration_index' \in DOMAIN Durations
  BY DEF Orders, HostDoes
<1>2. /\ down \in Seq(Commands) /\ waiting_for \in Nat /\ lost \in Nat /\ up \in Seq(Packets)
      /\ Len(down) \in Nat /\ Len(new) \in Nat \ {0}
  BY <1>1, LenProperties, EmptySeq DEF SessionInv, Ranges
<1>3. /\ down' \in Seq(Commands) /\ Len(down') = Len(down) + Len(new)
      /\ \A i \in 1 .. Len(down) + Len(new) :
           down'[i] = IF i <= Len(down) THEN down[i] ELSE new[i - Len(down)]
  BY <1>1, <1>2, ConcatProperties
<1>4. Ranges'
  BY <1>1, <1>2, <1>3 DEF SessionInv, Ranges
<1>5. WaitsForWhatComes'
  <2>1. /\ Cardinality(CountedIn(up)) \in Nat
        /\ waiting_for <= Len(down) + Cardinality(CountedIn(up)) + lost
    BY <1>2, CountedIsFinite DEF SessionInv, WaitsForWhatComes
  <2>2. \A w, d, c, l, n \in Nat : w <= d + c + l => w + n <= (d + n) + c + l
    OBVIOUS
  <2>3. waiting_for + Len(new) <= (Len(down) + Len(new)) + Cardinality(CountedIn(up)) + lost
    BY <1>2, <2>1, <2>2, Zenon
  <2>4. waiting_for' <= Len(down') + Cardinality(CountedIn(up)) + lost
    BY <1>1, <1>3, <2>3, Zenon
  <2>. QED
    BY <1>1, <2>4, Zenon DEF WaitsForWhatComes
<1>6. ParametersFit'
  <2>1. \A i \in 1 .. Len(down') : Fits(down'[i])
    <3>. SUFFICES ASSUME NEW i \in 1 .. Len(down') PROVE Fits(down'[i])
      OBVIOUS
    <3>1. i \in 1 .. Len(down) + Len(new)
      BY <1>3
    <3>2. \/ i <= Len(down) /\ i \in 1 .. Len(down)
          \/ ~(i <= Len(down)) /\ i - Len(down) \in 1 .. Len(new)
      BY <1>2, <3>1
    <3>. QED
      BY <1>1, <1>2, <1>3, <3>1, <3>2, AllFit, Zenon DEF SessionInv
  <2>2. DOMAIN down' = 1 .. Len(down')
    BY <1>3, LenProperties
  <2>. QED
    BY <1>1, <2>1, <2>2 DEF ParametersFit, Fits
<1>7. Asking'
  <2>. SUFFICES ASSUME Uninformed, NoInfoUpTo(Len(up))
                PROVE  down' # <<>> /\ Head(down').cmd = "f"
                       /\ (Awake => begun # "DONE")
    BY <1>1 DEF Asking, Uninformed, NoInfoUpTo, Is, Awake
  <2>1. /\ IF down = <<>> THEN Aside ELSE Head(down).cmd = "f"
        /\ Awake => begun # "DONE"
    BY DEF SessionInv, Asking, Aside
  <2>2. Len(down') \in Nat \ {0} /\ 1 \in 1 .. Len(down) + Len(new)
    BY <1>2, <1>3
  <2>3. down' # <<>> /\ Head(down') = down'[1]
    BY <1>3, <2>2, EmptySeq, HeadTailProperties
  <2>4. CASE down = <<>>
    <3>1. new[1].cmd = "f" /\ down' = new
      BY <1>1, <2>1, <2>4, ConcatEmptySeq DEF Orders
    <3>. QED
      BY <2>1, <2>3, <3>1
  <2>5. CASE down # <<>>
    <3>1. Head(down) = down[1] /\ Len(down) \in Nat \ {0}
      BY <1>2, <2>5, HeadTailProperties, EmptySeq
    <3>2. 1 <= Len(down)
      BY <3>1
    <3>3. down'[1] = down[1]
      BY <1>3, <2>2, <3>2, Zenon
    <3>. QED
      BY <2>1, <2>3, <2>5, <3>1, <3>3
  <2>. QED
    BY <2>4, <2>5
<1>8. EarlyTables'
  BY <1>1 DEF SessionInv, EarlyTables, Uninformed, NoInfoUpTo, Is
<1>. QED
  BY <1>4, <1>5, <1>6, <1>7, <1>8

LEMMA TakesKeeps ==
  ASSUME SessionInv, HostDoes, Takes
  PROVE  Ranges' /\ WaitsForWhatComes' /\ ParametersFit' /\ Asking' /\ EarlyTables'
<1>. DEFINE remaining == Tail(up)
<1>1. /\ pc = "packet" /\ up' = remaining /\ UNCHANGED down
      /\ IF Counted(Head(up)) THEN Answered ELSE UNCHANGED waiting_for
      /\ personality_info' = IF Is(Head(up), "info") THEN personality ELSE personality_info
      /\ UNCHANGED <<mode, personality, duration, run, begun, lost>>
      /\ skip_samples' \in Nat /\ duration_index' \in DOMAIN Durations
  BY DEF Takes, HostDoes
<1>2. /\ up \in Seq(Packets) /\ Len(up) \in Nat \ {0} /\ up # <<>>
      /\ down \in Seq(Commands) /\ Len(down) \in Nat /\ waiting_for \in Nat /\ lost \in Nat
      /\ personality \in Personalities /\ personality_info \in {NoInfo, personality}
  <2>1. up \in Seq(Packets) /\ down \in Seq(Commands) /\ waiting_for \in Nat /\ lost \in Nat
        /\ personality \in Personalities /\ personality_info \in {NoInfo, personality}
        /\ todo \in 1 .. Len(up)
    BY <1>1 DEF SessionInv, Ranges, Place
  <2>2. Len(up) \in Nat /\ Len(down) \in Nat
    BY <2>1, LenProperties
  <2>3. Len(up) # 0
    BY <2>1, <2>2
  <2>. QED
    BY <2>1, <2>2, <2>3, EmptySeq
<1>3. /\ remaining \in Seq(Packets) /\ Len(remaining) = Len(up) - 1 /\ Head(up) = up[1]
      /\ \A i \in 1 .. Len(remaining) : remaining[i] = up[i + 1]
  BY <1>2, HeadTailProperties
<1>. HIDE DEF remaining
<1>4. waiting_for' \in Nat /\ Ranges'
  <2>1. waiting_for' \in Nat
    BY <1>1, <1>2 DEF Answered
  <2>. QED
    BY <1>1, <1>2, <1>3, <2>1 DEF SessionInv, Ranges
<1>5. WaitsForWhatComes'
  <2>. DEFINE old  == Cardinality(CountedIn(up))
              left == Cardinality(CountedIn(remaining))
  <2>1. /\ old \in Nat /\ left \in Nat
        /\ old <= left + (IF Counted(Head(up)) THEN 1 ELSE 0)
    BY <1>2, CountedTail DEF remaining
  <2>2. waiting_for <= Len(down) + old + lost
    BY DEF SessionInv, WaitsForWhatComes
  <2>. HIDE DEF old, left
  <2>3. waiting_for' <= Len(down) + left + lost
    <3>1. CASE Counted(Head(up))
      <4>1. waiting_for' = (IF waiting_for > 0 THEN waiting_for - 1 ELSE 0) /\ old <= left + 1
        BY <1>1, <2>1, <3>1 DEF Answered
      <4>2. \A w, d, o, r, l \in Nat : w <= d + o + l /\ o <= r + 1 =>
              (IF w > 0 THEN w - 1 ELSE 0) <= d + r + l
        OBVIOUS
      <4>. QED
        BY <1>2, <2>1, <2>2, <4>1, <4>2, Zenon
    <3>2. CASE ~Counted(Head(up))
      <4>1. waiting_for' = waiting_for /\ old <= left + 0
        BY <1>1, <2>1, <3>2
      <4>2. \A w, d, o, r, l \in Nat : w <= d + o + l /\ o <= r + 0 => w <= d + r + l
        OBVIOUS
      <4>. QED
        BY <1>2, <2>1, <2>2, <4>1, <4>2, Zenon
    <3>. QED
      BY <3>1, <3>2
  <2>. QED
    BY <1>1, <2>3, Zenon DEF WaitsForWhatComes, left
<1>6. ParametersFit'
  BY <1>1 DEF SessionInv, ParametersFit
<1>7. ASSUME Uninformed'
      PROVE  /\ Uninformed /\ ~Is(up[1], "info")
             /\ \A n \in 0 .. Len(remaining) :
                  (\A j \in 1 .. n : ~Is(remaining[j], "info")) => NoInfoUpTo(n + 1)
  <2>1. Uninformed /\ ~Is(up[1], "info")
    BY <1>1, <1>2, <1>3, <1>7, SessionAssumption DEF Uninformed
  <2>2. ASSUME NEW n \in 0 .. Len(remaining), \A j \in 1 .. n : ~Is(remaining[j], "info")
        PROVE  NoInfoUpTo(n + 1)
    <3>. SUFFICES ASSUME NEW j \in 1 .. n + 1 PROVE ~Is(up[j], "info")
      BY DEF NoInfoUpTo
    <3>1. CASE j = 1
      BY <2>1, <3>1
    <3>2. CASE j # 1
      <4>1. j - 1 \in 1 .. n /\ j - 1 \in 1 .. Len(remaining) /\ (j - 1) + 1 = j
        BY <1>2, <1>3, <3>2
      <4>2. remaining[j - 1] = up[j]
        BY <1>3, <4>1
      <4>. QED
        BY <2>2, <4>1, <4>2
    <3>. QED
      BY <3>1, <3>2
  <2>. QED
    BY <2>1, <2>2
<1>8. Asking'
  <2>. SUFFICES ASSUME Uninformed', \A j \in 1 .. Len(remaining) : ~Is(remaining[j], "info")
                PROVE  /\ IF down = <<>> THEN pc' \in {"start", "open", "aborted"}
                                         ELSE Head(down).cmd = "f"
                       /\ Awake => begun # "DONE"
    BY <1>1 DEF Asking, NoInfoUpTo, Is, Awake
  <2>1. Len(remaining) \in 0 .. Len(remaining) /\ Len(remaining) + 1 = Len(up)
    BY <1>2, <1>3
  <2>2. Uninformed /\ NoInfoUpTo(Len(remaining) + 1)
    BY <1>7, <2>1
  <2>3. Uninformed /\ NoInfoUpTo(Len(up))
    BY <2>1, <2>2
  <2>. QED
    BY <1>1, <2>3 DEF SessionInv, Asking
<1>9. EarlyTables'
  <2>. SUFFICES ASSUME Uninformed', NEW i \in 1 .. Len(remaining), Is(remaining[i], "table"),
                       \A j \in 1 .. i : ~Is(remaining[j], "info")
                PROVE  begun # "DONE" /\ remaining[i].frame[2] = "done"
    BY <1>1 DEF EarlyTables, NoInfoUpTo, Is
  <2>1. i \in 0 .. Len(remaining) /\ i + 1 \in 1 .. Len(up)
    BY <1>2, <1>3
  <2>2. Uninformed /\ NoInfoUpTo(i + 1) /\ remaining[i] = up[i + 1]
    BY <1>3, <1>7, <2>1
  <2>. QED
    BY <2>1, <2>2 DEF SessionInv, EarlyTables, Is
<1>. QED
  BY <1>4, <1>5, <1>6, <1>8, <1>9

-----------------------------------------------------------------------------
(* The steps of the program that leave packets and commands alone.         *)
Quiet ==
  \/ StartTui \/ EnterSelect \/ SelectReady \/ TestFlags
  \/ Cleanup \/ Fini \/ AtExit \/ DeviceIo \/ DeviceEof \/ TableTooEarly
  \/ StdinIo \/ StdinEof \/ Read \/ ReadTooMuch \/ KeyQuit \/ KeySettings
  \/ Failure \/ Signal \/ HangUp \/ Unplug \/ \E key \in Keys : Press(key)

LEMMA QuietStays ==
  ASSUME Ranges, Quiet
  PROVE  Stays /\ skip_samples' \in Nat /\ duration_index' \in DOMAIN Durations
<1>1. CASE StartTui \/ EnterSelect \/ SelectReady \/ TestFlags
  BY <1>1 DEF StartTui, EnterSelect, SelectReady, TestFlags, Goto, Stays, Aside, Ranges,
     settings, memory
<1>2. CASE Cleanup \/ Fini \/ AtExit
  BY <1>2 DEF Cleanup, Fini, AtExit, Goto, Stays, Aside, Ranges, settings
<1>3. CASE DeviceIo \/ DeviceEof \/ TableTooEarly \/ Failure \/ ReadTooMuch
  BY <1>3 DEF DeviceIo, DeviceEof, TableTooEarly, ReadTooMuch, Failure, DeviceMissing,
     TableNotWritten, Abort, Goto, Stays, Aside, Ranges, settings, memory
<1>4. CASE StdinIo \/ StdinEof \/ Read
  BY <1>4 DEF StdinIo, StdinEof, Read, Goto, Stays, Aside, Ranges, settings, memory
<1>5. CASE KeyQuit
  BY <1>5 DEF KeyQuit, Key, Stays, Aside, Ranges, settings, memory
<1>6. CASE KeySettings
  <2>1. skip_samples \in Nat /\ Len(Durations) \in Nat /\ Len(Durations) > 0
        /\ DOMAIN Durations = 1 .. Len(Durations) /\ duration_index \in 1 .. Len(Durations)
    BY TuiAssumption, LenProperties DEF Ranges
  <2>2. \A n \in Nat : (n + 1 \in Nat) /\ (n > 0 => n - 1 \in Nat)
    OBVIOUS
  <2>3. \A l \in Nat : \A d \in 1 .. l :
          d \in Nat /\ 1 \in 1 .. l /\ (d < l => d + 1 \in 1 .. l) /\ (d > 1 => d - 1 \in 1 .. l)
    OBVIOUS
  <2>4. \A key \in {".", ",", "+", "-"} :
          Adjusted(key)[1] \in 1 .. Len(Durations) /\ Adjusted(key)[2] \in Nat
    <3>1. Adjusted(".")[1] = duration_index /\ Adjusted(".")[2] = skip_samples + 1
      BY DEF Adjusted
    <3>2. /\ Adjusted(",")[1] = duration_index
          /\ Adjusted(",")[2] = (IF skip_samples > 0 THEN skip_samples - 1 ELSE 0)
      BY DEF Adjusted
    <3>3. /\ Adjusted("+")[1] = (IF duration_index < Len(Durations) THEN duration_index + 1
                                ELSE duration_index)
          /\ Adjusted("+")[2] = skip_samples
      BY DEF Adjusted
    <3>4. /\ Adjusted("-")[1] = (IF duration_index > 1 THEN duration_index - 1 ELSE 1)
          /\ Adjusted("-")[2] = skip_samples
      BY DEF Adjusted
    <3>5. 0 \in Nat
      OBVIOUS
    <3>6. /\ Adjusted(".")[1] \in 1 .. Len(Durations) /\ Adjusted(".")[2] \in Nat
          /\ Adjusted(",")[1] \in 1 .. Len(Durations) /\ Adjusted(",")[2] \in Nat
      BY <2>1, <2>2, <3>1, <3>2, <3>5, Zenon
    <3>7. /\ Adjusted("+")[1] \in 1 .. Len(Durations) /\ Adjusted("+")[2] \in Nat
          /\ Adjusted("-")[1] \in 1 .. Len(Durations) /\ Adjusted("-")[2] \in Nat
      BY <2>1, <2>3, <3>3, <3>4, Zenon
    <3>. QED
      BY <3>6, <3>7
  <2>5. /\ Head(keyboard) \in {".", ",", "+", "-"}
        /\ duration_index' = Adjusted(Head(keyboard))[1]
        /\ skip_samples' = Adjusted(Head(keyboard))[2]
        /\ pc = "key" /\ UNCHANGED <<up, down, waiting_for, memory>>
    BY <1>6 DEF KeySettings, Key
  <2>. QED
    BY <2>1, <2>4, <2>5 DEF Stays, Aside, memory
<1>7. CASE Signal \/ HangUp \/ Unplug \/ \E key \in Keys : Press(key)
  BY <1>7 DEF Signal, HangUp, Unplug, Press, Surroundings, control, Goto, Stays, Aside,
     Ranges, settings, memory
<1>. QED
  BY <1>1, <1>2, <1>3, <1>4, <1>5, <1>6, <1>7 DEF Quiet

(* The steps that may send a command.                                      *)
Ordering ==
  \/ DeviceOpen \/ SelectTimeout \/ KeyPeriodic \/ KeySimple \/ KeyWrite \/ KeyParametrized

LEMMA OneOrder ==
  ASSUME Ranges, NEW command \in Commands, Fits(command), Send(command), ~Aside,
         UNCHANGED <<up, personality_info>>
  PROVE  Orders(<<command>>)
<1>1. /\ <<command>> \in Seq(Commands) /\ <<command>> # <<>> /\ Len(<<command>>) = 1
      /\ \A i \in 1 .. Len(<<command>>) : <<command>>[i] = command
  OBVIOUS
<1>2. down' = down \o <<command>> /\ waiting_for' = waiting_for + 1
  BY AppendIsConcat DEF Send, Ranges
<1>. QED
  BY <1>1, <1>2 DEF Orders

LEMMA SimpleFits ==
  ASSUME NEW cmd \in {"a", "r", "s", "i", "f", "E"}
  PROVE  Simple(cmd) \in Commands /\ Fits(Simple(cmd)) /\ Simple(cmd).cmd = cmd
<1>1. <<>> \in Seq(Nat)
  BY EmptySeq
<1>. QED
  BY <1>1 DEF Simple, Parametrized, Commands, Fits

(* The parameters the device expects, or none as long as it is unknown.    *)
LEMMA ParametersAre ==
  ASSUME Ranges, NEW time \in Nat, NEW cmd \in {"m", "e"}, Parameters(personality_info, time) # <<>>
  PROVE  LET command == Parametrized(cmd, Parameters(personality_info, time))
         IN  command \in Commands /\ Fits(command)
<1>1. skip_samples % 65536 \in Nat /\ personality_info \in {NoInfo, personality}
  BY DEF Ranges
<1>2. personality_info = personality
  BY <1>1 DEF NoInfo, Parameters
<1>3. \A a, b \in Nat :
        /\ <<a>> \o <<b>> \in Seq(Nat) /\ Len(<<a>> \o <<b>>) = 2
        /\ <<a>> \o <<>> \in Seq(Nat) /\ Len(<<a>> \o <<>>) = 1
        /\ <<>> \o <<b>> \in Seq(Nat) /\ Len(<<>> \o <<b>>) = 1
        /\ <<>> \o <<>> \in Seq(Nat) /\ Len(<<>> \o <<>>) = 0
  OBVIOUS
<1>4. /\ Parameters(personality, time) \in Seq(Nat)
      /\ Len(Parameters(personality, time)) = (IF personality.timer_count = 2 THEN 1 ELSE 0)
                                              + (IF personality.skip_samples = 2 THEN 1 ELSE 0)
  BY <1>1, <1>3 DEF Parameters
<1>. QED
  BY <1>2, <1>4 DEF Parametrized, Commands, Fits

LEMMA OrderingOrders ==
  ASSUME Ranges, Place, Ordering
  PROVE  /\ Stays \/ \E new : Orders(new)
         /\ skip_samples' \in Nat /\ duration_index' \in DOMAIN Durations
<1>1. CASE DeviceOpen
  <2>. DEFINE new == <<Simple("f"), Simple("s")>>
  <2>1. /\ Simple("f") \in Commands /\ Simple("s") \in Commands
        /\ Fits(Simple("f")) /\ Fits(Simple("s")) /\ Simple("f").cmd = "f"
    BY SimpleFits
  <2>2. /\ new \in Seq(Commands) /\ new # <<>> /\ Len(new) = 2 /\ new[1] = Simple("f")
        /\ \A i \in 1 .. Len(new) : new[i] = Simple("f") \/ new[i] = Simple("s")
    BY <2>1
  <2>3. /\ down' = down \o new /\ waiting_for' = waiting_for + 2 /\ pc = "open"
        /\ UNCHANGED <<up, settings, memory>>
    BY <1>1 DEF DeviceOpen
  <2>4. down = <<>>
    BY <2>3 DEF Place
  <2>5. Orders(new)
    BY <2>1, <2>2, <2>3, <2>4 DEF Orders, memory
  <2>. QED
    BY <2>3, <2>5 DEF settings, Ranges
<1>2. CASE SelectTimeout
  <2>1. /\ (UNCHANGED <<down, waiting_for>>) \/ Send(Simple("i"))
        /\ pc = "select" /\ pc' = "test" /\ UNCHANGED <<up, settings, memory>>
    BY <1>2, Zenon DEF SelectTimeout, Goto
  <2>2. Stays \/ Orders(<<Simple("i")>>)
    BY <2>1, SimpleFits, OneOrder DEF Stays, Aside, memory
  <2>. QED
    BY <2>1, <2>2 DEF settings, Ranges
<1>3. CASE KeyPeriodic
  <2>1. /\ (UNCHANGED <<down, waiting_for>>) \/ Send(Simple("i"))
        /\ pc = "key" /\ pc' \in {"test", "key"} /\ UNCHANGED <<up, settings, memory>>
    BY <1>3, Zenon DEF KeyPeriodic, Key
  <2>2. Stays \/ Orders(<<Simple("i")>>)
    BY <2>1, SimpleFits, OneOrder DEF Stays, Aside, memory
  <2>. QED
    BY <2>1, <2>2 DEF settings, Ranges
<1>4. CASE KeySimple
  <2>1. /\ Head(keyboard) \in {"a", "r", "s", "i", "f", "E"} /\ Send(Simple(Head(keyboard)))
        /\ pc = "key" /\ UNCHANGED <<up, settings, memory>>
    BY <1>4 DEF KeySimple, Key
  <2>2. Orders(<<Simple(Head(keyboard))>>)
    BY <2>1, SimpleFits, OneOrder DEF Aside, memory
  <2>. QED
    BY <2>1, <2>2 DEF settings, Ranges
<1>5. CASE KeyWrite
  <2>1. /\ Send(Simple("i")) /\ pc = "key" /\ UNCHANGED <<up, duration_index, skip_samples, memory>>
    BY <1>5 DEF KeyWrite, Key
  <2>2. Orders(<<Simple("i")>>)
    BY <2>1, SimpleFits, OneOrder DEF Aside, memory
  <2>. QED
    BY <2>1, <2>2 DEF Ranges
<1>6. CASE KeyParametrized
  <2>. DEFINE params == Parameters(personality_info, last_sent_duration')
  <2>1. /\ Head(keyboard) \in {"m", "e"} /\ last_sent_duration' = Durations[duration_index]
        /\ IF params # <<>> THEN Send(Parametrized(Head(keyboard), params))
           ELSE UNCHANGED <<down, waiting_for>>
        /\ pc = "key" /\ pc' \in {"test", "key"} /\ UNCHANGED <<up, settings, memory>>
    BY <1>6 DEF KeyParametrized, Key
  <2>2. last_sent_duration' \in Nat
    BY <2>1, TuiAssumption, LenProperties, ElementOfSeq DEF Ranges
  <2>3. CASE params # <<>>
    <3>1. Parametrized(Head(keyboard), params) \in Commands
          /\ Fits(Parametrized(Head(keyboard), params))
      BY <2>1, <2>2, <2>3, ParametersAre
    <3>2. Orders(<<Parametrized(Head(keyboard), params)>>)
      BY <2>1, <2>3, <3>1, OneOrder DEF Aside, memory
    <3>. QED
      BY <2>1, <3>2 DEF settings, Ranges
  <2>4. CASE params = <<>>
    BY <2>1, <2>4 DEF Stays, Aside, memory, settings, Ranges
  <2>. QED
    BY <2>3, <2>4
<1>. QED
  BY <1>1, <1>2, <1>3, <1>4, <1>5, <1>6 DEF Ordering

(* The steps that take a packet.                                           *)
Taking ==
  StatePacket \/ TextPacket \/ ParamsPacket \/ TablePacket \/ InfoPacket(personality)

LEMMA TakingTakes ==
  ASSUME Ranges, Taking
  PROVE  Takes /\ skip_samples' \in Nat /\ duration_index' \in DOMAIN Durations
<1>1. CASE StatePacket \/ TextPacket \/ TablePacket
  <2>1. /\ pc = "packet" /\ up' = Tail(up) /\ UNCHANGED <<down, personality_info>> /\ Answered
        /\ UNCHANGED <<skip_samples, duration_index>>
        /\ Head(up).frame[1] \in {"state", "text", "table"}
    BY <1>1 DEF StatePacket, TextPacket, TablePacket, Handle, memory, settings
  <2>. QED
    BY <2>1 DEF Takes, Counted, Is, Ranges
<1>2. CASE ParamsPacket
  <2>1. /\ pc = "packet" /\ up' = Tail(up) /\ UNCHANGED <<down, personality_info, waiting_for>>
        /\ UNCHANGED <<skip_samples, duration_index>> /\ Head(up).frame[1] = "params"
    BY <1>2 DEF ParamsPacket, Handle, memory, settings
  <2>. QED
    BY <2>1 DEF Takes, Counted, Is, Ranges
<1>3. CASE InfoPacket(personality)
  <2>1. /\ pc = "packet" /\ up' = Tail(up) /\ UNCHANGED <<down, waiting_for>>
        /\ personality_info' = personality
        /\ UNCHANGED <<skip_samples, duration_index>> /\ Head(up).frame[1] = "info"
    BY <1>3 DEF InfoPacket, Handle, settings
  <2>. QED
    BY <2>1 DEF Takes, Counted, Is, Ranges
<1>. QED
  BY <1>1, <1>2, <1>3 DEF Taking

-----------------------------------------------------------------------------
(* Where the program is: in the loop, the bytes read are those of packets  *)
(* that have come, and the terminal and the references are held.           *)
LEMMA PlaceKept ==
  ASSUME Ranges, Place, Quiet \/ Ordering \/ Taking
  PROVE  Place'
<1>1. CASE StartTui
  BY <1>1 DEF StartTui, Goto, Place
<1>2. CASE DeviceIo
  <2>1. up \in Seq(Packets) /\ up # <<>> /\ UNCHANGED up /\ pc' = "packet" /\ todo' = Len(up)
    BY <1>2 DEF DeviceIo, Ranges
  <2>2. \A n \in Nat \ {0} : n \in 1 .. n
    OBVIOUS
  <2>3. Len(up) \in Nat \ {0}
    BY <2>1, EmptySeq
  <2>4. todo' \in 1 .. Len(up')
    BY <2>1, <2>2, <2>3, Zenon
  <2>. QED
    BY <2>1, <2>4 DEF Place
<1>3. CASE Taking
  <2>1. /\ pc = "packet" /\ up' = Tail(up) /\ todo' = todo - 1
        /\ pc' = (IF todo > 1 THEN "packet" ELSE IF stdin_ready THEN "stdin" ELSE "test")
    BY <1>3 DEF Taking, StatePacket, TextPacket, ParamsPacket, TablePacket, InfoPacket, Handle
  <2>2. up \in Seq(Packets) /\ todo \in 1 .. Len(up) /\ Len(up) \in Nat
    BY <2>1, LenProperties DEF Ranges, Place
  <2>3. up # <<>>
    BY <2>2, EmptySeq
  <2>4. Len(Tail(up)) = Len(up) - 1
    BY <2>2, <2>3, HeadTailProperties
  <2>5. \A l \in Nat : \A t \in 1 .. l : t > 1 => t - 1 \in 1 .. l - 1
    OBVIOUS
  <2>6. pc' = "packet" => todo' \in 1 .. Len(up')
    <3>1. pc' = "packet" => todo > 1
      BY <2>1
    <3>. QED
      BY <2>1, <2>2, <2>4, <2>5, <3>1, Zenon
  <2>7. pc' \in {"packet", "stdin", "test"}
    BY <2>1
  <2>. QED
    BY <2>6, <2>7 DEF Place
<1>4. CASE Signal \/ HangUp \/ Unplug \/ \E key \in Keys : Press(key)
  <2>1. pc \in {"loop", "select", "test", "read"} /\ pc' \in {"loop", "select", "test", "read"}
    BY <1>4 DEF Signal, HangUp, Unplug, Press, Surroundings, control, Goto
  <2>. QED
    BY <2>1 DEF Place
<1>5. CASE \/ EnterSelect \/ SelectReady \/ TestFlags \/ Cleanup \/ Fini \/ AtExit
           \/ DeviceEof \/ TableTooEarly \/ StdinIo \/ StdinEof \/ Read \/ ReadTooMuch
           \/ KeyQuit \/ KeySettings \/ Failure \/ Ordering
  <2>1. pc' \notin {"packet", "start", "open"}
    <3>1. CASE EnterSelect \/ SelectReady \/ TestFlags \/ Cleanup \/ Fini \/ AtExit
      BY <3>1 DEF EnterSelect, SelectReady, TestFlags, Cleanup, Fini, AtExit, Goto,
         frame_parser_unref, tui_fini, packet_parser_unref
    <3>2. CASE DeviceEof \/ TableTooEarly \/ ReadTooMuch \/ Failure
      BY <3>2 DEF DeviceEof, TableTooEarly, ReadTooMuch, Failure, DeviceMissing,
         TableNotWritten, Abort, Goto
    <3>3. CASE StdinIo \/ StdinEof \/ Read \/ KeyQuit \/ KeySettings
      BY <3>3 DEF StdinIo, StdinEof, Read, KeyQuit, KeySettings, Key, Goto
    <3>4. CASE Ordering
      BY <3>4, Zenon DEF Ordering, DeviceOpen, SelectTimeout, KeyPeriodic, KeySimple, KeyWrite,
         KeyParametrized, Key, Goto
    <3>. QED
      BY <1>5, <3>1, <3>2, <3>3, <3>4
  <2>. QED
    BY <2>1 DEF Place
<1>. QED
  BY <1>1, <1>2, <1>3, <1>4, <1>5 DEF Quiet

(* Inside of the loop, a step that keeps the references stays inside; from *)
(* the end of the terminal it goes to exit(), from an assertion to abort().*)
Outside == {"start", "fini", "atexit", "exited", "aborted"}

LEMMA Inside ==
  ASSUME References, pc \notin Outside,
         UNCHANGED <<packet_parser_refs, tui_fini_run>>,
         \/ pc' \notin Outside \cup {"stdin", "cleanup"}
         \/ pc' \in {"stdin", "atexit"} /\ stdin_ready'
         \/ pc' = "cleanup" /\ ~stdin_ready'
         \/ pc' = "aborted" /\ tty' = "cooked",
         infos' = (IF personality_info' = NoInfo THEN 0 ELSE 1)
  PROVE  References'
BY DEF References, Outside, NothingReleasedTwice, Ended

LEMMA ReferencesKept ==
  ASSUME Ranges, References, Quiet \/ Ordering \/ Taking
  PROVE  References'
<1>0. infos = (IF personality_info = NoInfo THEN 0 ELSE 1)
  BY DEF References, NothingReleasedTwice
<1>1. CASE StartTui
  BY <1>1 DEF StartTui, Goto, tty_raw, References, NothingReleasedTwice, Ended
<1>2. CASE Cleanup
  BY <1>2 DEF Cleanup, Goto, frame_parser_unref, packet_parser_unref, References,
     NothingReleasedTwice, Ended
<1>3. CASE Fini
  BY <1>3 DEF Fini, Goto, tui_fini, packet_parser_unref, tty_reset, References,
     NothingReleasedTwice, Ended
<1>4. CASE AtExit
  BY <1>4 DEF AtExit, Goto, tui_fini, packet_parser_unref, tty_reset, References,
     NothingReleasedTwice, Ended
<1>5. CASE DeviceEof \/ TableTooEarly \/ ReadTooMuch \/ Failure
  <2>1. /\ pc \notin Outside /\ pc' = "aborted" /\ tty' = "cooked" /\ UNCHANGED memory
    BY <1>5 DEF DeviceEof, TableTooEarly, ReadTooMuch, Failure, DeviceMissing,
       TableNotWritten, Abort, Goto, tty_reset, Outside
  <2>. QED
    BY <1>0, <2>1, Inside DEF memory
<1>6. CASE \/ EnterSelect \/ SelectReady \/ TestFlags \/ DeviceIo \/ StdinIo \/ StdinEof \/ Read
           \/ KeyQuit \/ KeySettings \/ Ordering
           \/ Signal \/ HangUp \/ Unplug \/ \E key \in Keys : Press(key)
  <2>1. /\ pc \notin Outside /\ UNCHANGED memory
        /\ \/ pc' \notin Outside \cup {"stdin", "cleanup"}
           \/ pc' \in {"stdin", "atexit"} /\ stdin_ready'
           \/ pc' = "cleanup" /\ ~stdin_ready'
    <3>1. CASE EnterSelect \/ SelectReady \/ TestFlags \/ DeviceIo
      BY <3>1 DEF EnterSelect, SelectReady, TestFlags, DeviceIo, Goto, Outside
    <3>2. CASE StdinIo \/ StdinEof \/ Read \/ KeyQuit \/ KeySettings
      BY <3>2 DEF StdinIo, StdinEof, Read, KeyQuit, KeySettings, Key, Goto, Outside,
         References
    <3>3. CASE Ordering
      <4>1. /\ pc \in {"open", "select", "key"} /\ pc' \in {"loop", "test", "key"}
            /\ UNCHANGED memory
        BY <3>3, Zenon DEF Ordering, DeviceOpen, SelectTimeout, KeyPeriodic, KeySimple,
           KeyWrite, KeyParametrized, Key, Goto
      <4>. QED
        BY <4>1 DEF Outside
    <3>4. CASE Signal \/ HangUp \/ Unplug \/ \E key \in Keys : Press(key)
      BY <3>4 DEF Signal, HangUp, Unplug, Press, Surroundings, control, Goto, Outside
    <3>. QED
      BY <1>6, <3>1, <3>2, <3>3, <3>4
  <2>2. infos' = (IF personality_info' = NoInfo THEN 0 ELSE 1)
    BY <1>0, <2>1 DEF memory
  <2>3. UNCHANGED <<packet_parser_refs, tui_fini_run>>
    BY <2>1 DEF memory
  <2>. QED
    BY <2>1, <2>2, <2>3, Inside, Zenon
<1>7. CASE StatePacket \/ TextPacket \/ ParamsPacket \/ TablePacket
  <2>1. /\ pc = "packet" /\ UNCHANGED memory /\ stdin_ready' = stdin_ready
        /\ pc' \in {"packet", "test"} \/ (pc' = "stdin" /\ stdin_ready)
    BY <1>7 DEF StatePacket, TextPacket, ParamsPacket, TablePacket, Handle
  <2>. QED
    BY <1>0, <2>1, Inside DEF memory, Outside
<1>8. CASE InfoPacket(personality)
  <2>1. /\ pc = "packet" /\ stdin_ready' = stdin_ready
        /\ pc' \in {"packet", "test"} \/ (pc' = "stdin" /\ stdin_ready)
        /\ personality_info' = personality
        /\ UNCHANGED <<packet_parser_refs, tui_fini_run>>
        /\ infos' = infos + 1 - (IF personality_info = NoInfo THEN 0 ELSE 1)
    BY <1>8 DEF InfoPacket, Handle, personality_info_unref
  <2>2. personality # NoInfo
    BY SessionAssumption DEF Ranges
  <2>3. infos' = 1
    BY <1>0, <2>1
  <2>. QED
    BY <2>1, <2>2, <2>3, Inside DEF Outside
<1>. QED
  BY <1>1, <1>2, <1>3, <1>4, <1>5, <1>6, <1>7, <1>8 DEF Quiet, Taking

-----------------------------------------------------------------------------
LEMMA HostKeeps ==
  ASSUME SessionInv, HostProgram \/ HostTimeout \/ HostFailure \/ User \/ UserMishap
  PROVE  SessionInv'
<1>1. /\ Quiet \/ Ordering \/ Taking
      /\ UNCHANGED <<mode, personality, duration, run, begun, lost>>
  <2>1. ASSUME TuiStep \/ InfoPacket(personality)
        PROVE  Quiet \/ Ordering \/ Taking
    BY <2>1, Zenon DEF TuiStep, Quiet, Ordering, Taking
  <2>2. CASE HostProgram
    BY <2>1, <2>2 DEF HostProgram, Host, deviceVars, historyVars
  <2>3. CASE HostTimeout \/ HostFailure \/ User
    BY <2>3, Zenon
    DEF HostTimeout, HostFailure, User, Host, deviceVars, historyVars, Quiet, Ordering
  <2>4. CASE UserMishap
    BY <2>4, Zenon DEF UserMishap, deviceVars, Quiet
  <2>. QED
    BY <2>2, <2>3, <2>4
<1>2. HostDoes
  <2>1. CASE Quiet
    BY <1>1, <2>1, QuietStays DEF HostDoes, SessionInv
  <2>2. CASE Ordering
    BY <1>1, <2>2, OrderingOrders DEF HostDoes, SessionInv
  <2>3. CASE Taking
    BY <1>1, <2>3, TakingTakes DEF HostDoes, SessionInv
  <2>. QED
    BY <1>1, <2>1, <2>2, <2>3
<1>3. Ranges' /\ WaitsForWhatComes' /\ ParametersFit' /\ Asking' /\ EarlyTables'
  BY <1>2, StaysKeeps, OrdersKeeps, TakesKeeps, Zenon DEF HostDoes
<1>4. Place' /\ References'
  BY <1>1, PlaceKept, ReferencesKept DEF SessionInv
<1>. QED
  BY <1>3, <1>4 DEF SessionInv

LEMMA SessionStarts == SessionInit => SessionInv
<1>. SUFFICES ASSUME SessionInit PROVE SessionInv
  OBVIOUS
<1>1. /\ pc = "start" /\ todo = 0 /\ up = <<>> /\ down = <<>> /\ waiting_for = 0
      /\ duration_index = 1 /\ skip_samples = 0 /\ personality_info = NoInfo /\ infos = 0
      /\ packet_parser_refs = 0 /\ tui_fini_run = FALSE /\ tty = "cooked" /\ lost = 0
      /\ mode \in BeginsIn[personality] /\ begun = mode /\ personality \in Personalities /\ run = 1
      /\ duration = (IF personality.timer_count = 2 THEN Durations[1] ELSE NoDuration)
  BY DEF SessionInit, TuiInit
<1>2. 1 \in DOMAIN Durations /\ Durations[1] \in Nat
  <2>1. Durations \in Seq(Nat \ {0}) /\ Len(Durations) \in Nat /\ Len(Durations) > 0
    BY TuiAssumption, LenProperties
  <2>2. 1 \in 1 .. Len(Durations)
    BY <2>1
  <2>. QED
    BY <2>1, <2>2, LenProperties, ElementOfSeq
<1>3. up \in Seq(Packets) /\ down \in Seq(Commands) /\ Len(up) = 0 /\ Len(down) = 0
  BY <1>1, EmptySeq
<1>4. Ranges
  BY <1>1, <1>2, <1>3, SessionAssumption DEF Ranges, NoDuration, Device!Mode, Device!Up
<1>5. Place /\ References
  BY <1>1 DEF Place, References, NothingReleasedTwice, Ended
<1>6. WaitsForWhatComes
  <2>1. /\ Cardinality(CountedIn(up)) \in Nat
        /\ waiting_for = 0 /\ Len(down) = 0 /\ lost = 0
    BY <1>1, <1>3, CountedIsFinite, Zenon
  <2>2. \A c \in Nat : 0 <= 0 + c + 0
    OBVIOUS
  <2>. QED
    BY <2>1, <2>2, Zenon DEF WaitsForWhatComes
<1>7. ParametersFit
  BY <1>3, LenProperties DEF ParametersFit
<1>8. Asking /\ EarlyTables
  BY <1>1, <1>3 DEF Asking, EarlyTables, Awake
<1>. QED
  BY <1>4, <1>5, <1>6, <1>7, <1>8 DEF SessionInv

LEMMA SessionInvariant == SessionSpec => []SessionInv
<1>1. SessionInv /\ SessionNext => SessionInv'
  <2>1. SessionInv /\ (DeviceAnswers \/ CorruptCommand \/ LoseCommand \/ NotHeard
                       \/ DeviceByItself \/ SwitchStart \/ SwitchUseless \/ PowerCut)
          => SessionInv'
    BY DeviceSteps, DeviceKeeps, Zenon DEF SessionInv
  <2>2. SessionInv /\ (HostProgram \/ HostTimeout \/ HostFailure \/ User \/ UserMishap)
          => SessionInv'
    BY HostKeeps
  <2>. QED
    BY <2>1, <2>2 DEF SessionNext
<1>2. SessionInv /\ UNCHANGED sessionVars => SessionInv'
  <2>. SUFFICES ASSUME SessionInv, UNCHANGED sessionVars PROVE SessionInv'
    OBVIOUS
  <2>1. /\ UNCHANGED <<pc, stdin_ready, todo, up, down, waiting_for, duration_index, skip_samples,
                       personality_info, infos, packet_parser_refs, tui_fini_run, tty>>
        /\ UNCHANGED <<lost, mode, begun, personality, duration, run>>
    BY DEF sessionVars, tuiVars, control, settings, memory, deviceVars, historyVars
  <2>2. Ranges' /\ Place' /\ References'
    BY <2>1 DEF SessionInv, Ranges, Place, References, NothingReleasedTwice, Ended
  <2>3. WaitsForWhatComes' /\ ParametersFit'
    BY <2>1 DEF SessionInv, WaitsForWhatComes, ParametersFit
  <2>4. Asking' /\ EarlyTables'
    BY <2>1 DEF SessionInv, Asking, EarlyTables, Uninformed, NoInfoUpTo, Is, Awake
  <2>. QED
    BY <2>2, <2>3, <2>4 DEF SessionInv
<1>. QED
  BY SessionStarts, <1>1, <1>2, PTL DEF SessionSpec

(***************************************************************************)
(* tui_do_timeout() gives up on a device that owes it more than two        *)
(* answers: as many were lost, or are on their way.                        *)
(***************************************************************************)
THEOREM WaitsForNothingElse == SessionSpec => []WaitsForWhatComes
BY SessionInvariant, PTL DEF SessionInv

(***************************************************************************)
(* The terminal is restored on every way out of the program, and tui_fini()*)
(* and device_unref() never give back a reference to the packet parser     *)
(* that is not there: both after main(), one at the end of the terminal,   *)
(* none at an abort.                                                       *)
(***************************************************************************)
THEOREM NothingIsReleasedTwice == SessionSpec => []NothingReleasedTwice
BY SessionInvariant, PTL DEF SessionInv, References

(***************************************************************************)
(* tui_send_parametrized_command() sends the parameters that the device's  *)
(* personality reads, whenever its info comes and whatever is lost.        *)
(***************************************************************************)
THEOREM ParametersAlwaysFit == SessionSpec => []ParametersFit
BY SessionInvariant, PTL DEF SessionInv

(***************************************************************************)
(* Without losses, the only table that may abort the program in            *)
(* packet_value_table_new() is the final one of a measurement that ended   *)
(* by itself before the device heard the program ask, be it one that was   *)
(* running when the program started or one begun by the switch.            *)
(***************************************************************************)
THEOREM EarlyTablesAreFinal == SessionSpec => []EarlyTableOnlyAtEnd
<1>1. SessionInv => EarlyTableOnlyAtEnd
  <2>. SUFFICES ASSUME SessionInv, EarlyTable, ~(lost > 0)
                PROVE  begun # "DONE" /\ Head(up).frame[2] = "done"
    BY DEF EarlyTableOnlyAtEnd
  <2>1. /\ up \in Seq(Packets) /\ todo \in 1 .. Len(up) /\ Len(up) \in Nat /\ lost \in Nat
        /\ personality_info = NoInfo /\ Head(up).frame[1] = "table"
    BY LenProperties DEF SessionInv, Ranges, Place, EarlyTable
  <2>2. Uninformed
    BY <2>1 DEF Uninformed
  <2>3. 1 \in 1 .. Len(up) /\ \A j \in 1 .. 1 : j = 1
    BY <2>1
  <2>4. up # <<>>
    BY <2>3, EmptySeq
  <2>5. Head(up) = up[1]
    BY <2>1, <2>4, HeadTailProperties
  <2>6. Is(up[1], "table") /\ NoInfoUpTo(1)
    BY <2>1, <2>3, <2>5 DEF Is, NoInfoUpTo
  <2>. QED
    BY <2>2, <2>3, <2>5, <2>6 DEF SessionInv, EarlyTables
<1>. QED
  BY <1>1, SessionInvariant, PTL

-----------------------------------------------------------------------------
(* The line and the nul byte behind it fit into the buffer.                *)
LineFits == idx + 1 <= 80

(* No number is longer than the widest the table has: the line is at most  *)
(* as long as if all of them were.  Ten places may take a sign.            *)
Width(p) == IF p = 10 THEN 12 ELSE p + 1

Inv ==
  /\ max \in Nat /\ places \in 1 .. 10 /\ Places(max, places)
  /\ y \in Index /\ x \in 0 .. perline(places) /\ idx \in Nat
  /\ idx <= 6 + ((x + 7) \div 8) + x * Width(places)

(* More places take larger numbers.                                        *)
LEMMA ThresholdGrows ==
  \A p, q \in 1 .. 10 : p <= q => Threshold[p] \in Nat /\ Threshold[p] <= Threshold[q]
BY SMTT(30) DEF Threshold

(* An element of the table is not printed wider than its largest one.      *)
LEMMA NumberFits ==
  ASSUME NEW largest \in Nat, NEW p \in 1 .. 10, Places(largest, p),
         NEW value \in 0 .. largest, NEW length \in 1 .. 11, Printed(value, length)
  PROVE  length < Width(p)
<1>0. value \in Int /\ largest \in Int /\ value <= largest
  BY SMT
<1>1. CASE value >= 2147483648
  <2>1. p = 10
    <3> SUFFICES ASSUME p \in 1 .. 9 PROVE FALSE
      BY SMT
    <3>1. Threshold[p + 1] <= 1000000000
      BY SMT DEF Threshold
    <3>2. largest < Threshold[p + 1]
      BY SMT DEF Places
    <3>3. Threshold[p + 1] \in Int
      BY SMT DEF Threshold
    <3> QED BY <1>0, <1>1, <3>1, <3>2, <3>3, SMT
  <2> QED BY <2>1, SMT DEF Width
<1>2. CASE value < 2147483648
  <2>1. PICK q \in 1 .. 10 : Places(value, q) /\ length = q
    BY <1>2, SMT DEF Printed
  <2>2. q <= p
    <3> SUFFICES ASSUME p + 1 <= q PROVE FALSE
      BY SMT
    <3>1. largest < Threshold[p + 1]
      BY <2>1, SMT DEF Places
    <3>2. Threshold[q] <= value
      BY <2>1, SMT DEF Places
    <3>3. Threshold[p + 1] <= Threshold[q] /\ Threshold[p + 1] \in Nat /\ Threshold[q] \in Nat
      BY <2>1, ThresholdGrows, SMT
    <3> QED BY <1>0, <3>1, <3>2, <3>3, SMT
  <2> QED BY <2>1, <2>2, SMT DEF Width
<1> QED BY <1>0, <1>1, <1>2, SMT

(***************************************************************************)
(* Every line of every table a device may send fits into line[80] of       *)
(* fmlog_value_table(): eight places and an index of five fill it.         *)
(***************************************************************************)
THEOREM LogLineFits == Spec => []LineFits
<1>1. Init => Inv
  <2> SUFFICES ASSUME Init PROVE Inv
    OBVIOUS
  <2>1. x * Width(places) = 0 /\ (x + 7) \div 8 = 0
    BY DEF Init, Width
  <2>2. x \in 0 .. perline(places)
    BY DEF Init, perline
  <2> QED BY <2>1, <2>2 DEF Init, Inv
<1>2. Inv /\ [PrintNumber]_vars => Inv'
  <2> SUFFICES ASSUME Inv, PrintNumber PROVE Inv'
    BY DEF Inv, vars
  <2>1. PICK value \in 0 .. max, length \in 1 .. 11 :
          /\ Printed(value, length)
          /\ idx' = idx + (IF x % 8 = 0 THEN 1 ELSE 0)
                        + 1 + (IF length < places THEN places ELSE length)
    BY DEF PrintNumber
  <2>2. length < Width(places)
    BY <2>1, NumberFits DEF Inv
  <2>3. x' = x + 1 /\ x' \in 0 .. perline(places) /\ UNCHANGED <<max, places, y>>
    BY DEF PrintNumber, Inv, perline
  <2>4. 1 + (IF length < places THEN places ELSE length) <= Width(places)
    BY <2>2 DEF Inv, Width
  <2>5. ((x' + 7) \div 8) = ((x + 7) \div 8) + (IF x % 8 = 0 THEN 1 ELSE 0)
    BY <2>3 DEF Inv, perline
  <2>6. x' * Width(places) = x * Width(places) + Width(places)
    BY <2>3 DEF Inv, Width, perline
  <2>7. idx' \in Nat /\ idx' <= 6 + ((x' + 7) \div 8) + x' * Width(places)
    BY <2>1, <2>3, <2>4, <2>5, <2>6 DEF Inv, Width, perline
  <2> QED BY <2>3, <2>7 DEF Inv, Places
<1>3. Inv => LineFits
  <2> SUFFICES ASSUME Inv PROVE LineFits
    OBVIOUS
  <2>1. CASE places = 1  BY <2>1 DEF Inv, LineFits, perline, Width
  <2>2. CASE places = 2  BY <2>2 DEF Inv, LineFits, perline, Width
  <2>3. CASE places = 3  BY <2>3 DEF Inv, LineFits, perline, Width
  <2>4. CASE places \in 4 .. 8  BY <2>4 DEF Inv, LineFits, perline, Width
  <2>5. CASE places \in 9 .. 10  BY <2>5 DEF Inv, LineFits, perline, Width
  <2> QED BY <2>1, <2>2, <2>3, <2>4, <2>5 DEF Inv
<1> QED BY <1>1, <1>2, <1>3, PTL DEF Spec

-----------------------------------------------------------------------------
(***************************************************************************)
(* The emulator of a device, for any number of clients, commands and       *)
(* periods.                                                                *)
(***************************************************************************)
ClientEnds ==
  [socket : {"new", "open", "closed"}, out : Seq(Command), last : Int, torn : BOOLEAN,
   asked : Int]

EmuRanges ==
  /\ replies \in Nat /\ rest \in Seq(Nat) /\ toPort \in Seq(Nat)
  /\ at \in {"select", "port", "conn", "listen", "aborted", "killed"}
  /\ in_fdset \subseteq {"port", "conn", "listen"}
  /\ connfd \in Clients \cup {None} /\ drained \in Clients \cup {None}
  /\ backlog \in Seq(Clients) /\ client \in [Clients -> ClientEnds]

(* The halves sent so far; those in the pipe are the last of them.         *)
Halves == 2 * replies - Len(rest)
Taken  == Halves - Len(toPort)

InOrder ==
  /\ rest = <<>> \/ (Len(rest) = 1 /\ rest[1] = 2 * replies)
  /\ \A i \in 1 .. Len(toPort) : toPort[i] = Taken + i

(* Only the client connected has received anything, and all that was taken *)
(* from the pipe since.                                                    *)
UpToDate(c) == client[c].last # None => c = connfd /\ client[c].last = Taken

OneClient ==
  \A c \in Clients :
    /\ client[c].torn = FALSE /\ UpToDate(c)
    /\ Hung(c) => client[c].last = None

(* What select() has found is still so when the port program acts on it;   *)
(* and a client that has gone is disconnected before another is accepted.  *)
Found ==
  /\ at = "port" /\ "port" \in in_fdset => toPort # <<>> \/ Crashed
  /\ at \in {"port", "conn"} /\ "conn" \in in_fdset =>
       connfd # None /\ (client[connfd].out # <<>> \/ Hung(connfd))
  /\ at \in {"port", "conn", "listen"} /\ "listen" \in in_fdset => backlog # <<>>

Gone ==
  /\ at \in {"port", "conn"} /\ drained # None =>
       /\ drained = connfd /\ "conn" \in in_fdset
       /\ Hung(connfd) /\ client[connfd].out = <<>>
  /\ at = "listen" /\ drained # None => connfd = None
  /\ at = "select" => drained = None
  /\ at = "aborted" => Crashed \/ drained = None

EmuInv == EmuRanges /\ InOrder /\ OneClient /\ Found /\ Gone

(* A reply is two halves: one goes into the pipe, the other waits.         *)
LEMMA RepliesAreInOrder ==
  ASSUME EmuRanges, InOrder, rest = <<>>, send_reply
  PROVE  /\ replies' \in Nat /\ rest' \in Seq(Nat) /\ toPort' \in Seq(Nat) /\ InOrder'
         /\ Taken' = Taken /\ toPort' # <<>>
<1>1. /\ replies' = replies + 1 /\ toPort' = Append(toPort, 2 * replies + 1)
      /\ rest' = <<2 * replies + 2>>
  BY DEF send_reply
<1>2. Len(rest') = 1 /\ rest'[1] = 2 * replies' /\ rest' \in Seq(Nat) /\ replies' \in Nat
  BY <1>1 DEF EmuRanges
<1>3. /\ Len(toPort') = Len(toPort) + 1 /\ toPort' \in Seq(Nat) /\ Len(toPort) \in Nat
      /\ \A i \in 1 .. Len(toPort) : toPort'[i] = toPort[i]
      /\ toPort'[Len(toPort) + 1] = 2 * replies + 1
  BY <1>1, AppendProperties DEF EmuRanges
<1>4. Len(rest) = 0 /\ replies \in Nat
  BY DEF EmuRanges
<1>5. Halves = 2 * replies /\ Halves' = 2 * replies + 1
  BY <1>1, <1>2, <1>4 DEF Halves
<1>6. Taken' = Taken /\ Taken = 2 * replies - Len(toPort)
  BY <1>3, <1>4, <1>5 DEF Taken
<1>7. \A i \in 1 .. Len(toPort') : toPort'[i] = Taken' + i
  <2>1. TAKE i \in 1 .. Len(toPort')
  <2>2. CASE i \in 1 .. Len(toPort)
    BY <1>3, <1>6, <2>2 DEF InOrder
  <2>3. CASE i = Len(toPort) + 1
    BY <1>3, <1>4, <1>6, <2>3
  <2>. QED
    BY <1>3, <2>2, <2>3
<1>8. toPort' # <<>>
  BY <1>3
<1>. QED
  BY <1>2, <1>3, <1>6, <1>7, <1>8 DEF InOrder

(* What the state machine does leaves the order alone.                     *)
ErlangKeeps ==
  /\ replies' \in Nat /\ rest' \in Seq(Nat) /\ toPort' \in Seq(Nat) /\ InOrder'
  /\ Taken' = Taken /\ (toPort # <<>> => toPort' # <<>>) /\ (Crashed => Crashed')
  /\ UNCHANGED <<at, in_fdset, connfd, drained, backlog, client>>

LEMMA ErlangKeepsOrder ==
  ASSUME EmuRanges, InOrder, ErlangStep PROVE ErlangKeeps
<1>. USE DEF port, users
<1>1. ASSUME NoReply PROVE /\ replies' \in Nat /\ rest' \in Seq(Nat) /\ toPort' \in Seq(Nat)
                               /\ InOrder' /\ Taken' = Taken /\ toPort' = toPort
  BY <1>1 DEF NoReply, EmuRanges, InOrder, Taken, Halves
<1>2. CASE SendRest
  <2>1. rest' = <<>> /\ toPort' = toPort \o rest /\ UNCHANGED replies
    BY <1>2 DEF SendRest
  <2>2. Len(rest) = 1 /\ rest[1] = 2 * replies
    BY <1>2 DEF SendRest, InOrder
  <2>3. /\ toPort' \in Seq(Nat) /\ Len(toPort') = Len(toPort) + 1 /\ Len(toPort) \in Nat
        /\ \A i \in 1 .. Len(toPort) : toPort'[i] = toPort[i]
        /\ toPort'[Len(toPort) + 1] = rest[1]
    <3>1. \A s, t \in Seq(Nat) :
            /\ s \o t \in Seq(Nat) /\ Len(s \o t) = Len(s) + Len(t)
            /\ \A i \in 1 .. Len(s) + Len(t) :
                 (s \o t)[i] = IF i <= Len(s) THEN s[i] ELSE t[i - Len(s)]
      BY ConcatProperties
    <3>2. toPort' \in Seq(Nat) /\ Len(toPort') = Len(toPort) + 1 /\ Len(toPort) \in Nat
      <4>1. toPort \in Seq(Nat) /\ rest \in Seq(Nat)
        BY DEF EmuRanges
      <4>2. toPort' \in Seq(Nat) /\ Len(toPort') = Len(toPort) + Len(rest)
        BY <2>1, <3>1, <4>1, Zenon
      <4>. QED
        BY <2>2, <4>1, <4>2
    <3>3. \A i \in 1 .. Len(toPort) + 1 :
            toPort'[i] = IF i <= Len(toPort) THEN toPort[i] ELSE rest[i - Len(toPort)]
      BY <2>1, <2>2, <3>1 DEF EmuRanges
    <3>. QED
      BY <3>2, <3>3
  <2>4. Len(rest') = 0 /\ rest' \in Seq(Nat) /\ replies \in Nat
    BY <2>1 DEF EmuRanges
  <2>5. Halves = 2 * replies - 1 /\ Halves' = 2 * replies
    BY <2>1, <2>2, <2>4 DEF Halves
  <2>6. Taken' = Taken /\ Taken = 2 * replies - 1 - Len(toPort)
    BY <2>3, <2>4, <2>5 DEF Taken
  <2>7. \A i \in 1 .. Len(toPort') : toPort'[i] = Taken' + i
    <3>1. TAKE i \in 1 .. Len(toPort')
    <3>2. CASE i \in 1 .. Len(toPort)
      BY <2>3, <2>6, <3>2 DEF InOrder
    <3>3. CASE i = Len(toPort) + 1
      BY <2>2, <2>3, <2>4, <2>6, <3>3
    <3>. QED
      BY <2>3, <3>2, <3>3
  <2>8. toPort' # <<>>
    BY <2>3
  <2>9. UNCHANGED <<state, at, in_fdset, connfd, drained, backlog, client>>
    BY <1>2 DEF SendRest
  <2>. QED
    BY <2>1, <2>3, <2>4, <2>6, <2>7, <2>8, <2>9 DEF ErlangKeeps, InOrder, Crashed
<1>3. CASE HandleCommand
  <2>1. rest = <<>> /\ ~Crashed /\ UNCHANGED <<at, in_fdset, connfd, drained, backlog, client>>
    BY <1>3 DEF HandleCommand
  <2>2. send_reply \/ NoReply
    BY <1>3 DEF HandleCommand, Served, Measure, ResetCommand, StayReady,
       AbortCommand, Intermediate, Crash
  <2>. QED
    BY <1>1, <2>1, <2>2, RepliesAreInOrder DEF ErlangKeeps
<1>4. CASE Timeout
  <2>1. rest = <<>> /\ ~Crashed /\ UNCHANGED <<at, in_fdset, connfd, drained, backlog, client>>
    BY <1>4 DEF Timeout
  <2>2. send_reply
    BY <1>4 DEF Timeout, Booted, Second, Reset
  <2>. QED
    BY <2>1, <2>2, RepliesAreInOrder DEF ErlangKeeps
<1>5. CASE PortRead
  <2>1. /\ NoReply /\ UNCHANGED state
        /\ UNCHANGED <<at, in_fdset, connfd, drained, backlog, client>>
    BY <1>5 DEF PortRead, NoReply
  <2>. QED
    BY <1>1, <2>1 DEF ErlangKeeps, Crashed
<1>. QED
  BY <1>2, <1>3, <1>4, <1>5 DEF ErlangStep

(* None is not a client.                                                   *)
LEMMA NoneIsNobody == None \notin Clients
BY DEF None, Clients

(* The other steps leave the halves sent alone; they may take them all.    *)
LEMMA OrderStays ==
  ASSUME EmuRanges, InOrder, UNCHANGED <<replies, rest>>, toPort' \in {toPort, <<>>}
  PROVE  /\ replies' \in Nat /\ rest' \in Seq(Nat) /\ toPort' \in Seq(Nat) /\ InOrder'
         /\ toPort' = toPort => Taken' = Taken
         /\ toPort' = <<>> => Taken' = Halves
<1>1. CASE toPort' = toPort
  <2>1. Taken' = Taken
    BY <1>1 DEF Taken, Halves
  <2>2. toPort = <<>> => Taken = Halves
    BY DEF EmuRanges, Taken, Halves
  <2>. QED
    BY <1>1, <2>1, <2>2 DEF EmuRanges, InOrder
<1>2. CASE toPort' = <<>>
  <2>1. toPort' \in Seq(Nat) /\ Len(toPort') = 0
    BY <1>2
  <2>2. Halves' = Halves /\ Halves \in Int
    BY DEF Halves, EmuRanges
  <2>3. Taken' = Halves
    BY <2>1, <2>2 DEF Taken
  <2>4. toPort' = toPort => Taken' = Taken
    BY DEF Taken, Halves
  <2>. QED
    BY <2>1, <2>3, <2>4 DEF EmuRanges, InOrder
<1>. QED
  BY <1>1, <1>2

(* The last half in the pipe is the last of those sent, and they come      *)
(* without a gap: a client that is up to date receives nothing torn.       *)
LEMMA NothingIsTorn ==
  ASSUME EmuRanges, InOrder, toPort # <<>>, NEW c \in Clients, UpToDate(c)
  PROVE  ~Torn(c) /\ toPort[Len(toPort)] = Halves /\ Halves \in Int
<1>1. Len(toPort) \in Nat /\ Len(toPort) >= 1 /\ Halves \in Int
  BY DEF EmuRanges, Halves
<1>2. \A i \in 1 .. Len(toPort) : toPort[i] = Taken + i
  BY DEF InOrder
<1>3. Taken = Halves - Len(toPort) /\ Taken \in Int
  BY <1>1 DEF Taken
<1>4. toPort[Len(toPort)] = Halves
  BY <1>1, <1>2, <1>3
<1>5. Head(toPort) = Taken + 1
  BY <1>1, <1>2, HeadTailProperties DEF EmuRanges
<1>6. \A k \in 1 .. Len(toPort) - 1 : toPort[k + 1] = toPort[k] + 1
  <2>1. TAKE k \in 1 .. Len(toPort) - 1
  <2>2. k \in 1 .. Len(toPort) /\ k + 1 \in 1 .. Len(toPort) /\ k \in Int
    BY <1>1
  <2>3. toPort[k] = Taken + k /\ toPort[k + 1] = Taken + (k + 1)
    BY <1>2, <2>2
  <2>. QED
    BY <1>3, <2>2, <2>3
<1>7. client[c].last # None => Head(toPort) = client[c].last + 1
  BY <1>5 DEF UpToDate
<1>. QED
  BY <1>1, <1>4, <1>6, <1>7 DEF Torn

(* port_select_do_io(): what is in the pipe goes to the client, if any.    *)
LEMMA PortWrites ==
  ASSUME EmuInv, port_select_do_io PROVE EmuInv'
<1>. USE DEF erlang
<1>0. EmuRanges /\ InOrder /\ OneClient /\ Found /\ Gone
  BY DEF EmuInv
<1>1. /\ at = "port" /\ UNCHANGED <<connfd, backlog, commands, state, replies, rest>>
      /\ UNCHANGED <<in_fdset, drained>>
      /\ at' \in {"conn", "killed", "aborted"}
      /\ toPort' \in {toPort, <<>>}
      /\ at' = "aborted" => toPort = <<>> /\ "port" \in in_fdset
  BY DEF port_select_do_io, Go
<1>2. /\ replies' \in Nat /\ rest' \in Seq(Nat) /\ toPort' \in Seq(Nat) /\ InOrder'
      /\ toPort' = toPort => Taken' = Taken
      /\ toPort' = <<>> => Taken' = Halves
  BY <1>0, <1>1, OrderStays
<1>3. Crashed' = Crashed
  BY <1>1 DEF Crashed
<1>4. CASE UNCHANGED client /\ (toPort' = toPort \/ connfd = None \/ Hung(connfd))
  <2>1. EmuRanges'
    BY <1>0, <1>1, <1>2, <1>4 DEF EmuRanges
  <2>2. ASSUME NEW c \in Clients
        PROVE  /\ client'[c].torn = FALSE /\ UpToDate(c)'
               /\ Hung(c)' => client'[c].last = None
    <3>1. client[c].torn = FALSE /\ UpToDate(c) /\ (Hung(c) => client[c].last = None)
      BY <1>0 DEF OneClient
    <3>2. CASE toPort' = toPort
      BY <1>1, <1>2, <1>4, <3>1, <3>2 DEF UpToDate, Hung
    <3>3. CASE connfd = None \/ Hung(connfd)
      <4>1. client[c].last = None
        BY <3>1, <3>3, NoneIsNobody DEF UpToDate
      <4>. QED
        BY <1>4, <3>1, <4>1 DEF UpToDate, Hung
    <3>. QED
      BY <1>4, <3>2, <3>3
  <2>3. Found' /\ Gone'
    BY <1>0, <1>1, <1>3, <1>4 DEF Found, Gone, Hung
  <2>. QED
    BY <1>2, <2>1, <2>2, <2>3 DEF EmuInv, OneClient
<1>5. CASE /\ at' = "conn" /\ toPort # <<>> /\ toPort' = <<>>
           /\ connfd # None /\ ~Hung(connfd)
           /\ client' = [client EXCEPT ![connfd].last = toPort[Len(toPort)],
                                       ![connfd].torn = @ \/ Torn(connfd)]
  <2>0. connfd \in Clients
    BY <1>0, <1>5 DEF EmuRanges
  <2>1. client[connfd].torn = FALSE /\ UpToDate(connfd)
    BY <1>0, <2>0 DEF OneClient
  <2>2. ~Torn(connfd) /\ toPort[Len(toPort)] = Halves /\ Halves \in Int
    BY <1>0, <1>5, <2>0, <2>1, NothingIsTorn
  <2>3. /\ client' = [client EXCEPT ![connfd] = [@ EXCEPT !.last = Halves, !.torn = FALSE]]
    BY <1>5, <2>1, <2>2 DEF EmuRanges
  <2>4. client \in [Clients -> ClientEnds]
    BY <1>0 DEF EmuRanges
  <2>5. /\ client' \in [Clients -> ClientEnds]
        /\ client'[connfd].last = Halves /\ client'[connfd].torn = FALSE
        /\ client'[connfd].socket = client[connfd].socket
        /\ client'[connfd].out = client[connfd].out
        /\ \A c \in Clients : c # connfd => client'[c] = client[c]
    BY <2>0, <2>2, <2>3, <2>4 DEF ClientEnds
  <2>6. EmuRanges'
    BY <1>0, <1>1, <1>2, <2>5 DEF EmuRanges
  <2>7. ASSUME NEW c \in Clients
        PROVE  /\ client'[c].torn = FALSE /\ UpToDate(c)'
               /\ Hung(c)' => client'[c].last = None
    <3>1. client[c].torn = FALSE /\ UpToDate(c) /\ (Hung(c) => client[c].last = None)
      BY <1>0 DEF OneClient
    <3>2. CASE c = connfd
      BY <1>1, <1>2, <1>5, <2>5, <3>2 DEF UpToDate, Hung
    <3>3. CASE c # connfd
      BY <2>5, <3>1, <3>3 DEF UpToDate, Hung
    <3>. QED
      BY <3>2, <3>3
  <2>8. Found' /\ Gone'
    BY <1>0, <1>1, <1>3, <1>5, <2>5 DEF Found, Gone, Hung
  <2>. QED
    BY <1>2, <2>6, <2>7, <2>8 DEF EmuInv, OneClient
<1>. QED
  BY <1>4, <1>5 DEF port_select_do_io, Go

(* Steps that change nothing of what comes from the state machine.         *)
PipesStay == UNCHANGED <<replies, rest, toPort, state>>

(* They leave the order alone.                                             *)
LEMMA PipesStayInOrder ==
  ASSUME EmuRanges, InOrder, PipesStay
  PROVE  /\ replies' \in Nat /\ rest' \in Seq(Nat) /\ toPort' \in Seq(Nat) /\ InOrder'
         /\ Taken' = Taken /\ Crashed' = Crashed
BY DEF PipesStay, EmuRanges, InOrder, Taken, Halves, Crashed

(* select(): what is found is so, and one that is gone is found.           *)
LEMMA SelectFinds ==
  ASSUME EmuInv, Select PROVE EmuInv'
<1>0. EmuRanges /\ InOrder /\ OneClient
  BY DEF EmuInv
<1>1. PipesStay /\ UNCHANGED <<connfd, backlog, client>> /\ at' = "port" /\ in_fdset' = Ready
  BY DEF Select, users, erlang, PipesStay
<1>2. drained' = IF connfd # None /\ Hung(connfd) /\ client[connfd].out = <<>>
                 THEN connfd ELSE None
  BY DEF Select
<1>3. /\ "port" \in in_fdset' => toPort # <<>> \/ Crashed
      /\ "conn" \in in_fdset' <=>
           connfd # None /\ (client[connfd].out # <<>> \/ Hung(connfd))
      /\ "listen" \in in_fdset' => backlog # <<>>
      /\ in_fdset' \subseteq {"port", "conn", "listen"}
  BY <1>1 DEF Ready
<1>4. EmuRanges'
  BY <1>0, <1>1, <1>2, <1>3, PipesStayInOrder DEF EmuRanges
<1>5. OneClient'
  BY <1>0, <1>1, PipesStayInOrder DEF OneClient, UpToDate, Hung
<1>6. Found' /\ Gone'
  BY <1>0, <1>1, <1>2, <1>3, PipesStayInOrder DEF PipesStay, Found, Gone, Hung
<1>. QED
  BY <1>0, <1>1, <1>4, <1>5, <1>6, PipesStayInOrder DEF EmuInv

(* conn_select_do_io(): commands are read, or the connection is closed.    *)
LEMMA ConnReads ==
  ASSUME EmuInv, conn_select_do_io PROVE EmuInv'
<1>0. EmuRanges /\ InOrder /\ OneClient /\ Found /\ Gone
  BY DEF EmuInv
<1>1. /\ PipesStay /\ UNCHANGED <<backlog, in_fdset, drained>> /\ at = "conn"
      /\ at' \in {"listen", "killed"} /\ at' # "aborted"
  BY DEF conn_select_do_io, erlang, Go, PipesStay
<1>2. CASE "conn" \notin in_fdset /\ UNCHANGED <<connfd, client>>
  <2>1. EmuRanges' /\ OneClient'
    BY <1>0, <1>1, <1>2, PipesStayInOrder DEF EmuRanges, OneClient, UpToDate, Hung
  <2>2. Found' /\ Gone'
    BY <1>0, <1>1, <1>2 DEF Found, Gone
  <2>. QED
    BY <1>0, <1>1, <2>1, <2>2, PipesStayInOrder DEF EmuInv
<1>3. CASE /\ "conn" \in in_fdset /\ client[connfd].out # <<>> /\ UNCHANGED connfd
           /\ client' = [client EXCEPT ![connfd].out = <<>>]
  <2>1. connfd \in Clients /\ client \in [Clients -> ClientEnds]
    BY <1>0, <1>1, <1>3 DEF EmuRanges, Found
  <2>2. /\ client' \in [Clients -> ClientEnds]
        /\ \A c \in Clients : /\ client'[c].last = client[c].last
                                  /\ client'[c].torn = client[c].torn
                                  /\ client'[c].socket = client[c].socket
    <3>1. <<>> \in Seq(Command)
      OBVIOUS
    <3>. QED
      BY <1>3, <2>1, <3>1 DEF ClientEnds
  <2>3. drained = None
    BY <1>0, <1>1, <1>3 DEF Gone
  <2>4. EmuRanges' /\ OneClient'
    BY <1>0, <1>1, <1>3, <2>2, PipesStayInOrder DEF EmuRanges, OneClient, UpToDate, Hung
  <2>5. Found' /\ Gone'
    BY <1>0, <1>1, <2>3 DEF Found, Gone
  <2>. QED
    BY <1>0, <1>1, <2>4, <2>5, PipesStayInOrder DEF EmuInv
<1>4. CASE /\ "conn" \in in_fdset /\ client[connfd].out = <<>> /\ connfd' = None
           /\ UNCHANGED client
  <2>1. connfd \in Clients /\ Hung(connfd)
    BY <1>0, <1>1, <1>4 DEF EmuRanges, Found
  <2>2. ASSUME NEW c \in Clients PROVE client[c].last = None
    BY <1>0, <2>1 DEF OneClient, UpToDate
  <2>3. EmuRanges'
    BY <1>0, <1>1, <1>4, PipesStayInOrder DEF EmuRanges
  <2>4. OneClient'
    BY <1>0, <1>4, <2>2 DEF OneClient, UpToDate, Hung
  <2>5. Found' /\ Gone'
    BY <1>0, <1>1, <1>4 DEF Found, Gone
  <2>. QED
    BY <1>0, <1>1, <2>3, <2>4, <2>5, PipesStayInOrder DEF EmuInv
<1>. QED
  BY <1>2, <1>3, <1>4 DEF conn_select_do_io

(* listen_select_do_io(): the next client is accepted, if there is no      *)
(* other: one that was gone when select() returned is no other.            *)
LEMMA ListenAccepts ==
  ASSUME EmuInv, listen_select_do_io PROVE EmuInv'
<1>0. EmuRanges /\ InOrder /\ OneClient /\ Found /\ Gone
  BY DEF EmuInv
<1>1. PipesStay /\ UNCHANGED client /\ at = "listen"
  BY DEF listen_select_do_io, erlang, PipesStay
<1>2. CASE /\ "listen" \notin in_fdset /\ UNCHANGED <<connfd, backlog>>
           /\ at' = "select" /\ in_fdset' = {} /\ drained' = None
  <2>1. EmuRanges' /\ OneClient'
    BY <1>0, <1>1, <1>2, PipesStayInOrder DEF EmuRanges, OneClient, UpToDate, Hung
  <2>2. Found' /\ Gone'
    BY <1>2 DEF Found, Gone
  <2>. QED
    BY <1>0, <1>1, <2>1, <2>2, PipesStayInOrder DEF EmuInv
<1>3. CASE "listen" \in in_fdset /\ backlog' = Tail(backlog)
  <2>1. backlog # <<>> /\ backlog \in Seq(Clients)
    BY <1>0, <1>1, <1>3 DEF Found, EmuRanges
  <2>2. Head(backlog) \in Clients /\ Tail(backlog) \in Seq(Clients)
    BY <2>1
  <2>3. CASE /\ connfd = None /\ connfd' = Head(backlog)
             /\ at' = "select" /\ in_fdset' = {} /\ drained' = None
    <3>1. EmuRanges'
      BY <1>0, <1>1, <1>3, <2>2, <2>3, PipesStayInOrder DEF EmuRanges
    <3>2. ASSUME NEW c \in Clients PROVE client[c].last = None
      BY <1>0, <2>3, NoneIsNobody DEF OneClient, UpToDate
    <3>3. OneClient'
      BY <1>0, <1>1, <3>2 DEF OneClient, UpToDate, Hung
    <3>4. Found' /\ Gone'
      BY <2>3 DEF Found, Gone
    <3>. QED
      BY <1>0, <1>1, <3>1, <3>3, <3>4, PipesStayInOrder DEF EmuInv
  <2>4. CASE /\ connfd # None /\ at' = "aborted" /\ UNCHANGED <<connfd, in_fdset, drained>>
    <3>1. EmuRanges' /\ OneClient'
      BY <1>0, <1>1, <1>3, <2>2, <2>4, PipesStayInOrder DEF EmuRanges, OneClient, UpToDate, Hung
    <3>2. Found' /\ Gone'
      BY <1>0, <1>1, <2>4 DEF Found, Gone
    <3>. QED
      BY <1>0, <1>1, <3>1, <3>2, PipesStayInOrder DEF EmuInv
  <2>. QED
    BY <1>3, <2>3, <2>4 DEF listen_select_do_io, Again, Go
<1>. QED
  BY <1>2, <1>3 DEF listen_select_do_io, Again

(* What clients do: one that is gone sends no more, and never returns.     *)
LEMMA UsersKeep ==
  ASSUME EmuInv, UserStep PROVE EmuInv'
<1>0. EmuRanges /\ InOrder /\ OneClient /\ Found /\ Gone
  BY DEF EmuInv
<1>1. PICK c \in Clients : Connect(c) \/ SendCommand(c) \/ CloseSocket(c)
  BY DEF UserStep
<1>2. /\ PipesStay /\ UNCHANGED <<at, in_fdset, connfd, drained>> /\ at \notin {"aborted", "killed"}
      /\ \/ UNCHANGED backlog
         \/ backlog = <<>> /\ backlog' = <<c>>
  BY <1>1
  DEF UserStep, Dead, Connect, SendCommand, CloseSocket, erlang, port, PipesStay
<1>3. client \in [Clients -> ClientEnds]
  BY <1>0 DEF EmuRanges
<1>4. /\ client' \in [Clients -> ClientEnds]
      /\ \A d \in Clients :
           /\ client'[d].torn = client[d].torn
           /\ client'[d].last \in {client[d].last, None}
           /\ Hung(d) => client'[d].socket = "closed" /\ client'[d].out = client[d].out
           /\ client'[d].out # <<>> \/ client[d].out = <<>>
           /\ client'[d].socket = "closed" => Hung(d) \/ client'[d].last = None
  <2>1. CASE Connect(c)
    BY <1>3, <2>1 DEF Connect, Hung, ClientEnds
  <2>2. CASE SendCommand(c)
    <3>1. PICK command \in Command :
            client' = [client EXCEPT ![c].out = Append(@, command), ![c].asked = replies]
      BY <2>2 DEF SendCommand
    <3>2. client[c].out \in Seq(Command) /\ replies \in Int
      BY <1>0, <1>3 DEF ClientEnds, EmuRanges
    <3>3. Append(client[c].out, command) \in Seq(Command) /\ Append(client[c].out, command) # <<>>
      BY <3>2
    <3>4. client[c].socket = "open"
      BY <2>2 DEF SendCommand
    <3>5. /\ client'[c] = [client[c] EXCEPT !.out = Append(client[c].out, command), !.asked = replies]
          /\ \A d \in Clients : d # c => client'[d] = client[d]
          /\ DOMAIN client' = Clients /\ client' = [d \in Clients |-> client'[d]]
      BY <1>3, <3>1
    <3>6. /\ client'[c] \in ClientEnds /\ client'[c].out # <<>>
          /\ client'[c].torn = client[c].torn /\ client'[c].last = client[c].last
          /\ client'[c].socket = "open"
      BY <1>3, <3>2, <3>3, <3>4, <3>5 DEF ClientEnds
    <3>. QED
      BY <1>3, <3>4, <3>5, <3>6 DEF Hung
  <2>3. CASE CloseSocket(c)
    <3>1. /\ client'[c] = [client[c] EXCEPT !.socket = "closed", !.last = None, !.asked = -1]
          /\ \A d \in Clients : d # c => client'[d] = client[d]
          /\ DOMAIN client' = Clients /\ client' = [d \in Clients |-> client'[d]]
          /\ client[c].socket = "open"
      BY <1>3, <2>3 DEF CloseSocket
    <3>2. /\ client'[c] \in ClientEnds /\ client'[c].out = client[c].out
          /\ client'[c].torn = client[c].torn /\ client'[c].last = None
          /\ client'[c].socket = "closed"
      <4>1. client[c] \in ClientEnds /\ -1 \in Int /\ None \in Int
        BY <1>3 DEF None
      <4>. QED
        BY <3>1, <4>1 DEF ClientEnds
    <3>. QED
      <4>1. client' \in [Clients -> ClientEnds]
        BY <1>3, <3>1, <3>2
      <4>2. ASSUME NEW d \in Clients, d # c PROVE client'[d] = client[d]
        BY <3>1, <4>2
      <4>. QED
        BY <3>1, <3>2, <4>1, <4>2 DEF Hung
  <2>. QED
    BY <1>1, <2>1, <2>2, <2>3
<1>5. backlog' \in Seq(Clients) /\ (backlog # <<>> => backlog' # <<>>)
  <2>1. <<c>> \in Seq(Clients) /\ <<c>> # <<>>
    OBVIOUS
  <2>. QED
    BY <1>0, <1>2, <2>1 DEF EmuRanges
<1>6. EmuRanges'
  BY <1>0, <1>2, <1>4, <1>5, PipesStayInOrder DEF EmuRanges
<1>7. OneClient'
  <2>1. Taken' = Taken /\ connfd' = connfd
    BY <1>0, <1>2, PipesStayInOrder
  <2>2. ASSUME NEW d \in Clients
        PROVE  /\ client'[d].torn = FALSE /\ UpToDate(d)'
               /\ Hung(d)' => client'[d].last = None
    <3>1. client[d].torn = FALSE /\ UpToDate(d) /\ (Hung(d) => client[d].last = None)
      BY <1>0 DEF OneClient
    <3>. QED
      BY <1>4, <2>1, <3>1 DEF UpToDate, Hung
  <2>. QED
    BY <2>2 DEF OneClient
<1>8. Found' /\ Gone'
  <2>1. connfd # None => connfd \in Clients
    BY <1>0 DEF EmuRanges
  <2>2. connfd # None =>
          /\ client[connfd].out # <<>> \/ Hung(connfd) =>
               client'[connfd].out # <<>> \/ Hung(connfd)'
          /\ Hung(connfd) => Hung(connfd)' /\ client'[connfd].out = client[connfd].out
    BY <1>2, <1>4, <2>1 DEF Hung
  <2>3. Found'
    BY <1>0, <1>2, <1>5, <2>2, PipesStayInOrder DEF PipesStay, Found
  <2>4. Gone'
    BY <1>0, <1>2, <2>2, NoneIsNobody DEF Gone, EmuRanges
  <2>. QED
    BY <2>3, <2>4
<1>. QED
  BY <1>0, <1>2, <1>6, <1>7, <1>8, PipesStayInOrder DEF EmuInv

(* The invariant holds of an emulator that has been started.               *)
LEMMA EmulatorStarts == EmulatorInit => EmuInv
<1>. SUFFICES ASSUME EmulatorInit PROVE EmuInv
  OBVIOUS
<1>1. EmuRanges
  <2>1. <<>> \in Seq(Nat) /\ <<>> \in Seq(Clients) /\ <<>> \in Seq(Command)
    OBVIOUS
  <2>. QED
    BY <2>1 DEF EmulatorInit, EmuRanges, ClientEnds, None
<1>2. InOrder /\ OneClient /\ Found /\ Gone
  BY DEF EmulatorInit, InOrder, OneClient, UpToDate, Found, Gone, Hung
<1>. QED
  BY <1>1, <1>2 DEF EmuInv

(* The invariant holds in every behaviour.                                *)
LEMMA EmulatorInvariant == EmulatorSpec => []EmuInv
<1>1. EmuInv /\ [EmulatorNext]_emulatorVars => EmuInv'
  <2>. SUFFICES ASSUME EmuInv, [EmulatorNext]_emulatorVars PROVE EmuInv'
    OBVIOUS
  <2>1. CASE ErlangStep
    <3>1. EmuRanges /\ InOrder /\ OneClient /\ Found /\ Gone
      BY DEF EmuInv
    <3>2. ErlangKeeps
      BY <2>1, <3>1, ErlangKeepsOrder
    <3>3. EmuRanges'
      BY <3>1, <3>2 DEF ErlangKeeps, EmuRanges
    <3>4. OneClient'
      BY <3>1, <3>2 DEF ErlangKeeps, OneClient, UpToDate, Hung
    <3>5. Found' /\ Gone'
      BY <3>1, <3>2 DEF ErlangKeeps, Found, Gone, Hung
    <3>. QED
      BY <3>2, <3>3, <3>4, <3>5 DEF ErlangKeeps, EmuInv
  <2>2. CASE PortStep
    BY <2>2, SelectFinds, PortWrites, ConnReads, ListenAccepts DEF PortStep
  <2>3. CASE UserStep
    BY <2>3, UsersKeep
  <2>4. CASE UNCHANGED emulatorVars
    <3>1. EmuRanges /\ InOrder /\ OneClient /\ Found /\ Gone
      BY DEF EmuInv
    <3>2. PipesStay /\ UNCHANGED <<at, in_fdset, connfd, drained, backlog, client>>
      BY <2>4 DEF emulatorVars, erlang, port, users, PipesStay
    <3>3. EmuRanges' /\ OneClient'
      BY <3>1, <3>2, PipesStayInOrder DEF EmuRanges, OneClient, UpToDate, Hung
    <3>4. Found' /\ Gone'
      BY <3>1, <3>2, PipesStayInOrder DEF PipesStay, Found, Gone, Hung
    <3>. QED
      BY <3>1, <3>2, <3>3, <3>4, PipesStayInOrder DEF EmuInv
  <2>. QED
    BY <2>1, <2>2, <2>3, <2>4 DEF EmulatorNext
<1>. QED
  BY <1>1, EmulatorStarts, PTL DEF EmulatorSpec

(***************************************************************************)
(* A client of the emulator receives the halves of the frames in order and *)
(* without a gap, and clients may follow each other.                       *)
(***************************************************************************)
THEOREM ClientsFollowEachOther == EmulatorSpec => []ClientsTakeTurns
<1>1. EmuInv => ClientsTakeTurns
  BY DEF EmuInv, OneClient, Gone, ClientsTakeTurns
<1>. QED
  BY <1>1, EmulatorInvariant, PTL

=============================================================================
