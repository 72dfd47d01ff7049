------------------------------ MODULE Keyboard ------------------------------
(***************************************************************************)
(* The keyboard of kern/console.c: kbd_proc_data, which turns scan codes   *)
(* into characters.  A key is named by its index in the tables of the      *)
(* code: its scan code, plus 128 when it is sent after an E0 byte.  The    *)
(* tables are given for the keys in Known.                                 *)
(***************************************************************************)
EXTENDS Integers, Sequences

CONSTANTS Key  \* the keys of the keyboard

VARIABLES held,  \* the keys that are down
          scan,  \* the bytes the controller holds
          shift  \* the flags kbd_proc_data keeps

keyboard == <<held, scan, shift>>

NO == "NO"
E0 == \hE0

h == \h23
Enter == \h1C
Del == \hD3        \* on the keypad, without E0, the same code is a dot
FakeShift == \hAA  \* sent by the keyboard itself, around some E0 keys

Known == {h, Enter, Del, \h53, FakeShift,
          \h1D, \h9D, \h2A, \h36, \h38, \hB8, \h3A, \h45}

ASSUME KeyboardAssumption == Key \subseteq Known

shiftcode(k) ==
  CASE k \in {\h1D, \h9D} -> {"CTL"}
    [] k \in {\h2A, \h36} -> {"SHIFT"}
    [] k \in {\h38, \hB8} -> {"ALT"}
    [] OTHER -> {}

togglecode(k) == CASE k = \h3A -> {"CAPSLOCK"} [] k = \h45 -> {"NUMLOCK"}
                   [] OTHER -> {}

normalmap(k) == CASE k = h -> "h" [] k = Enter -> "NL" [] k = Del -> "DEL"
                  [] k = \h53 -> "." [] OTHER -> NO
shiftmap(k) == IF k = h THEN "H" ELSE normalmap(k)
(* C('H') is a backspace.                                                  *)
ctlmap(k) == CASE k = h -> "BS" [] k = Enter -> "CR" [] k = Del -> "DEL"
               [] OTHER -> NO

OtherCase(c) == CASE c = "h" -> "H" [] c = "H" -> "h" [] OTHER -> c

Character(flags, k) ==
  LET c == CASE "CTL" \in flags -> ctlmap(k)
             [] "CTL" \notin flags /\ "SHIFT" \in flags -> shiftmap(k)
             [] OTHER -> normalmap(k)
  IN IF "CAPSLOCK" \in flags THEN OtherCase(c) ELSE c

Toggled(s, t) == (s \ t) \cup (t \ s)

Result(flags, c) == [shift |-> flags, c |-> c]

Released(data) == data >= \h80

(* Mutant: the high bit of a release stays.                                *)
IndexUnmasked(s, data) ==
  IF ~ Released(data) /\ "E0ESC" \in s THEN data + \h80 ELSE data
(* The table index of a scan code.                                         *)
Index(s, data) ==
  CASE Released(data) /\ "E0ESC" \notin s -> data - \h80
    [] ~ Released(data) /\ "E0ESC" \in s -> data + \h80
    [] OTHER -> data

(* The next flags and the character, NO when there is none yet.            *)
kbd_proc_data(s, data) ==
  LET k     == Index(s, data)
      flags == Toggled((s \ {"E0ESC"}) \cup shiftcode(k), togglecode(k))
  IN CASE data = E0 -> Result(s \cup {"E0ESC"}, NO)
       [] data # E0 /\ Released(data) ->
            Result(s \ (shiftcode(k) \cup {"E0ESC"}), NO)
       [] OTHER -> Result(flags, Character(flags, k))

Reboots(r) == {"CTL", "ALT"} \subseteq r.shift /\ r.c = "DEL"

----------------------------------------------------------------------------
kbd_init == held = {} /\ scan = <<>> /\ shift = {}

MakeCode(k) == IF k >= \h80 THEN <<E0, k - \h80>> ELSE <<k>>
BreakCode(k) == IF k >= \h80 THEN <<E0, k>> ELSE <<k + \h80>>

(* Keys go down, repeat and come up.  As what kbd_proc_data does depends   *)
(* on the order of the bytes alone, each key's are taken before the next.  *)
Press(k) ==
  /\ scan = <<>> /\ scan' = MakeCode(k)
  /\ held' = held \cup {k} /\ UNCHANGED shift

Release(k) ==
  /\ k \in held /\ held' = held \ {k}
  /\ scan = <<>> /\ scan' = BreakCode(k) /\ UNCHANGED shift

KeyMoves == \E k \in Key : Press(k) \/ Release(k)

----------------------------------------------------------------------------
(* No flag stays set after the last key that sets it has come up, whether  *)
(* its codes carry E0 or not and whatever was typed between.               *)
NoStuckModifier ==
  scan = <<>> =>
    /\ "E0ESC" \notin shift
    /\ \A flag \in shift \cap {"SHIFT", "CTL", "ALT"} :
         \E k \in held : flag \in shiftcode(k)
============================================================================
