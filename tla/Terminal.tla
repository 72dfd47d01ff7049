------------------------------ MODULE Terminal ------------------------------
(***************************************************************************)
(* The kernel monitor's terminal: what is typed on the keyboard (module    *)
(* Keyboard) goes through readline (lib/readline.c), which echoes it to    *)
(* the display (module Cga); between two lines the kernel prints.  The     *)
(* input ring between keyboard and readline is module Console.             *)
(***************************************************************************)
EXTENDS Keyboard, Cga

CONSTANTS BUFLEN,
          Printed,   \* what the kernel prints
          Serial,    \* what comes over the serial port
          MaxScroll  \* bound: lines that scroll off

VARIABLES mode,  \* "print", "read" or "rebooted"
          line,  \* buf[0 .. i - 1] of readline
          start  \* auxiliary: where on the roll readline began

terminal_vars == <<keyboard, screen, mode, line, start>>

(* A line that readline accepts fits on the display below the first row.   *)
ASSUME TerminalAssumption ==
  /\ BUFLEN \in Nat \ {0} /\ BUFLEN - 1 <= CRT_SIZE - CRT_COLS
  /\ Printed \cup Serial \subseteq Glyph \cup Control /\ MaxScroll \in Nat

TerminalInit ==
  /\ kbd_init /\ cga_init
  /\ mode = "print" /\ line = <<>> /\ start = 0

Echo(c) == screen' = cga_putc(screen, c) /\ ScrolledLines(screen') <= MaxScroll

----------------------------------------------------------------------------
cputchar(c) ==
  /\ mode = "print" /\ Echo(c)
  /\ UNCHANGED <<keyboard, mode, line, start>>

readline_call ==
  /\ mode = "print" /\ mode' = "read"
  /\ line' = <<>> /\ start' = RollPos
  /\ UNCHANGED <<keyboard, screen>>

Erase(c) == c \in {"BS", "RUB"} /\ line # <<>>
(* Mutant: the last byte of the buffer is used, too.                       *)
InsertFull(c) == ~ Erase(c) /\ c \in Glyph /\ Len(line) < BUFLEN
Insert(c) == ~ Erase(c) /\ c \in Glyph /\ Len(line) < BUFLEN - 1
Ends(c) == c \in {"NL", "CR"}

(* Mutant: what finds no room in the line is echoed nevertheless.          *)
IgnoredEcho(c) == ~ (Erase(c) \/ Insert(c) \/ Ends(c))
                  /\ (IF c \in Glyph THEN Echo(c) ELSE UNCHANGED screen)
Ignored(c) == ~ (Erase(c) \/ Insert(c) \/ Ends(c)) /\ UNCHANGED screen

(* One round of readline's loop.                                           *)
readline_char(c) ==
  \/ /\ Erase(c) /\ Echo("BS")
     /\ line' = SubSeq(line, 1, Len(line) - 1) /\ UNCHANGED mode
  \/ Insert(c) /\ Echo(c) /\ line' = Append(line, c) /\ UNCHANGED mode
  \/ Ends(c) /\ Echo("NL") /\ mode' = "print" /\ UNCHANGED line
  \/ Ignored(c) /\ UNCHANGED <<mode, line>>

(* getchar takes a byte from the keyboard; Ctrl-Alt-Del restarts the       *)
(* machine.                                                                *)
kbd_byte ==
  /\ mode = "read" /\ scan # <<>>
  /\ LET r == kbd_proc_data(shift, Head(scan)) IN
       /\ shift' = r.shift /\ scan' = Tail(scan)
       /\ IF Reboots(r) THEN mode' = "rebooted" /\ UNCHANGED <<screen, line>>
          ELSE IF r.c = NO THEN UNCHANGED <<screen, mode, line>>
          ELSE readline_char(r.c)
  /\ UNCHANGED <<held, start>>

(* getchar takes a character from the serial port, where rubout exists.    *)
serial_char ==
  /\ mode = "read"
  /\ \E c \in Serial : readline_char(c)
  /\ UNCHANGED <<keyboard, start>>

TerminalNext ==
  \/ \E c \in Printed : cputchar(c)
  \/ readline_call \/ kbd_byte \/ serial_char
  \/ mode = "read" /\ KeyMoves /\ UNCHANGED <<screen, mode, line, start>>

TerminalSpec == TerminalInit /\ [][TerminalNext]_terminal_vars

----------------------------------------------------------------------------
TerminalTypeOK ==
  /\ CgaTypeOK
  /\ held \subseteq Key /\ scan \in Seq(0 .. 255)
  /\ shift \subseteq {"SHIFT", "CTL", "ALT", "CAPSLOCK", "NUMLOCK", "E0ESC"}
  /\ mode \in {"print", "read", "rebooted"}
  /\ line \in Seq(Glyph) /\ Len(line) < BUFLEN
  /\ start \in Nat

(* While readline runs, the display shows the line it will return, from    *)
(* where it began up to the cursor and no further, whatever was erased and *)
(* however often the display has scrolled since.                           *)
EchoShowsLine ==
  /\ TerminalTypeOK
  /\ mode = "read" =>
       /\ RollPos = start + Len(line)
       /\ \A n \in DOMAIN line : Roll[start + n] = line[n]
============================================================================
