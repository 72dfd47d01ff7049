------------------------------- MODULE Format -------------------------------
(***************************************************************************)
(* vprintfmt of lib/printfmt.c and the three places its characters go to:  *)
(* the console (kern/printf.c), the buffer that user programs print        *)
(* through (lib/printf.c) and the caller's buffer (vsnprintf).             *)
(*                                                                         *)
(* One behaviour is one call.  The caller has a list of pieces in mind,    *)
(* each a plain character or a conversion with its argument; it spells     *)
(* them out as fmt and ap, and the code, which reads fmt character by      *)
(* character, must produce the text of the pieces.  Characters and error   *)
(* texts are symbols; an int has IntSize values and a long long LongSize.  *)
(***************************************************************************)
EXTENDS Integers, FiniteSets, SequencesExt

CONSTANTS
  Characters, \* the characters and error texts
  Calls,      \* the calls: sequences of pieces
  Places,     \* where the text goes ("null": vsnprintf without a buffer), and the buffer's size
  PrintMax,   \* 256 - 1: the user's buffer is flushed when it has so many
  IntSize,    \* 2^32
  LongSize,   \* 2^64
  NULL        \* no string

ASSUME BufferAssumption ==
  PrintMax \in Nat \ {0} /\ Places \subseteq [kind : {"cons", "user", "buffer", "null"}, n : Int]
ASSUME WidthAssumption ==
  /\ IntSize \in Nat /\ LongSize \in Nat /\ IntSize <= LongSize /\ IntSize % 2 = 0
  /\ NULL \notin Int

E_INVAL == 3
MAXERROR == 8

\* The texts of lib/printfmt.c; the enumeration has one more, E_NO_SYS.
error_string ==
  <<"unspecified error", "bad environment", "invalid parameter",
    "out of memory", "out of environments", "segmentation fault">>

DigitChar == <<"0", "1", "2", "3", "4", "5", "6", "7",
               "8", "9", "a", "b", "c", "d", "e", "f">>
Blank == " "
Decimal == {"0", "1", "2", "3", "4", "5", "6", "7", "8", "9"}
ValueOf(c) == (CHOOSE i \in 1 .. 16 : DigitChar[i] = c) - 1
Unprintable == {"NUL", "NL", "BEL"}
Punctuation == {"NUL", Blank, "%", "-", "#", ".", "*", "?", "(", ")", "l", "n", "u", "x", "error"}

ASSUME CharacterAssumption ==
  Punctuation \cup ToSet(DigitChar) \cup ToSet(error_string) \subseteq Characters

Signed(x, size) == IF x < size \div 2 THEN x ELSE x - size
Size(lflag) == IF lflag >= 2 THEN LongSize ELSE IntSize
Copies(c, n) == IF n > 0 THEN [i \in 1 .. n |-> c] ELSE <<>>

-----------------------------------------------------------------------------
\* What the caller means.  A piece is a conversion with its flag, width, precision
\* and argument, which is num or, for strings and characters, word; a plain
\* character has conv = "text", an unfinished conversion conv = "end".  NULL stands
\* for "not given".  A width has no bound: below 2^31 the code's int does not overflow.
Pieces ==
  [conv : Characters \cup {"text", "end"}, flag : {Blank, "-", "0"}, alt : BOOLEAN,
   width : Int \cup {NULL}, prec : Int \cup {NULL}, star : BOOLEAN, long : Nat,
   num : Nat, word : Seq(Characters) \cup {NULL}]
Given(n) == n # NULL
Conversions == {"c", "e", "s", "d", "u", "o", "x", "p", "%"}
Known == Conversions \cup Decimal \cup {"-", "#", ".", "l", "*"}

Power(base, k) ==
  LET power[i \in 0 .. k] == IF i = 0 THEN 1 ELSE base * power[i - 1]
  IN power[k]

\* Positional notation: the digits of num, as many as it needs.
Positional(num, base) ==
  LET n == CHOOSE k \in 1 .. num + 1 :
             num < Power(base, k) /\ (k > 1 => num >= Power(base, k - 1))
  IN [i \in 1 .. n |-> DigitChar[((num \div Power(base, n - i)) % base) + 1]]

\* A number as the caller reads it, and one that is negative and wider than its digits.
Argument(p) == Signed(p.num, Size(p.long))
Numeral(int) == IF int < 0 THEN <<"-">> \o Positional(-int, 10) ELSE Positional(int, 10)
PaddedNegative(p) ==
  /\ p.conv = "d" /\ Argument(p) < 0
  /\ Given(p.width) /\ p.width > Len(Positional(-Argument(p), 10))

\* What callers keep to: a width or precision does not begin with 0, which would be
\* a flag; numbers fit their type and are not padded with "-", which the code would
\* put in front of them; a negative number is not padded at all, as the code would put
\* its sign in front of the padding, one column too many; a plain character is not
\* "%"; only the end of the format leaves a conversion unfinished.
Sensible(p) ==
  /\ ~ p.star => \A n \in {p.width, p.prec} : Given(n) => n > 0
  /\ p.conv \in {"d", "u", "o", "x", "p"} => p.flag # "-"
  /\ p.conv \in {"d", "u", "o", "x"} => p.num < Size(p.long)
  /\ ~ PaddedNegative(p)
  /\ p.conv = "e" => p.num < IntSize /\ p.long < 2
  /\ p.conv \in {"text", "c"} => p.word # NULL /\ Len(p.word) = 1
  /\ p.conv = "text" => p.word[1] \notin {"%", "NUL"} /\ ~ p.star
  /\ p.conv \in Known \cup {"NUL"} => p.conv \in Conversions

ASSUME PieceAssumption ==
  \A call \in Calls :
    /\ call \in Seq(Pieces)
    /\ \A i \in DOMAIN call : Sensible(call[i]) /\ (call[i].conv = "end" => i = Len(call))

\* A number as the caller spells it: digits, or "*" and an argument.
SpellNumber(p, n) == IF p.star THEN <<"*">> ELSE Positional(n, 10)
Spell(p) ==
  IF p.conv = "text" THEN p.word
  ELSE <<"%">> \o (IF p.flag = Blank THEN <<>> ELSE <<p.flag>>)
       \o (IF p.alt THEN <<"#">> ELSE <<>>)
       \o (IF Given(p.width) THEN SpellNumber(p, p.width) ELSE <<>>)
       \o (IF Given(p.prec) THEN <<".">> \o SpellNumber(p, p.prec) ELSE <<>>)
       \o Copies("l", p.long) \o (IF p.conv = "end" THEN <<>> ELSE <<p.conv>>)

Args(p) ==
  (IF p.star /\ Given(p.width) THEN <<p.width>> ELSE <<>>)
  \o (IF p.star /\ Given(p.prec) THEN <<p.prec>> ELSE <<>>)
  \o (CASE p.conv = "c" -> p.word
        [] p.conv = "s" -> <<p.word>>
        [] p.conv \in {"e", "d", "u", "o", "p", "x"} -> <<p.num>>
        [] OTHER -> <<>>)

\* A text in a field: padded with the flag on the left, with spaces on the right.
Field(p, text) ==
  LET pad == IF Given(p.width) THEN p.width - Len(text) ELSE 0
  IN IF p.flag = "-" THEN text \o Copies(Blank, pad) ELSE Copies(p.flag, pad) \o text

\* An error code means the same with either sign; the smallest int has no other sign.
Smallest == -(IntSize \div 2)
Meant(p) ==
  LET word == IF p.word = NULL THEN <<"(", "n", "u", "l", "l", ")">> ELSE p.word
      kept == IF Given(p.prec) /\ p.prec >= 0 /\ p.prec < Len(word)
              THEN SubSeq(word, 1, p.prec) ELSE word
      int == Argument(p)
      err == IF int < 0 /\ int # Smallest THEN -int ELSE int
  IN CASE p.conv \in {"text", "c"} -> p.word
       [] p.conv = "%" -> <<"%">>
       [] p.conv = "e" -> IF err \in DOMAIN error_string THEN <<error_string[err]>>
                          ELSE <<"error">> \o Numeral(err)
       [] p.conv = "s" -> Field(p, [i \in DOMAIN kept |->
                            IF p.alt /\ kept[i] \in Unprintable THEN "?" ELSE kept[i]])
       [] p.conv = "d" -> Field(p, Numeral(int))
       [] p.conv = "u" -> Field(p, Positional(p.num, 10))
       [] p.conv = "o" -> Field(p, Positional(p.num, 8))
       [] p.conv = "x" -> Field(p, Positional(p.num, 16))
       [] p.conv = "p" -> <<"0", "x">> \o Field(p, Positional(p.num, 16))
       [] OTHER -> Spell(p)                     \* not a conversion: as it stands

-----------------------------------------------------------------------------
VARIABLES
  pieces,  \* of this call
  place,   \* where the text goes
  fmt, pos,\* the format and the position of the next character in it
  ap,      \* the arguments not yet taken
  spec,    \* padc, width, precision, lflag, altflag of the conversion being read
  mode,    \* "text", "spec" after a '%', "done"
  pending, \* the characters that are about to be put
  text,    \* auxiliary: the characters that have been put
  out      \* [shown, buf, cnt, ret]: shown by the console, waiting, counted, returned

format_vars == <<pieces, place, fmt, pos, ap, spec, mode, pending, text, out>>

Fresh == [padc |-> Blank, width |-> -1, precision |-> -1, lflag |-> 0, altflag |-> FALSE]

FormatInit ==
  /\ pieces \in Calls /\ place \in Places
  /\ fmt = FlattenSeq([i \in DOMAIN pieces |-> Spell(pieces[i])])
  /\ ap = FlattenSeq([i \in DOMAIN pieces |-> Args(pieces[i])])
  /\ pos = 1 /\ spec = Fresh /\ text = <<>> /\ pending = <<>>
  /\ mode = IF place.kind = "null" \/ (place.kind = "buffer" /\ place.n < 1) THEN "done" ELSE "text"
  /\ out = [shown |-> <<>>, buf |-> <<>>, cnt |-> 0,
            ret |-> IF mode = "done" THEN -E_INVAL ELSE 0]

ch == IF pos <= Len(fmt) THEN fmt[pos] ELSE "NUL"
InText == mode = "text" /\ pending = <<>>
InSpec == mode = "spec" /\ pending = <<>>

\* sys_cputs shows a buffer with "%.*s", which stops at a NUL.
sys_cputs(b) ==
  LET nul == {i \in DOMAIN b : b[i] = "NUL"}
  IN IF nul = {} THEN b ELSE SubSeq(b, 1, Min(nul) - 1)

\* The three putch functions, called with a character c.
\* `*cnt++` of the kernel's putch advances the pointer: the count stays 0.
putch_kern(c) == out' = [out EXCEPT !.shown = Append(@, c)]

\* One more character is counted.
Counted(s, b) == out' = [shown |-> s, buf |-> b, cnt |-> out.cnt + 1, ret |-> out.ret]

putch_user_keeps(c) ==                  \* Mutant: idx is not reset after the flush.
  LET b == Append(out.buf, c)
  IN Counted(IF Len(b) = PrintMax THEN out.shown \o sys_cputs(b) ELSE out.shown, b)

putch_user(c) ==
  LET b == Append(out.buf, c)
  IN IF Len(b) = PrintMax THEN Counted(out.shown \o sys_cputs(b), <<>>) ELSE Counted(out.shown, b)

sprintputch_full(c) ==                  \* Mutant: no room is kept for the NUL.
  Counted(out.shown, IF Len(out.buf) < place.n THEN Append(out.buf, c) ELSE out.buf)

\* b.buf < b.ebuf = buf + n - 1
sprintputch(c) ==
  Counted(out.shown, IF Len(out.buf) < place.n - 1 THEN Append(out.buf, c) ELSE out.buf)

\* The calls of putch that the current step of vprintfmt makes, one by one.
putch ==
  /\ mode # "done" /\ pending # <<>>
  /\ pending' = Tail(pending) /\ text' = Append(text, Head(pending))
  /\ \/ place.kind = "cons" /\ putch_kern(Head(pending))
     \/ place.kind = "user" /\ putch_user(Head(pending))
     \/ place.kind = "buffer" /\ sprintputch(Head(pending))
  /\ UNCHANGED <<pieces, place, fmt, pos, ap, spec, mode>>

Emit(chars) == pending' = chars /\ UNCHANGED <<text, out>>

-----------------------------------------------------------------------------
\* The recursion of printnum: the pads come before the first digit.
Pads(width, padc) == Copies(padc, width - 1)          \* while (--width > 0)

printnum(num, base, width, padc) ==
  LET print[n \in Nat] ==
        [w \in Int |-> (IF n >= base THEN print[n \div base][w - 1] ELSE Pads(w, padc))
                       \o <<DigitChar[(n % base) + 1]>>]
  IN print[num][width]

getuint(arg) == arg % Size(spec.lflag)
getint(arg) == Signed(getuint(arg), Size(spec.lflag))

strnlen(s, size) == IF size >= 0 /\ size < Len(s) THEN size ELSE Len(s)

\* case 's': pad, copy until the NUL or the precision, pad.
StringText(p) ==
  LET s == IF p = NULL THEN <<"(", "n", "u", "l", "l", ")">> ELSE p
      left == IF spec.width > 0 /\ spec.padc # "-" THEN spec.width - strnlen(s, spec.precision) ELSE 0
      copied == IF spec.precision < 0 \/ Len(s) < spec.precision THEN Len(s) ELSE spec.precision
      rest == IF spec.width > 0 /\ spec.padc # "-" THEN 0 ELSE spec.width - copied
  IN Copies(spec.padc, left)
     \o [i \in 1 .. copied |-> IF spec.altflag /\ s[i] \in Unprintable THEN "?" ELSE s[i]]
     \o Copies(Blank, rest)

\* err = -err in an int: the smallest one stays as it is.
Negated(int) == Signed((-int) % IntSize, IntSize)

\* case 'e': the sign does not matter; no text is "error %d", a call of its own.  The
\* smallest int is still negative here: with 32 bits its entry wraps to entry 0, which
\* has no text, and a build that compares unsigned finds it too large: a number both ways.
ErrorText(int) ==
  LET err == IF int < 0 THEN Negated(int) ELSE int
      number == IF err < 0 THEN <<"-">> \o printnum(-err, 10, -1, Blank)
                ELSE printnum(err, 10, -1, Blank)
  IN IF err >= MAXERROR \/ err \notin DOMAIN error_string
     THEN <<"error">> \o number ELSE <<error_string[err]>>

NumberText(num, base) == printnum(num, base, spec.width, spec.padc)

-----------------------------------------------------------------------------
\* Ordinary characters, and the '%' that starts a conversion.
plain ==
  /\ InText /\ ch \notin {"%", "NUL"}
  /\ Emit(<<ch>>) /\ pos' = pos + 1
  /\ UNCHANGED <<pieces, place, fmt, ap, spec, mode>>

percent_keeps ==                        \* Mutant: the locals keep their values.
  /\ InText /\ ch = "%"
  /\ mode' = "spec" /\ pos' = pos + 1
  /\ UNCHANGED <<pieces, place, fmt, ap, spec, pending, text, out>>

percent ==
  /\ InText /\ ch = "%"
  /\ mode' = "spec" /\ spec' = Fresh /\ pos' = pos + 1
  /\ UNCHANGED <<pieces, place, fmt, ap, pending, text, out>>

\* What the callers do after the end of the format: vcprintf of the kernel, of
\* programs, and vsnprintf.
Returned(s, b) == out' = [shown |-> s, buf |-> b, cnt |-> out.cnt, ret |-> out.cnt]
kern_return == place.kind = "cons" /\ UNCHANGED out
user_return == place.kind = "user" /\ Returned(out.shown \o sys_cputs(out.buf), out.buf)
buffer_return == place.kind = "buffer" /\ Returned(out.shown, Append(out.buf, "NUL"))

finish ==
  /\ InText /\ ch = "NUL"
  /\ mode' = "done"
  /\ kern_return \/ user_return \/ buffer_return
  /\ UNCHANGED <<pieces, place, fmt, pos, ap, spec, pending, text>>

\* One turn of reswitch that only changes the locals; it reads n characters.
Reswitch(new, n) ==
  /\ spec' = new /\ pos' = pos + n
  /\ UNCHANGED <<pieces, place, fmt, mode, pending, text, out>>

flag ==
  /\ InSpec /\ ch \in {"-", "0"}
  /\ Reswitch([spec EXCEPT !.padc = ch], 1) /\ UNCHANGED ap

alternate ==
  /\ InSpec /\ ch = "#"
  /\ Reswitch([spec EXCEPT !.altflag = TRUE], 1) /\ UNCHANGED ap

dot ==
  /\ InSpec /\ ch = "."
  /\ Reswitch([spec EXCEPT !.width = IF @ < 0 THEN 0 ELSE @], 1) /\ UNCHANGED ap

long ==
  /\ InSpec /\ ch = "l"
  /\ Reswitch([spec EXCEPT !.lflag = @ + 1], 1) /\ UNCHANGED ap

\* process_precision: the first number is the width, a later one the precision.
Precision(n) ==
  IF spec.width < 0 THEN [spec EXCEPT !.width = n, !.precision = -1]
  ELSE [spec EXCEPT !.precision = n]

\* The digits of s from i to j, one after the other.
Number(s, i, j) ==
  LET precision[k \in i - 1 .. j] ==
        IF k = i - 1 THEN 0 ELSE precision[k - 1] * 10 + ValueOf(s[k])
  IN precision[j]

digits ==
  LET run == {k \in pos .. Len(fmt) : \A i \in pos .. k : fmt[i] \in Decimal}
  IN /\ InSpec /\ ch \in Decimal \ {"0"}
     /\ Reswitch(Precision(Number(fmt, pos, Max(run))), Cardinality(run))
     /\ UNCHANGED ap

star ==
  /\ InSpec /\ ch = "*"
  /\ Reswitch(Precision(Head(ap)), 1) /\ ap' = Tail(ap)

\* A conversion: print, take the argument if there is one, back to the text.
Convert(chars, rest) ==
  /\ Emit(chars) /\ ap' = rest
  /\ mode' = "text" /\ pos' = pos + 1
  /\ UNCHANGED <<pieces, place, fmt, spec>>

character == InSpec /\ ch = "c" /\ Convert(<<Head(ap)>>, Tail(ap))
error == InSpec /\ ch = "e" /\ Convert(ErrorText(Signed(Head(ap), IntSize)), Tail(ap))
string == InSpec /\ ch = "s" /\ Convert(StringText(Head(ap)), Tail(ap))

signed ==
  LET num == getint(Head(ap))
  IN /\ InSpec /\ ch = "d"
     /\ Convert(IF num < 0 THEN <<"-">> \o NumberText(-num, 10) ELSE NumberText(num, 10), Tail(ap))

unsigned ==
  \E base \in {8, 10, 16} :
    /\ InSpec /\ ch = CASE base = 8 -> "o" [] base = 10 -> "u" [] base = 16 -> "x"
    /\ Convert(NumberText(getuint(Head(ap)), base), Tail(ap))

pointer == InSpec /\ ch = "p" /\ Convert(<<"0", "x">> \o NumberText(Head(ap), 16), Tail(ap))
escaped == InSpec /\ ch = "%" /\ Convert(<<"%">>, ap)

\* default: print the '%' and go back to the character after it.
BackNot(i) == pos + 1                   \* Mutant: not back at all.
Back(i) == i

unrecognized ==
  LET last == Max({i \in 1 .. pos - 1 : fmt[i] = "%"})
  IN /\ InSpec /\ ch \notin Known
     /\ Emit(<<"%">>) /\ pos' = Back(last + 1) /\ mode' = "text"
     /\ UNCHANGED <<pieces, place, fmt, ap, spec>>

vprintfmt ==
  \/ plain \/ percent \/ finish
  \/ flag \/ alternate \/ dot \/ long \/ digits \/ star
  \/ character \/ error \/ string \/ signed \/ unsigned \/ pointer \/ escaped
  \/ unrecognized

FormatNext == vprintfmt \/ putch
FormatSpec == FormatInit /\ [][FormatNext]_format_vars /\ WF_format_vars(FormatNext)

-----------------------------------------------------------------------------
\* The text is that of the pieces: every conversion gets its own flags and
\* arguments, numbers and strings are padded to their width, an error code reads
\* the same with either sign, and what is no conversion is printed as it stands,
\* for calls that are Sensible.  (vprintfmt, printnum)
TextExact ==
  mode = "done" /\ out.ret >= 0 =>
    text = FlattenSeq([i \in DOMAIN pieces |-> Meant(pieces[i])])

\* Nothing is lost, doubled or reordered on the way to the console, whether
\* the text fits the user's buffer, fills it, or fills it several times; only
\* what follows a NUL in a buffer is not shown.  vsnprintf writes at most n
\* characters, the last of them NUL, in front of it what fits of the text, and
\* returns how long the text is.  (the putch functions and their callers)
TextArrives ==
  LET sent == out.shown \o (IF mode = "done" THEN <<>> ELSE out.buf)
  IN /\ place.kind = "cons" => out.shown = text
     /\ place.kind = "user" =>
          /\ Len(out.buf) < PrintMax
          /\ "NUL" \notin ToSet(text) => sent = text
          /\ mode = "done" => out.ret = Len(text)
     /\ place.kind = "buffer" =>
          /\ Len(out.buf) <= IF place.n < 0 THEN 0 ELSE place.n
          /\ mode = "done" /\ out.ret >= 0 =>
               /\ out.ret = Len(text) /\ Last(out.buf) = "NUL"
               /\ Front(out.buf) = SubSeq(text, 1, Min({Len(text), place.n - 1}))

\* No format makes vprintfmt run for ever or past the end of the format, also
\* one that ends in the middle of a conversion.
FormatEnds == <>(mode = "done" /\ pos <= Len(fmt) + 1)
=============================================================================
