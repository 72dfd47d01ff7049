------------------------------ MODULE MCFormat ------------------------------
(* Small calls for Format: an int of 5 bits, a long long of 6. *)
EXTENDS Format

MCCharacters == Punctuation \cup ToSet(DigitChar) \cup ToSet(error_string)
                \cup Conversions \cup {"h", "i", "z", "BEL"}

Piece(conv, f, alt, width, prec, st, l, num, word) ==
  [conv |-> conv, flag |-> f, alt |-> alt, width |-> width, prec |-> prec,
   star |-> st, long |-> l, num |-> num, word |-> word]
Bare(conv, num, word) == Piece(conv, Blank, FALSE, NULL, NULL, FALSE, 0, num, word)
Text(c) == Bare("text", 0, <<c>>)

\* Padding a number with '-' is left out: the code pads it on the left.
AnyNumbers ==
  {Piece(conv, f, FALSE, width, NULL, st, l, num, <<>>) :
     conv \in {"d", "u", "o", "x"}, f \in {Blank, "0"}, width \in {NULL, 1, 3, 10},
     st \in BOOLEAN, l \in {0, 2}, num \in {0, 1, 16, 31}}
  \cup {Piece("d", Blank, FALSE, width, NULL, TRUE, 2, num, <<>>) :
          width \in {-1, 2}, num \in {32, 63, 13}}
  \cup {Piece("x", f, FALSE, 2, NULL, FALSE, l, 5, <<>>) : f \in {Blank, "0"}, l \in {1, 3}}
  \cup {Piece("p", Blank, FALSE, width, NULL, FALSE, 0, num, <<>>) : width \in {NULL, 3}, num \in {0, 7}}
Numbers == {p \in AnyNumbers : ~ PaddedNegative(p)}

Strings ==
  {Piece("s", f, alt, width, prec, st, 0, 0, word) :
     f \in {Blank, "0", "-"}, alt \in BOOLEAN, width \in {NULL, 2, 3}, prec \in {NULL, 1, 3},
     st \in BOOLEAN, word \in {<<>>, <<"h", "BEL">>, NULL}}
  \cup {Piece("s", "-", FALSE, 2, prec, TRUE, 0, 0, <<"h", "i">>) : prec \in {-1, 0}}

Others ==
  {Bare("c", 0, <<c>>) : c \in {"h", "NUL"}} \cup {Bare("%", 0, <<>>)}
  \cup {Bare("e", num, <<>>) : num \in {0, 1, 3, 7, 12, 16, 29, 31}}
  \cup {Piece(conv, f, FALSE, width, NULL, FALSE, l, 0, <<>>) :
          conv \in {"z", "end"}, f \in {Blank, "-"}, width \in {NULL, 3}, l \in {0, 1}}

Unfinished == {p \in Others : p.conv = "end"}

\* A conversion at the end of the format, and one before another piece, which
\* must not see its flags.
MCCalls ==
  {<<Text("h"), p>> : p \in Numbers \cup Strings \cup Others}
  \cup {<<p, q>> : p \in (Numbers \cup Strings \cup Others) \ Unfinished,
                   q \in {Text("h"), Bare("d", 6, <<>>), Bare("s", 0, <<"h", "BEL">>)}}

MCPlaces == {[kind |-> "cons", n |-> 0], [kind |-> "user", n |-> 0]}
            \cup {[kind |-> "buffer", n |-> n] : n \in {0, 1, 3}}
            \cup {[kind |-> "null", n |-> 3]}
=============================================================================
