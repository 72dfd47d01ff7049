----------------------------- MODULE MCMonitor -----------------------------
(* Four pages of two words, lines of the commands with numbers of one or   *)
(* two digits, symbol tables of up to twelve entries.                      *)
EXTENDS Monitor

HexDigits == <<"0", "1", "2", "3", "4", "5", "6", "7", "8", "9", "a", "b", "c", "d", "e", "f">>
Num(n) == IF n < 16 THEN <<HexDigits[n + 1]>>
          ELSE <<HexDigits[(n \div 16) + 1], HexDigits[(n % 16) + 1]>>
S == <<" ">>
Numbers == {Num(n) : n \in {0, 1, 4, 6, 8, 13, 16, 23, 24, 28, 31}}
Odd == {<<"-", "1">>, <<"0", "x", "8">>, <<"+">>, <<"z">>, <<"8", "z">>, <<"1", "C">>, <<"1", "1", "0">>}

\* Three sessions: lines that are hard to cut, backtraces, and the commands
\* that look at kern_pgdir and change it, in any order.
Cutting ==
  {[i \in 1 .. 6 |-> IF i \in blanks THEN IF i \in tabs THEN "\t" ELSE " " ELSE "z"] :
     blanks \in SUBSET (1 .. 6), tabs \in {{}, {1, 2, 3}}}
  \cup {<<c>> : c \in (Names \ {"backtrace"}) \cup {"z", " "}} \cup {<<>>}
  \cup {<<"sm", "\t", "8", "\t", " ", "1", "0", " ">>,
        <<"pgmod", " ", "8", " ", "1", " ", "0", " ", "0">>,
        <<"z", " ", "z", " ", "z", " ", "z", " ", "z", " ", "z">>}
Looking ==
  {<<c>> \o S \o n : c \in RangeCommands, n \in Numbers \cup Odd}
  \cup {<<c>> \o S \o n \o S \o k : c \in RangeCommands, n \in Numbers, k \in Numbers}
  \cup {<<"pgmod">> \o S \o n \o S \o u \o S \o w :
          n \in {<<"0">>, <<"1", "0">>, <<"3">>}, u \in {<<"0">>, <<"2">>},
          w \in {<<"0">>, <<"1">>, <<"z">>}}
E(p, n) == [P |-> p, page |-> n, U |-> FALSE, W |-> p]
Plain == [d \in 0 .. 1 |-> IF d = 0 THEN [t \in 0 .. 1 |-> E(t = 0, t)] ELSE NoTable]
Full == [d \in 0 .. 1 |-> [t \in 0 .. 1 |-> IF d = 0 THEN E(t = 1, 1) ELSE E(TRUE, 1 + t)]]

MCSessions ==
  [tracing |-> [lines |-> {<<"backtrace">>}, pgdirs |-> {Plain}],
   cutting |-> [lines |-> Cutting, pgdirs |-> {Plain}],
   looking |-> [lines |-> Looking, pgdirs |-> {Plain, Full}]]

\* Symbol tables: a first entry without a type, files at 2 and 10 in which
\* functions or lines follow, the end of the text at 15.
Sym(t, v) == <<[type |-> t, value |-> v]>>
Headed(s) == [i \in 0 .. Len(s) |-> IF i = 0 THEN [type |-> "UNDF", value |-> 0] ELSE s[i]]
Fun(v, nargs, more) ==
  Sym("FUN", v) \o [i \in 1 .. nargs |-> [type |-> "PSYM", value |-> 8]] \o Sym("SLINE", 0) \o more
Middle == {<<>>, Sym("SLINE", 2), Sym("SOL", 4) \o Sym("SLINE", 2) \o Sym("SOL", 5)}
CFiles == {Fun(2, n, more) \o g : n \in 0 .. 2, more \in Middle,
                                  g \in {<<>>} \cup {Fun(6, k, more2) : k \in {0, 2}, more2 \in Middle}}
AsmFile(v) == Sym("SO", v) \o Sym("SLINE", v) \o Sym("SLINE", v + 2)
Programs ==
  {Sym("SO", 2) \o f \o AsmFile(10) \o Sym("SO", 15) : f \in CFiles}
  \cup {Sym("SO", 2) \o Sym("SO", 2) \o f \o Sym("SO", 15) : f \in CFiles}

\* Any five entries, files in order or entries of another type.
Sparse == {[i \in 1 .. 5 |-> [type |-> IF t[i] = 0 THEN "FUN" ELSE "SO", value |-> t[i]]] :
             t \in {u \in [1 .. 5 -> {0, 1, 2, 4, 7}] :
                      \A i, j \in 1 .. 5 : i < j /\ u[i] # 0 /\ u[j] # 0 => u[i] <= u[j]}}

MCTables == {Headed(s) : s \in Programs \cup Sparse} \cup {Headed(AsmFile(v)) : v \in {0, 2}}
MCUnterminated == {Headed(AsmFile(v)) : v \in {0, 2}}

\* Stacks: one frame with any address, no frame, two frames, a frame whose
\* predecessor is not there, and frames that run in a circle at once or later.
Frame(b, a) == [saved_ebp |-> b, eip |-> a]
MCStacks ==
  {[ebp |-> 1, frame |-> <<Frame(0, a)>>] : a \in {1, 2, 3, 4, 5, 7, 8, 11, 14}}
  \cup {[ebp |-> 0, frame |-> <<>>],
        [ebp |-> 2, frame |-> <<Frame(0, 4), Frame(1, 12)>>],
        [ebp |-> 1, frame |-> <<Frame(3, 4)>>],
        [ebp |-> 1, frame |-> <<Frame(1, 4)>>],
        [ebp |-> 3, frame |-> <<Frame(2, 4), Frame(1, 4), Frame(2, 4)>>]}
=============================================================================
