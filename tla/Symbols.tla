------------------------------- MODULE Symbols -------------------------------
(***************************************************************************)
(* debuginfo_eip of kern/kdebug.c: three searches, each in the region that *)
(* the one before has found: the source file of an address, the function   *)
(* in the file, the line in the function.                                  *)
(***************************************************************************)
EXTENDS Stab

CONSTANT Unterminated  \* the tables whose string table is empty or has no NUL at its end

ASSUME SymbolsAssumption == Unterminated \subseteq Tables

VARIABLES stage,        \* which search is under way: "file", "fun", "line"
          lfile, rfile, lfun, rfun,
          info,         \* *info: indices of the entries, -1 for "<unknown>"
          eip           \* the address asked for

dvars == <<stage, lfile, rfile, lfun, rfun, info, eip>>

Unknown(a) == [file |-> -1, line |-> -1, fn |-> -1, addr |-> a, narg |-> 0, ret |-> 0]

NoLookup ==
  /\ stage = "none" /\ lfile = 0 /\ rfile = 0 /\ lfun = 0 /\ rfun = 0
  /\ info = Unknown(0) /\ eip = 0

Forgotten ==
  /\ Forget
  /\ stage' = "none" /\ lfile' = 0 /\ rfile' = 0 /\ lfun' = 0 /\ rfun' = 0
  /\ info' = Unknown(0) /\ eip' = 0

\* The call, with the tables of the kernel or of a program: a bad string table
\* is an answer at once.
debuginfo_eip(a, table) ==
  /\ stabs' = table /\ eip' = a
  /\ \/ /\ table \notin Unterminated
        /\ info' = Unknown(a) /\ stage' = "file"
        /\ Search(0, Cardinality(DOMAIN table) - 1, "SO", a)
     \/ /\ table \in Unterminated
        /\ info' = [Unknown(a) EXCEPT !.ret = -1] /\ stage' = "none"
        /\ Forget /\ pc' = "answer"
  /\ UNCHANGED <<lfile, rfile, lfun, rfun>>

Found(s) == pc = "found" /\ stage = s
Return(i) == info' = i /\ pc' = "answer" /\ UNCHANGED <<svars, stage, eip>>

no_file ==
  /\ Found("file") /\ region_left = 0
  /\ Return([info EXCEPT !.ret = -1])
  /\ UNCHANGED <<lfile, rfile, lfun, rfun>>

file_found ==
  /\ Found("file") /\ region_left # 0
  /\ lfile' = region_left /\ rfile' = region_right
  /\ stage' = "fun" /\ Search(region_left, region_right, "FUN", eip)
  /\ UNCHANGED <<stabs, lfun, rfun, info, eip>>

\* Lines count from the start of their function.
Absolute(a) == a                        \* Mutant: addr -= info->eip_fn_addr is missing.
Offset(a) == a - stabs[region_left].value

fun_found ==
  /\ Found("fun") /\ region_left <= region_right
  /\ lfun' = region_left /\ rfun' = region_right
  /\ info' = [info EXCEPT !.fn = region_left, !.addr = stabs[region_left].value]
  /\ stage' = "line" /\ Search(region_left, region_right, "SLINE", Offset(eip))
  /\ UNCHANGED <<stabs, lfile, rfile, eip>>

\* An assembly file has no functions: search all of it, for the address itself.
no_fun ==
  /\ Found("fun") /\ region_left > region_right
  /\ lfun' = region_left /\ rfun' = region_right
  /\ stage' = "line" /\ Search(lfile, rfile, "SLINE", eip)
  /\ UNCHANGED <<stabs, lfile, rfile, info, eip>>

no_line ==
  /\ Found("line") /\ region_right < region_left
  /\ Return([info EXCEPT !.ret = -1])
  /\ UNCHANGED <<lfile, rfile, lfun, rfun>>

\* Back from the line to the entry that names its file.
NamesFile(i) == stabs[i].type = "SOL" \/ (stabs[i].type = "SO" /\ stabs[i].value # 0)
FileOf(line) ==
  LET named == {i \in lfile .. line : NamesFile(i)}
  IN IF named = {} THEN -1 ELSE CHOOSE i \in named : \A j \in named : j <= i

\* The parameters follow the function, up to the first entry of another type.
Args ==
  IF lfun >= rfun THEN 0
  ELSE Cardinality({i \in lfun + 1 .. rfun - 1 :
                      \A j \in lfun + 1 .. i : stabs[j].type = "PSYM"})

line_found ==
  /\ Found("line") /\ region_left <= region_right
  /\ Return([info EXCEPT !.line = region_left, !.file = FileOf(region_left), !.narg = Args])
  /\ UNCHANGED <<lfile, rfile, lfun, rfun>>

lookup ==
  \/ stab_binsearch /\ UNCHANGED dvars
  \/ no_file \/ file_found \/ fun_found \/ no_fun \/ no_line \/ line_found

-----------------------------------------------------------------------------
LastOf(S) == CHOOSE i \in S : \A j \in S : j <= i
Entries(t, from, to) == {i \in from .. to : stabs[i].type = t}
UpTo(S, a) == {i \in S : stabs[i].value <= a}
\* The end of the part that begins at i, when parts begin at S and all ends at end.
PartEnd(S, i, end) == LET later == {j \in S : j > i} IN
                      IF later = {} THEN end
                      ELSE (CHOOSE j \in later : \A k \in later : j <= k) - 1
\* Addresses in order, equal or at least two bytes apart.
Regular(S) == \A i, j \in S : i < j => stabs[i].value = stabs[j].value
                                        \/ stabs[i].value + 1 < stabs[j].value

\* An address belongs to the last file at or below it, the last function of that
\* file at or below it, and the last line of that function at or below its
\* offset.  Inside a function, debuginfo_eip names the function, the line, the
\* file the line comes from (also one that was included) and the number of
\* parameters; in a file without functions, the line and the file; below the
\* first file, and with a string table that is not valid, it fails.  Entries lie
\* two bytes apart, a file with functions starts with one and does not lie at
\* address 0, and the parameters of a function come first in it.
\* (debuginfo_eip, stab_binsearch)
NamesTheLine ==
  pc = "answer" =>
    LET end == Cardinality(DOMAIN stabs) - 1
        files == Entries("SO", 0, end)
        file == LastOf(UpTo(files, eip))
        fileEnd == PartEnd(files, file, end)
        funs == Entries("FUN", file, fileEnd)
        fun == LastOf(UpTo(funs, eip))
        from == IF funs # {} THEN fun ELSE file
        to == IF funs # {} THEN PartEnd(funs, fun, fileEnd) ELSE fileEnd
        base == IF funs # {} THEN stabs[fun].value ELSE 0
        lines == Entries("SLINE", from, to)
        params == Entries("PSYM", from, to)
    IN Regular(files) =>
         IF stabs \in Unterminated \/ UpTo(files, eip) = {} THEN info.ret = -1
         ELSE /\ Regular(funs) /\ (funs # {} => UpTo(funs, eip) # {})
              /\ Regular(lines) /\ UpTo(lines, eip - base) # {}
              /\ stabs[file].value # 0
              /\ funs # {} => \A i \in params : from + 1 .. i \subseteq params
              => /\ info.ret = 0
                 /\ info.line = LastOf(UpTo(lines, eip - base))
                 /\ info.fn = IF funs # {} THEN fun ELSE -1
                 /\ info.addr = IF funs # {} THEN base ELSE eip
                 /\ info.file = LastOf(Entries("SO", from, info.line) \cup {file}
                                       \cup Entries("SOL", file, info.line))
                 /\ info.narg = IF funs # {} THEN Cardinality(params) ELSE 0
=============================================================================
