------------------------------- MODULE Monitor -------------------------------
(***************************************************************************)
(* The kernel monitor, kern/monitor.c: runcmd cuts the line in place into  *)
(* words, and the commands read their numbers with strtol, walk over       *)
(* addresses that wrap around, look at kern_pgdir or change it, and follow *)
(* the stack.  A line is a sequence of characters, among which the name of *)
(* a command counts as one; an address has Top values.                     *)
(***************************************************************************)
EXTENDS Symbols, SequencesExt

CONSTANTS
  Sessions,     \* where operators sit: a function from names to [lines, pgdirs],
                \* what they may type and kern_pgdir at the start, which has for
                \* each directory entry NoTable or a table of entries [P, page, U, W]
  MAXARGS,
  Top,          \* 2^32
  PGSIZE, WORD, \* WORD is 4
  NPTE,         \* entries of a page table
  npages,
  NoTable,
  Stacks,       \* the stacks a backtrace may start in: [ebp, frame], where frame is
                \* what the memory has at the frame pointers that can be read
  MaxRows       \* rows that are remembered

ASSUME MonitorAssumption ==
  /\ MAXARGS \in Nat \ {0, 1} /\ {Top, PGSIZE, WORD, NPTE} \subseteq Nat \ {0}
  /\ PGSIZE % WORD = 0 /\ Top % (PGSIZE * NPTE) = 0 /\ npages \in Nat
  /\ MaxRows \in Nat /\ MaxRows * WORD >= Top  \* enough for every range
  /\ \A s \in Stacks :
       /\ s.ebp \in Nat /\ DOMAIN s.frame \subseteq Nat \ {0}
       /\ \A b \in DOMAIN s.frame : s.frame[b].saved_ebp \in Nat /\ s.frame[b].eip \in Nat

PageTable == [0 .. NPTE - 1 -> [P : BOOLEAN, page : Nat, U : BOOLEAN, W : BOOLEAN]]

ASSUME SessionAssumption ==
  /\ NoTable \notin PageTable
  /\ \A s \in DOMAIN Sessions :
       /\ Sessions[s].pgdirs \subseteq
            [0 .. (Top \div (PGSIZE * NPTE)) - 1 -> PageTable \cup {NoTable}]
       /\ \A x \in Sessions[s].lines :
            x \in Seq(STRING) /\ \A i \in DOMAIN x : x[i] # "NUL"

VARIABLES session,    \* auxiliary: which of Sessions this behaviour is
          line,       \* auxiliary: the line as it was typed
          buf, at,    \* the line, which runcmd changes, and its position in it
          argv,       \* where the words start
          va, va_lo, va_hi, \* the loop of a range command
          rows,       \* what it has shown
          kern_pgdir,
          stack, base_pointer  \* the frames in memory, and the next one to show

trace == <<stack, base_pointer>>
mvars == <<session, line, buf, at, argv, va, va_lo, va_hi, rows, kern_pgdir, trace>>
vars == <<svars, dvars, mvars, pc>>
lookup_vars == <<svars, dvars>>
range == <<va, va_lo, va_hi, rows>>

PGNUM(a) == a \div PGSIZE
PDX(a) == PGNUM(a) \div NPTE
PTX(a) == PGNUM(a) % NPTE
ROUNDDOWN(a, n) == a - (a % n)

Init ==
  /\ Idle /\ NoLookup
  /\ session \in DOMAIN Sessions
  /\ line = <<>> /\ buf = <<>> /\ at = 1 /\ argv = <<>>
  /\ va = 0 /\ va_lo = 0 /\ va_hi = 0 /\ rows = <<>>
  /\ stack = <<>> /\ base_pointer = 0
  /\ kern_pgdir \in Sessions[session].pgdirs
  /\ pc = "prompt"

Return0 == pc' = "returned"

-----------------------------------------------------------------------------
\* runcmd: the words of the line.
WHITESPACE == {" ", "\t"}

\* Whether strchr(WHITESPACE, c) is not NULL.
strchr_space(c) == c = " "              \* Mutant: a tab does not separate words.
strchr(c) == c \in WHITESPACE

SkipWhile(b, i, P(_)) ==                \* the first position from i on without P
  CHOOSE j \in i .. Len(b) + 1 :
    /\ \A k \in i .. j - 1 : P(b[k])
    /\ j <= Len(b) => ~ P(b[j])

NextWord == SkipWhile(buf, at, strchr)
Gobbled == SubSeq(buf, 1, at - 1) \o [i \in 1 .. NextWord - at |-> "NUL"]
           \o SubSeq(buf, NextWord, Len(buf))
InWord(c) == ~ strchr(c)

readline ==
  /\ pc = "prompt"
  /\ line' \in Sessions[session].lines /\ buf' = line' /\ at' = 1 /\ argv' = <<>>
  /\ pc' = "parse"
  /\ UNCHANGED <<lookup_vars, session, range, kern_pgdir, trace>>

next_arg ==
  /\ pc = "parse" /\ NextWord <= Len(buf) /\ Len(argv) < MAXARGS - 1
  /\ buf' = Gobbled
  /\ argv' = Append(argv, NextWord)
  /\ at' = SkipWhile(buf, NextWord, InWord)
  /\ UNCHANGED <<lookup_vars, session, line, range, kern_pgdir, trace, pc>>

too_many ==
  /\ pc = "parse" /\ NextWord <= Len(buf) /\ Len(argv) = MAXARGS - 1
  /\ buf' = Gobbled /\ Return0
  /\ UNCHANGED <<lookup_vars, session, line, at, argv, range, kern_pgdir, trace>>

parsed ==
  /\ pc = "parse" /\ NextWord > Len(buf)
  /\ buf' = Gobbled /\ at' = NextWord
  /\ pc' = IF argv = <<>> THEN "returned" ELSE "invoke"
  /\ UNCHANGED <<lookup_vars, session, line, argv, range, kern_pgdir, trace>>

\* A word ends where the parser wrote a NUL, or at the end of the line.
NotNul(c) == c # "NUL"
Word(i) == SubSeq(buf, argv[i], SkipWhile(buf, argv[i], NotNul) - 1)
argc == Len(argv)

-----------------------------------------------------------------------------
\* strtol(s, &end, 16): a sign, a prefix, digits of either case; overflow is not
\* noticed.
Hex == <<{"0"}, {"1"}, {"2"}, {"3"}, {"4"}, {"5"}, {"6"}, {"7"}, {"8"}, {"9"},
         {"a", "A"}, {"b", "B"}, {"c", "C"}, {"d", "D"}, {"e", "E"}, {"f", "F"}>>
IsDigit(c) == \E i \in DOMAIN Hex : c \in Hex[i]
Digit(c) == (CHOOSE i \in DOMAIN Hex : c \in Hex[i]) - 1

strtol(s) ==
  LET neg == s # <<>> /\ s[1] = "-"
      sign == IF s # <<>> /\ s[1] \in {"+", "-"} THEN 1 ELSE 0
      prefix == IF Len(s) >= sign + 2 /\ s[sign + 1] = "0" /\ s[sign + 2] = "x" THEN 2 ELSE 0
      from == sign + prefix + 1
      end == SkipWhile(s, from, IsDigit)
      val[i \in from - 1 .. end - 1] == IF i < from THEN 0 ELSE val[i - 1] * 16 + Digit(s[i])
  IN [val |-> (IF neg THEN -val[end - 1] ELSE val[end - 1]) % Top, end |-> end - 1]

IsNumber(i) == strtol(Word(i)).end # 0  \* arg_end != argv[i]
Number(i) == strtol(Word(i)).val

\* The commands; strcmp with their names.
Command(name) == pc = "invoke" /\ Word(1) = <<name>>
RangeCommands == {"showmappings", "sm", "memxv", "memxp"}
Names == RangeCommands \cup {"help", "kerninfo", "meminfo", "backtrace", "pgmod", "exit"}

unknown ==
  /\ pc = "invoke" /\ \A name \in Names : Word(1) # <<name>>
  /\ Return0 /\ UNCHANGED <<lookup_vars, mvars>>

mon_help == Command("help") /\ Return0 /\ UNCHANGED <<lookup_vars, mvars>>
mon_kerninfo == Command("kerninfo") /\ Return0 /\ UNCHANGED <<lookup_vars, mvars>>
mon_meminfo == Command("meminfo") /\ Return0 /\ UNCHANGED <<lookup_vars, mvars>>
mon_exit == Command("exit") /\ pc' = "left" /\ UNCHANGED <<lookup_vars, mvars>>

\* The arguments of the range commands: one or two numbers in order.
Low == Number(2)
High == IF argc > 2 THEN Number(3) ELSE Low
RangeGiven ==
  /\ argc \in 2 .. 3
  /\ \A i \in 2 .. argc : IsNumber(i)
  /\ High >= Low

bad_range ==
  /\ \E name \in RangeCommands : Command(name)
  /\ ~ RangeGiven
  /\ Return0 /\ UNCHANGED <<lookup_vars, mvars>>

BeginRange(first_va, loop) ==
  /\ RangeGiven
  /\ va' = first_va /\ va_lo' = Low /\ va_hi' = High /\ pc' = loop
  /\ UNCHANGED <<lookup_vars, session, line, buf, at, argv, rows, kern_pgdir, trace>>

\* pgdir_walk(kern_pgdir, a, false)
HasTable(a) == kern_pgdir[PDX(a)] # NoTable
Entry(a) == kern_pgdir[PDX(a)][PTX(a)]
Present(a) == HasTable(a) /\ Entry(a).P

\* The loop that runs is in pc.
Loops == {"showmappings", "memxv", "memxp"}
mon_showmappings ==
  (Command("showmappings") \/ Command("sm")) /\ BeginRange(ROUNDDOWN(Low, PGSIZE), "showmappings")
mon_memxv == Command("memxv") /\ BeginRange(Low, "memxv")
mon_memxp == Command("memxp") /\ BeginRange(Low, "memxp")

More == va <= va_hi                     \* the condition of the three loops
Show(row, step) ==
  /\ rows' = IF Len(rows) < MaxRows THEN Append(rows, row) ELSE rows
  /\ va' = (va + step) % Top
  /\ UNCHANGED <<lookup_vars, session, line, buf, at, argv, va_lo, va_hi, kern_pgdir, trace, pc>>

\* One row of showmappings: the entry, "-no-page-" or "-no-table-".
MappingSwapped(a) ==                    \* Mutant: the two flags change places.
  IF ~ HasTable(a) THEN <<"no table">>
  ELSE IF ~ Entry(a).P THEN <<"no page">>
  ELSE <<"page", Entry(a).page, Entry(a).W, Entry(a).U>>
Mapping(a) ==
  IF ~ HasTable(a) THEN <<"no table">>
  ELSE IF ~ Entry(a).P THEN <<"no page">>
  ELSE <<"page", Entry(a).page, Entry(a).U, Entry(a).W>>
mon_showmappings_entry ==
  /\ pc = "showmappings" /\ More
  /\ Show(<<va, Mapping(va)>>, PGSIZE)

\* memxv: page_lookup turns the entry into a struct PageInfo, and pa2page
\* panics for a page that does not exist; the read faults if it reaches into a
\* page that is not mapped.  A word is shown as the places of its bytes.
WordMapped(a) == \A i \in 0 .. WORD - 1 : Present((a + i) % Top)
PhysicalWord(a) == [i \in 0 .. WORD - 1 |-> a + i]
VirtualWord(a) ==
  [i \in 0 .. WORD - 1 |-> LET b == (a + i) % Top IN Entry(b).page * PGSIZE + (b % PGSIZE)]

memxv_word ==
  /\ pc = "memxv" /\ More
  /\ Present(va) => Entry(va).page < npages /\ WordMapped(va)
  /\ Show(<<va, IF Present(va) THEN <<"value", VirtualWord(va)>> ELSE <<"unmapped">> >>, WORD)

memxv_panic ==
  /\ pc = "memxv" /\ More
  /\ Present(va) /\ ~ (Entry(va).page < npages /\ WordMapped(va))
  /\ pc' = "panic"
  /\ UNCHANGED <<lookup_vars, mvars>>

\* memxp: KADDR panics for an address beyond the memory, hence the test.
ReadableClosed(page) == page <= npages  \* Mutant: one page too many.
Readable(page) == page < npages
memxp_word ==
  /\ pc = "memxp" /\ More
  /\ IF ~ Readable(PGNUM(va)) THEN Show(<<va, <<"out of range">> >>, WORD)
     ELSE IF PGNUM(va) < npages THEN Show(<<va, <<"value", PhysicalWord(va)>> >>, WORD)
     ELSE pc' = "panic" /\ UNCHANGED <<lookup_vars, mvars>>

shown ==
  /\ pc \in Loops /\ ~ More
  /\ Return0 /\ UNCHANGED <<lookup_vars, mvars>>

\* pgmod: the numbers are converted to bool, so that every one of them passes
\* the comparison with 0 and 1, and `pa_wflags | PTE_P` is never 0, so that an
\* entry without a page is changed as well.
ModGiven ==
  /\ argc = 4
  /\ \A i \in 2 .. 4 : IsNumber(i)
  /\ Low = ROUNDDOWN(Low, PGSIZE)

\* Mutant: all of the flags are cleared, PTE_P among them.
EditedAll(e, user, write) == [e EXCEPT !.P = FALSE, !.U = user, !.W = write]
Edited(e, user, write) == [e EXCEPT !.U = user, !.W = write]

mon_pgmod ==
  /\ Command("pgmod") /\ ModGiven /\ HasTable(Low)
  /\ kern_pgdir' = [kern_pgdir EXCEPT
       ![PDX(Low)][PTX(Low)] = Edited(@, Number(3) # 0, Number(4) # 0)]
  /\ Return0
  /\ UNCHANGED <<lookup_vars, session, line, buf, at, argv, range, trace>>

bad_pgmod ==
  /\ Command("pgmod") /\ (ModGiven => ~ HasTable(Low))
  /\ Return0 /\ UNCHANGED <<lookup_vars, mvars>>

-----------------------------------------------------------------------------
\* backtrace: from frame to frame along the frame pointers that the memory has,
\* which below the kernel's frames are a program's, up to a saved pointer of 0; a
\* lookup for each, in the symbols of the kernel or of the program.
mon_backtrace ==
  /\ Command("backtrace")
  /\ \E s \in Stacks : stack' = s.frame /\ base_pointer' = s.ebp
  /\ pc' = "frame"
  /\ UNCHANGED <<lookup_vars, session, line, buf, at, argv, range, kern_pgdir>>

next_frame ==
  /\ pc = "frame" /\ base_pointer \in DOMAIN stack
  /\ \E t \in Tables : debuginfo_eip(stack[base_pointer].eip, t)
  /\ UNCHANGED mvars

\* A pointer to nothing: the page fault of the kernel is a panic.
frame_fault ==
  /\ pc = "frame" /\ base_pointer \notin DOMAIN stack \cup {0}
  /\ pc' = "panic"
  /\ UNCHANGED <<lookup_vars, mvars>>

frame_shown ==
  /\ pc = "answer"
  /\ base_pointer' = stack[base_pointer].saved_ebp /\ pc' = "frame"
  /\ Forgotten /\ stabs' = Empty
  /\ UNCHANGED <<session, line, buf, at, argv, range, kern_pgdir, stack>>

last_frame ==
  /\ pc = "frame" /\ base_pointer = 0
  /\ Return0
  /\ UNCHANGED <<lookup_vars, mvars>>

\* The loop of monitor; trap_dispatch and _panic enter it again.
monitor ==
  /\ pc \in {"returned", "left", "panic"} /\ pc' = "prompt"
  /\ line' = <<>> /\ buf' = <<>> /\ at' = 1 /\ argv' = <<>>
  /\ va' = 0 /\ va_lo' = 0 /\ va_hi' = 0 /\ rows' = <<>>
  /\ stack' = <<>> /\ base_pointer' = 0
  /\ UNCHANGED <<lookup_vars, session, kern_pgdir>>

Parse == next_arg \/ too_many \/ parsed
Invoke ==
  \/ unknown \/ mon_help \/ mon_kerninfo \/ mon_meminfo \/ mon_exit
  \/ bad_range \/ mon_showmappings \/ mon_memxv \/ mon_memxp
  \/ mon_pgmod \/ bad_pgmod \/ mon_backtrace
Row == mon_showmappings_entry \/ memxv_word \/ memxv_panic \/ memxp_word \/ shown
Backtrace == next_frame \/ frame_fault \/ frame_shown \/ last_frame \/ (lookup /\ UNCHANGED mvars)
runcmd == Parse \/ Invoke \/ Row \/ Backtrace

Next == readline \/ monitor \/ runcmd
Spec == Init /\ [][Next]_vars /\ WF_vars(runcmd)

-----------------------------------------------------------------------------
\* The words of a line: the maximal runs of characters that are no white space.
WordStarts == {i \in DOMAIN line : line[i] \notin WHITESPACE
                                    /\ (i > 1 => line[i - 1] \in WHITESPACE)}
WordAt(i) ==
  CHOOSE w \in {SubSeq(line, i, j) : j \in i .. Len(line)} :
    /\ \A k \in DOMAIN w : w[k] \notin WHITESPACE
    /\ i + Len(w) <= Len(line) => line[i + Len(w)] \in WHITESPACE

\* The commands get the words of the line, each ending where it ended, in
\* order, however much white space of either kind is around them; they are
\* never more than fit into argv with its final NULL.  (runcmd)
ArgvExact ==
  pc = "invoke" =>
    /\ argc < MAXARGS
    /\ {argv[i] : i \in 1 .. argc} = WordStarts
    /\ \A i, j \in 1 .. argc : i < j => argv[i] < argv[j]
    /\ \A i \in 1 .. argc : Word(i) = WordAt(argv[i])

\* The steps of a range command that ends: from the page or word of the first
\* address, one for each page or word, as long as none of them wraps.
ByPage == Word(1) \in {<<"showmappings">>, <<"sm">>}
StepOf == IF ByPage THEN PGSIZE ELSE WORD
FirstOf == IF ByPage THEN ROUNDDOWN(va_lo, PGSIZE) ELSE va_lo
Count == ((va_hi - FirstOf) \div StepOf) + 1
ReachesTop == FirstOf + Count * StepOf >= Top

\* What a row about a must say: the page and the flags that kern_pgdir has there,
\* or whether it is the page or the table that is missing; the word that a
\* virtual address leads to, if a page does; the word at a physical address that
\* memory has.
RowTrue(row, a) ==
  /\ row[1] = a
  /\ ByPage =>
       /\ Present(a) => row[2] = <<"page", Entry(a).page, Entry(a).U, Entry(a).W>>
       /\ HasTable(a) /\ ~ Present(a) => row[2] = <<"no page">>
       /\ ~ HasTable(a) => row[2] = <<"no table">>
  /\ Word(1) = <<"memxv">> =>
       /\ Present(a) => row[2] = <<"value", VirtualWord(a)>>
       /\ ~ Present(a) => row[2] = <<"unmapped">>
  /\ Word(1) = <<"memxp">> =>
       /\ PGNUM(a) < npages => row[2] = <<"value", PhysicalWord(a)>>
       /\ PGNUM(a) >= npages => row[2] = <<"out of range">>

\* When a range command is over, it has shown every page, or word, of the range
\* once, in order, and of each all that kern_pgdir or the memory has: the page,
\* its flags, the word, or what is missing.
\* (mon_showmappings, mon_memxv, mon_memxp)
RowsExact ==
  pc = "returned" /\ rows # <<>> =>
    /\ Len(rows) = Count
    /\ \A i \in DOMAIN rows : RowTrue(rows[i], FirstOf + (i - 1) * StepOf)

Pointers(s) == {s.ebp} \cup {s.frame[b].saved_ebp : b \in DOMAIN s.frame}

\* Looking at memory brings the kernel down only in three ways: memxv of a page
\* that is mapped but does not exist (KERNBASE maps more than there may be),
\* memxv of a word that reaches into a page that is not mapped, and backtrace in
\* a stack where one of the pointers is neither 0 nor that of a frame.
\* (mon_memxv, pa2page; mon_memxp, KADDR; mon_backtrace)
MonitorSurvives ==
  pc = "panic" =>
    \/ /\ Word(1) = <<"memxv">> /\ Present(va)
       /\ Entry(va).page >= npages \/ va % WORD # 0
    \/ /\ Word(1) = <<"backtrace">>
       /\ \E s \in Stacks : s.frame = stack /\ ~ (Pointers(s) \subseteq DOMAIN s.frame \cup {0})

\* Only pgmod with four words changes kern_pgdir: at most the entry of its page,
\* and in it nothing but PTE_U and PTE_W, so that no page is lost or moved.
\* (mon_pgmod)
PgmodKeepsPages ==
  [][kern_pgdir' # kern_pgdir =>
       /\ Word(1) = <<"pgmod">> /\ argc = 4
       /\ \A a \in {PGSIZE * i : i \in 0 .. (Top \div PGSIZE) - 1} :
            /\ HasTable(a) <=> HasTable(a)'
            /\ HasTable(a) =>
                 /\ Entry(a)'.P = Entry(a).P /\ Entry(a)'.page = Entry(a).page
                 /\ Entry(a)' # Entry(a) => a = Low]_vars

\* Frames that lead to each other only: a backtrace that is among them never
\* leaves them.  The frames below the kernel's are what a program left there.
Circle == \E C \in SUBSET DOMAIN stack :
            base_pointer \in C /\ \A b \in C : stack[b].saved_ebp \in C

\* Every command comes back to the prompt, also the searches of a backtrace,
\* with two exceptions: a range that reaches the top of the address space, where
\* va wraps, and a stack whose frame pointers run in a circle.
\* (runcmd and the loops of the commands, mon_backtrace; stab_binsearch)
CommandEnds ==
  [](pc = "parse" => <>(\/ pc \in {"returned", "left", "panic"}
                        \/ pc \in Loops /\ ReachesTop
                        \/ pc = "frame" /\ Circle))
=============================================================================
