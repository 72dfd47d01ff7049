# A TLA+ specification of JOS

JOS is a small 32-bit x86 teaching kernel: one processor, interrupts disabled whenever the kernel
runs, one user program at a time, a monitor on the console. This directory specifies its core in
TLA+, model-checks the specifications with TLC on small machines, and proves with TLAPS, for
machines of any size, the safety of its components from the boot loader to the monitor. References
such as `kern/pmap.c:602` are to lines of the repository's source.

Contents:

1. Inventory of the system
2. The modules and the code they stand for
3. The runs, their bounds and what they show
4. Fairness
5. What is proved
6. Where code and documentation disagree
7. What is only model-checked, and what is not modelled
8. Plan

## 1. Inventory of the system

| Component | Code | State it keeps | Operations |
|---|---|---|---|
| Boot loader | `boot/boot.S`, `boot/main.c` | memory it fills, keyboard controller, disk | `seta20`, `bootmain`, `readseg`, `readsect` |
| Memory initialisation | `kern/entry.S`, `kern/entrypgdir.c`, `mem_init` … `check_*` in `kern/pmap.c` | `nextfree`, `pages`, `envs`, `kern_pgdir`, cr3 | `boot_alloc`, `page_init`, `boot_map_region`, the self-tests that run at every boot |
| Physical pages and address spaces | `kern/pmap.c`, `env_setup_vm`/`env_free` in `kern/env.c` | `page_free_list`, `pp_ref`, page directories and tables, cr3 and the TLB | `page_alloc`, `page_free`, `page_decref`, `pgdir_walk`, `page_insert`, `page_lookup`, `page_remove`, `tlb_invalidate`, `lcr3` |
| Environment table | `kern/env.c` | `envs`, `env_free_list`, `curenv`, cr3 | `env_init`, `env_alloc`, `env_free`, `env_run`, `envid2env` |
| Program loader | `load_icode`, `region_alloc` in `kern/env.c` | the new address space | per segment: map, copy, clear |
| Kernel control | `kern/init.c`, `kern/trapentry.S`, `kern/trap.c`, `kern/syscall.c`, `kern/env.c` | IDT, Trapframe, `env_tf`, `curenv`, cr3, `panicstr` | traps, four system calls, `env_destroy`, `env_run`, `_panic` |
| System call memory checks | `user_mem_check`, `user_mem_assert`, `"%.*s"` in `lib/printfmt.c` | `user_mem_check_addr` | one walk over the range, one read of it |
| Console input | `kern/console.c` | the ring `cons`, two devices | `serial_intr`, `kbd_intr`, `cons_intr`, `cons_getc`, `getchar` |
| Terminal | `kern/console.c`, `lib/readline.c` | keyboard flags, display, cursor, line buffer | `kbd_proc_data`, `cga_putc`, `readline` |
| Kernel monitor commands | `kern/monitor.c`, `kern/kdebug.c` | the line it cuts up; edits `kern_pgdir` | `runcmd`, `help`, `kerninfo`, `meminfo`, `backtrace` with `debuginfo_eip` and `stab_binsearch`, `showmappings`, `pgmod`, `memxv`, `memxp`, `exit` |
| Formatted output | `lib/printfmt.c`, `lib/printf.c`, `kern/printf.c` | the user's print buffer | `vprintfmt`, `printnum`, `vcprintf`, `vsnprintf` |
| String library | `lib/string.c` | none | `memset`, `memmove`, `strtol`, `strchr`, `strnlen`, … |
| Clock chip and hardware access | `kern/kclock.c`, `inc/x86.h` | registers of devices | `mc146818_read`, `inb`, `outb` |
| User library and programs | `lib/*.c`, `user/*.c` | user memory | system call stubs, test programs |
| Build and grading | `GNUmakefile`, `gradelib.py`, `grade-lab*` | – | – |

**How they interact.** The boot loader jumps to `entry.S`, which installs
`entry_pgdir` and calls `i386_init`. That initialises console, memory, environments
and traps in this order, creates one environment from an embedded ELF image and runs
it. From then on control alternates: user mode, an exception or `int $48`, `_alltraps`,
`trap`, `trap_dispatch`, and back through `env_run` – or to the monitor, for a
breakpoint, a panic or the end of the last environment. Memory and environments are
shared state: `env_alloc` takes a directory page from `page_free_list`, `region_alloc`
and `page_insert` take pages for data and tables, `env_free` gives all of them back.
The console is polled: `getchar` empties both devices into the ring and takes one
character from it.

**What is hard here.** There are no threads and no interrupts in the kernel, so the
difficulty lies elsewhere:

* pages that change role (data, page table, directory, free) without being cleared,
  and counters that must agree with pointers scattered over all page tables;
* identifiers that outlive what they name (`env_id`s, `curenv`);
* a kernel that is entered from its own middle: a page fault in `load_icode`, in
  `cprintf` or in the monitor starts `trap` again, on top of what was going on;
* the change of page directories while the kernel runs on them;
* arithmetic modulo 2^32, and off-by-one errors at page, line and buffer boundaries;
* two input devices that fill at any moment, one of which sends multi-byte codes, and a disk and
  a keyboard controller that answer when they like;
* translations that the processor keeps after the page tables have changed;
* text that is taken apart in place (command lines, formats), character by character.

**What makes each component correct** is the list of properties in section 3.
`PROJECT.json` lists, under `hazards`, the lines at which each of them could go wrong.

## 2. The modules and the code they stand for

Every module names its variables and actions after the C code.

**`AddrSpace`, `Pmap`** (`kern/pmap.c`, `kern/env.c`). `AddrSpace` is what callers may
rely on: partial maps from virtual to physical pages, and pages that keep their
contents while they are mapped. `Pmap` is the code: `mem` is the content of every
physical page as an array of entries, so one page can be data, page table or directory
in turn and keeps what it held (`page_alloc` without `ALLOC_ZERO`). `pgdir_walk`,
`page_decref` and `page_free` are operators; `page_alloc`, `page_free`, `page_insert`,
`page_remove`, `env_setup_vm` are actions; the long loop of `env_free` is one action
per iteration (`env_free_skip`, `env_free_page`, `env_free_table`, `env_free_pgdir`).
`store` is a write of the program, or of `load_icode`, to a mapped page. `held` has the
pages a caller got from `page_alloc` and has neither mapped nor freed. `pp_ref` wraps at
`RefLimit`, as a `uint16_t` does at 2^16, and a failed sanity check sets `panicked`.
`PmapProofs` holds the proofs, also those of `Tlb` (section 5).

**`Tlb`** (`kern/pmap.c`, `inc/x86.h`, `kern/env.c`) puts the processor next to `Pmap`: `cr3` is the
page that holds the directory in force, `tlb` what has been translated. A walk follows memory as it
is, so a directory that was freed and given to someone else is read as what it holds now. Each
operation that executes `invlpg` or loads cr3 does so in the same step (`insert`, `remove`, `free`,
`free_step`, `switch`, `switch_back`), and `write` stores where the *processor* finds the page. A
processor may read a translation early or late and drop it at any time; the `tlb` here holds each as
soon as it exists and drops none by itself, which is the worst case for staleness.

**`Env`** (`kern/env.c`). The table, the LIFO free list, the generation arithmetic of
`env_alloc` in `int32_t` (it wraps at `Half`, 2^31), `envid2env` with its permission
check, `env_run`'s change of states, and for whom the directory in force (`cr3`) was made. The functions may be called in any order that
`kern/env.h` allows, which is more than the present kernel does with its one program.
`history` and `parent` are auxiliary: the ids a slot was given, and by whom.

**`Process`, `Kernel`** (`kern/init.c`, `kern/trap.c`, `kern/trapentry.S`,
`kern/syscall.c`, `kern/env.c`). `Process` is the program's view: its registers change
only as the result of a system call. `Kernel` is the single path of control: `pc` is the
function that is running, `vector` what the processor raised, `tf` the frame on the
stack, `env_tf` the copy in `envs[0]`. Trap frames are built word by word: what the
processor pushes for each vector (`PushesError`) and what each entry point of
`trapentry.S` pushes (`NOEC`); `env_pop_tf` is the way back. User mode is any program:
`execute` gives the registers any value, `interrupt` is any `int $n`, `exception` any
exception; of `%eflags` it can change neither the I/O privilege level nor, with that level at 0,
`FL_IF` (`Guarded`). `eflags` is the register in the kernel, which looks at it in the first assertion
of `trap`: all gates are trap gates and leave `FL_IF` as the program had it. The monitor's two ways out are `mon_exit` and `mon_backtrace_fault`. Page
faults in the kernel (`KernelFault`) enter `trap` from `load_icode`, `sys_cputs` and the
monitor. `envs[0]` is the only environment, as in the code: nothing but `i386_init`
creates one.

**`UserMem`** (`kern/pmap.c`, `lib/printfmt.c`). One `sys_cputs`: the limit test, the walk
byte by byte, then `cprintf("%.*s")`'s read of the range. Addresses wrap at `Top`; the
length becomes an `int`.

**`LoadIcode`** (`kern/env.c`). `region_alloc` is one page per step and may run out of
memory at each; `copy` and `zero` are the `memcpy` and `memset`, which fault if they
reach a page that is not mapped. Memory is followed byte by byte. An image is a sequence of program
headers whose segments share no page and end below the stack's page (`WellFormed`).

**`MemInit`** (`kern/pmap.c`, `kern/entrypgdir.c`). One action per stage of `mem_init`
and one per page in `boot_map_region`. Whatever the kernel clears must be mapped by the
directory in force (`Reachable`), otherwise `pc` becomes `"fault"`. The self-tests that
run at boot are part of the model, since they assert, write to memory and reorder
`page_free_list`; one reordering (`LowFirst`) is what makes the first page tables
reachable. Base memory may end below the I/O hole: `IsMemory` says which pages exist, and a kernel
that takes one that does not for a page table ends in `"fault"` (`Usable`). `boot_alloc` may give out
a chunk that reaches beyond the end of memory; `beyond` remembers that such a chunk was cleared.

**`Fifo`, `Console`** (`kern/console.c`). `Arrive` is a byte reaching a device at any
time, `cons_intr_char` one round of `cons_intr`'s loop, `cons_intr_done` its end,
`cons_getc_return` the rest of `cons_getc`. `Fifo` is a bounded queue.

**`Paper`, `Cga`, `Keyboard`, `Terminal`** (`kern/console.c`, `lib/readline.c`). `Keyboard`
turns scan codes into characters with the five modifier and toggle flags and the E0
prefix; `Cga` is `cga_putc` with scrolling; `Terminal` puts `readline` between them. The
auxiliary component `gone` of `screen` keeps what has scrolled off, so that screen and
history together are the endless roll of `Paper`. `kern/console.h` fixes the display at 25 lines;
the constants allow fewer.

**`BootLoader`** (`boot/boot.S`, `boot/main.c`, `kern/init.c`) extends `MemInit` to the time before
it. `controller` and `disk_done` are the devices, at their own pace; `Send` is one byte to the
keyboard controller after its busy loop; `readsect_command` and `readsect_insl` move one sector;
`i386_init` clears bss through the directory that `entry.S` has installed, and hands over to
`mem_init`. Memory is followed byte by byte, and an address above 1 MB is folded down as long as
`a20` is low; `wrapped` remembers that this has happened to a sector. The ELF header and the program
headers are read where they are used, from memory at `ELFHDR` (`Elf`, `Proghdr`): a header of which a
segment has overwritten a byte may say anything in `Garbled`. With `e_entry` overwritten, or with a
part of the kernel elsewhere because the disk overtook the keyboard controller, `entry` leads
`"astray"`.

**`String`** (`lib/string.c`). `memset` and `memmove` as functions of a memory; the bytes of a
`memmove` are read in the order of its two loops. `Cga`, `LoadIcode` and `BootLoader` use them.

**`Stab`, `Symbols`, `Monitor`** (`kern/kdebug.c`, `kern/monitor.c`), each extending the one before.
`Stab` is `stab_binsearch`, one action per round of its outer loop. `Symbols` is `debuginfo_eip`: the
check of the string table (`Unterminated` are the tables that fail it), a search for the file, one inside it for the function, one inside that for the line, the way back to
the name of the file and the count of the parameters. `Monitor` is the command loop: `next_arg` cuts
one word out of the line, in place; the range commands show one row per step and `va` wraps at
`Top`; a row says which page and flags an entry has, at which bytes of physical memory a word lies, or what
is missing; `mon_pgmod` edits an entry of `kern_pgdir`. `mon_backtrace` follows the saved frame
pointers through memory and asks `Symbols` about each return address: `Stacks` gives what memory has
at each frame pointer that can be read (with the five words of arguments after it). Below the kernel's
own frames it is what the program left there, so pointers may lead to nothing, which is a page fault
and a panic, or run in a circle.
`strtol` is here, on the words as `runcmd` has left them. A line is a sequence of characters in
which the name of a command counts as one.

**`Format`** (`lib/printfmt.c`, `lib/printf.c`, `kern/printf.c`). `vprintfmt` as the state machine it
is: one action per turn of its loop (`flag`, `dot`, `digits`, `star`, one per conversion), one per
call of `putch`. The three `putch` functions and their callers are the console, the buffer of user
programs and the buffer of `vsnprintf`, which may be missing (`"null"`). A caller has `Pieces` in mind and spells them out as format
and arguments (`Spell`, `Args`); `Meant` is the text it expects. The pieces are `Sensible`: what
callers keep to because the code gives other formats another meaning – a width that begins with 0
would be a flag, a number padded with `-` is padded on the wrong side, and a negative number in a field
wider than its digits gets its sign in front of the padding (section 6). Error codes include the
smallest `int`, whose negation overflows (`Negated`). Characters and error texts
are symbols (`Characters`); `NULL` also stands for a width or precision that is not given.

The `MC*` modules give values to constants; the `.cfg` files name what is checked.

## 3. The runs, their bounds and what they show

Sizes are distinct states. Each property is also refuted on a version of the code with a
plausible bug (`mutants` in `PROJECT.json`; their definitions stand next to the originals,
marked *Mutant*).

**`pmap`** (127,794 up to symmetry; module `Tlb`). Five pages, two address spaces, 2 × 2 entries, two
permissions, counters that wrap at 4. Five pages are the fewest with which two spaces can
each have a directory and a table and share a data page; any allocation may fail, and every
page may be filled with what looks like entries for any page.
`TlbExact`: the processor translates every address as the tables of the space in force do now, also
in the middle of `env_free` and after a page has changed its role.
`RefCountExact`: `pp_ref` equals the number of pointers to a page, over all directories and
tables. `FreePagesUnused`: nothing on the free list is reachable, and nothing is listed twice.
`NoLeak`: every page is somewhere, so `env_free` and every failed call give back what they took.
`TablesPrivate`: no page table or directory is shared or mapped where a program could write
to it. `NoPanic`: the sanity panics never fire. `ImplementsAddrSpace`: the page tables
implement `AddrSpace`, so an operation changes one virtual page of one space and nothing is
recycled under its users. The bound `MaxShare` (2) allows fewer mappings of one page than would
wrap the counter: callers in JOS map a page once or twice.

**`env`** (249,954). Three slots, ids that wrap after two generations, three births a slot.
`StatusExact`: the free list, `ENV_FREE`, `ENV_RUNNING`, `curenv` and the directory in force agree,
through any order of destroying, reusing and running. `IdsNameSlots`: ids are positive and name
their slot, also after the wrap. `NoStaleId`: the id of an environment that is gone names nothing
until the generations have come round (`Cycle`; 2^19 − 1 in the code, 2 here). `OnlyOwnChildren`:
the permission check reaches one's own children, not those of a former owner of one's slot.

**`kernel`** (595,032). Three values of a general register (0, its own
`env_id`, another), seven of `%eax` (system calls, results, unknown numbers), `%eflags` with I/O
privilege level 0, 1 or 3, `FL_IF` and the carry flag set or clear; every vector. `FrameExact`: what `trap` finds is what the program had and what was raised.
`AssertionsHold`: the three assertions of `trap` hold (interrupts are off, there is a `curenv`, it is
running), and user mode is entered only in the address space
of a running `curenv`, on every path, through the monitor and through nested
faults too. `FaultIsFatal`: a program that faults ends. `ImplementsProcess`: the refinement of
`Process`.

**`usermem`** (66,642). All 2^3 mappings of three user pages of two bytes, all pointers and
lengths in a 4-bit address space, a `'\0'` anywhere or nowhere. `CheckExact` (the decision and `user_mem_check_addr`),
`PrintsTheString` and `CallEnds`. Two-byte pages suffice to start and end anywhere in a page,
three pages for a hole between two.

**`usermem_wrap`** (violation). See section 6.

**`monitor`** (244,948). Three operators: one types lines that are hard to cut, with blanks and tabs
everywhere and up to `MAXARGS` words; one looks at memory and edits it, in any order, with numbers at
every page boundary and at the top of an address space of four pages, of which two exist; one asks for
backtraces over symbol tables of C files with functions, parameters and included lines, of assembly
files, and of any five entries of the type or of another, in stacks of up to three frames that end at
a saved pointer of 0, lead to nothing or run in a circle, at once or after a frame. `FindsTheEntry`: every single search
brackets its address; an exact match leaves the region as it is and increments the address instead,
so that the end is not obvious. `NamesTheLine`: file, function, line and parameters of an address,
against the definition of the table. `ArgvExact`: commands get the words of the line. `RowsExact`:
a range command shows each page or word of its range once, and each row says exactly what is there:
the page with its two flags, the bytes of the word, or which of table, page and memory is missing.
`MonitorSurvives`: the three ways in which looking at memory brings the kernel down.
`PgmodKeepsPages`: what no command may change. `CommandEnds`: every command ends, with two
exceptions that section 6 describes, a range that touches the top of memory and frames in a circle.

**`printf`** (180,712). Numbers of 5 and 6 bits, so that every value that is special is there; widths
up to two digits, every flag, `*` with negative values, up to three `l`, unfinished and unknown
conversions, alone and before another piece that must not see their flags; buffers of 0, 1 and 3
characters, a user buffer of 3 that is flushed in the middle. `TextExact`: the text is what the pieces
mean, for the pieces that are `Sensible`. `TextArrives`: it reaches its destination whole, and the buffer is never overrun.
`FormatEnds`.

**`console`** (20,310). A ring of three bytes, devices of one and two, five key strokes, both
serial configurations. The ring wraps, both devices interleave at every point of the loop.
`DeliveredInOrder`: `cons_getc` returns what was typed, once, and no character before an earlier one
of its device. `ImplementsFifo`, `AllRead`. At most `Ahead` = `CONSBUFSIZE` − 1 characters
wait: see section 6 for what happens beyond.

**`terminal`** (4,227,657). A display of three lines of two cells, so that `memmove`'s ranges
overlap, a keyboard with one key for each kind that `kbd_proc_data` tells apart (a letter, Delete,
one shift, an E0 control, an E0 alt), lines of up to two characters, one line of scrolling (a tab
that scrolls twice does not occur). `NoStuckModifier`: no flag
outlives the key. `ImplementsPaper`: text lands where it belongs at every corner of the screen.
`EchoShowsLine`: what `readline` will return is what the display shows, through erasing, full
lines, rubout from the serial port and scrolling.

**`load`** (40,022). Pages of three bytes, images with up to two segments that start and end
anywhere in a page, loaded or not, memory enough or not. `LoadedExactly` and
`FaultsOnlyWhenShort`.

**`load_short`** (violation). See section 6.

**`startup`** (380,546). From power on to the end of `mem_init`. Sectors of two bytes, pages of two
sectors, page tables of 22 entries; 22 machines – base memory up to the I/O hole or one page less, and
11 amounts above it: none, less than the heap needs, just enough, and more than the entry directory
maps – and kernels of two segments, in either order, that begin and end anywhere in a sector, with
and without bss, also with a segment below 1 MB beside the headers, over them with the file's own
bytes or over them with others, before and after the last header was used. Disk and controller answer
in any order.
`KernelLoaded`: when `mem_init` begins, a kernel that is `Loadable` is in memory as its file says; one
of which a part went to another address does not come so far. `FreeListExact`: the initial state that
`Pmap` assumes, every page of memory that nothing uses once; what `page_init` lists between the end of
base memory and the I/O hole is left out (section 6). No page is listed after the kernel has cleared
what is not memory. `KernelMapExact`: the kernel's address space is the one `inc/memlayout.h` draws.
`BootsWhenAdequate`: with adequate memory every kernel of the run whose headers are left alone comes
up, or the disk has overtaken the controller – no wait lasts for ever, no assertion fails and nothing
that is not mapped is touched. Apart from the devices and from garbled headers the code is
deterministic once machine and kernel are chosen.

Deadlock is checked in `pmap`, `kernel` and `monitor`, which never stop. `CHECK_DEADLOCK FALSE` stands
where the system may stop: a call or a load that is over, a machine that has rebooted, or a bound that
is reached.

## 4. Fairness

The kernel runs with interrupts disabled and never waits for anything but a character, so a
step it can take, it takes: weak fairness of `KernelStep` (`Kernel`), of `Next` (`UserMem`,
`Format`, which describe one call that nothing interrupts), of `runcmd` (`Monitor`: what the kernel
does with a line that has been typed; nobody has to type one) and of `Step` (`Console`: every
caller of `cons_getc` is a loop that calls it again, `kern/console.c:462` and `lib/console.c`).
`BootLoader` has weak fairness of its own steps and of `mem_init`, and of its two devices, each
separately: a controller that has a byte takes it some time, a disk that was asked delivers some
time. Without them no boot loader that polls would ever end.
Nothing is assumed of the program, the operator and the input devices: `execute`, `interrupt`,
`exception`, `mon_exit`, `readline`, `monitor` and `Arrive` have no fairness. Page faults inside the
kernel are possible steps and have none either. The other modules state safety only.

## 5. What is proved

Every theorem is about all values of the constants that satisfy the named assumptions of the
component's module, and has one inductive invariant behind it. Each of these invariants was first
checked by TLC with the constants of the component's run.

| Module | Theorem | States |
|---|---|---|
| `PmapProofs` | `TypeCorrect` | `Spec => []TypeOK` |
| | `Safety`, with `FreeUnused`, `NeverLeaks`, `PrivateTables` | `[]RefCountExact`, `[]FreePagesUnused`, `[]NoLeak`, `[]TablesPrivate` |
| | `NeverPanics` | `[]NoPanic` |
| | `Refinement` | `Spec => ImplementsAddrSpace` |
| | `TranslationsExact` | `TlbSpec => []TlbExact` |
| | `ProcessorRefines` | `TlbSpec => Spec` |
| | `SafeWithProcessor` | all of `Pmap`'s theorems for `TlbSpec` |
| `EnvProofs` | `StatusAlwaysExact`, `IdsAlwaysNameSlots`, `StaleIdsNameNone`, `OnlyOwnChildrenAreReached` | `[]StatusExact`, `[]IdsNameSlots`, `[]NoStaleId`, `[]OnlyOwnChildren` |
| | `Loaded`, `FaultsOnlyShort` | `LoadSpec => []LoadedExactly`, `[]FaultsOnlyWhenShort` |
| `KernelProofs` | `AssertionsAlwaysHold`, `FramesExact` | `[]AssertionsHold`, `[]FrameExact` |
| | `ProgramUndisturbed` | `Spec => ImplementsProcess` |
| `CputsProofs` | `CheckAlwaysExact`, `StringPrinted` | `[]CheckExact`, `[]PrintsTheString` |
| | `TextAlwaysArrives`, `TextAlwaysExact` | `FormatSpec => []TextArrives`, `[]TextExact` |
| `MonitorProofs` | `EntriesFound`, `LinesNamed` | `[]FindsTheEntry`, `[]NamesTheLine` |
| | `WordsExact`, `RangesExact` | `[]ArgvExact`, `[]RowsExact` |
| | `Survives`, `PagesKept` | `[]MonitorSurvives`, `PgmodKeepsPages` |
| `ConsoleProofs` | `InputDelivered`, `RingIsQueue` | `[]DeliveredInOrder`, `ImplementsFifo`, if `Ahead < CONSBUFSIZE` |
| | `ModifiersReleased`, `LineShown` | `TerminalSpec => []NoStuckModifier`, `[]EchoShowsLine` |
| | `DisplayIsPaper` | `TerminalSpec => ImplementsPaper` |
| `StartupProofs` | `FreeList`, `KernelMap` | `[]FreeListExact`, `[]KernelMapExact` |
| | `KernelInMemory` | `[]KernelLoaded` |

`Arithmetic` holds what these proofs need to know of `%` and `\div`, of which the provers know little
when the divisor is a constant: existence and uniqueness of quotient and remainder, and the remainder
of the next number. It also says that sets of numbers have least and greatest elements, and it puts
induction over numbers into first-order form: a set that contains 0 and with each number the next
contains them all. What the recursive functions of a model compute – the words of a line, the bytes
that `memmove` has moved, the frames on a list – is proved with it, one set per lemma.

**`Pmap`** (`SizeAssumption`, `NullAssumption`, `ImageAssumption`, `RefAssumption`: finite sets of pages
and spaces, table sizes at least 1, contents that are arrays of entries, callers that share a
page less often than the counter can count). The invariants are not inductive one by one. That a free page is in no address space depends
on exact counters (`page_decref` frees at 0), exact counters depend on tables being private (a
store to a table that is also data would change pointers nobody counted), and tables stay
private because new ones come from free pages that no address space has. `Good` is their
conjunction, stated per page: a page has exactly one role – listed, held, directory, table or
data – and its counter is right for that role. It is a predicate of *memory, counters, list,
held pages and directories* rather than of the variables, so that it can be followed through
the stages inside one operation: after `pgdir_walk`, after the entry is written, after the old
page is dropped. `LoopOK` adds what the loop of `env_free` knows: it works on a space that has a
directory, and entries before `pdeno` and before `pteno` are empty – without it, dropping a
table that still maps pages would lose them. `IInv` is both with `TypeOK` and `~panicked`.

The lemmas follow the code: `TakeFree`, `GiveBack` (`page_alloc`, `page_free`), `NewTable`
(`pgdir_walk` that allocates), `NewDir` (`env_setup_vm`), `SetPte` (writing an entry, in
`page_insert` and `page_remove`), `DropTable`, `DropDir` (the two `page_decref`s of `env_free`),
and `Frame`/`FrameGood` for stores to pages that are neither. Counting rests on `SetPteUsers`: one
write changes the users of the page that goes and of the page that comes by one each, or of
neither when they are the same, which is the corner case of re-inserting a page where it
already is. `SafetyNext` has one step per action.

**`Pmap` implements `AddrSpace`**. The view of a user is one entry for each virtual page.
Each operation either leaves all entries and the contents of all mapped pages as they are (`Quiet`:
allocating, freeing, making a table, a turn of `env_free` that drops an empty one) or sets one entry
(`Sets`: `page_insert`, `page_remove`, a turn of `env_free`) or stores to a mapped page. `IInv` is not
enough for this: `env_free` drops a table when no entry of it is *present*, which leaves the users'
view alone only if such entries are empty altogether; `CleanIn` adds that they are (`page_remove`
writes 0 and new tables are cleared).

**`Tlb`**. `TranslationsExact` cannot be added to `Pmap`'s theorems afterwards. `write` goes where the
processor's translations lead, so `Pmap`'s invariants hold only while these are right, and they are
right only while nothing but the kernel writes tables. `TlbInv` is therefore `VInv /\ TlbExact` with
`NotInForce`: the directory that `env_free` takes apart is not in force. Given `TlbInv` each
step of `Tlb` is a step of `Pmap` (`TlbStep`), hence `ProcessorRefines`, which carries the theorems
of `Pmap` over.

**`Env`** (`EnvAssumption`: ids of 2 × `Half` values, `GenStep` a multiple of `NENV` and a divisor of `Half`;
`NullAssumption`: NULL is no id and no birth). `StatusExact` is inductive. The other three need to know
the *n*-th id of a slot: `HistoryExact` says that it is `Nth(n) * GenStep + e`, where `Nth` counts
1, …, `Cycle`, 1, …. That the code computes this is `GenerationIs`: adding `GenStep` and
masking the slot's bits gives the next multiple, and when the sum turns negative in `int32_t`, the
generation starts again at 1. From there `IdsNameSlots` is `SlotMod` (an id modulo `NENV` is its slot), and
`NoStaleId` and `OnlyOwnChildren` are that equal ids of one slot are `Cycle` births apart.
`ParentExact` ties `env_parent_id` to the birth of the parent, whatever has become of it.

**`Kernel`** (`KernelAssumption`, `NullAssumption`, `MessageAssumption`: NULL is not a message and
not `envs[0]`). `KInv` says for each place of control what it has brought along: the
program and the kernel run with `FL_IF` clear, and with the I/O privilege level at 0 the program
cannot set it (`Disabled`); in user mode the environment runs on its directory (`AtUser`); in `trap` the frame is either a fault of the kernel's
own or exactly what the program had and raised (`AtTrap`); on the way back `env_tf` is the program's
registers with nothing but a system call's result changed (`AtReturn`); the monitor was entered from a
breakpoint with everything intact, from the end of the environment, or from a panic (`AtMonitor`).
`FramesExact` rests on `Joined`: with or without the processor's error code the entry point makes the
frame the same ten words long. `StepRefines` has one case per action.

**`UserMem`** (`UserMemAssumption`: page-aligned `ULIM` and `Top`). `UInv` is the loop invariant of
each loop. While `user_mem_check` walks, all of the range below `scanner` is accessible; while
`vprintfmt` prints, exactly the range below `p` is printed, none of it `'\0'`, and `precision` is the
distance that is left. Both under the condition of the properties, that the range does not wrap
(section 6 for when it does).

**`Console`** (`ConsoleAssumption`). `DeliveredInOrder` says nothing of what is still under way, so
`CInv` is about `Passed`, the characters returned and those in the ring, in one sequence: `cons_intr`
appends to it (`StashPassed`) and `cons_getc` does not change it (`TakePassed`). Per device,
`Passed` and then the device hold the characters in the order of the key strokes and lack none.
That the ring has room when `cons_intr` adds to it, which the code does not test, follows by counting
(`RoomInRing`): what is in the ring, what was returned and the one that is coming are different
characters that were typed. The condition `Ahead < CONSBUFSIZE` is needed (section 6) and is the
hypothesis of both theorems. `UsedIs` and `PlaceIs` say what `%` does to the two positions.

**`LoadIcode`** (`LoadAssumption`: images are well formed). `LoadInv` has the segments before `ph`
where the program expects them (`Right`); of the one being loaded, that the pages from the first one
to `va` are mapped (`Filled`), and, before the `memset`, that its file bytes are copied. A segment
is not disturbed afterwards because no later segment, and not the stack, touches one of its pages.
`FaultsOnlyShort` is that the range `region_alloc` maps is as long as the segment and starts at the
page of its first byte, so that only a segment reaching beyond that many pages can meet a page that
is not there.

**`MemInit`** (`MemInitAssumption`: base memory ends below the I/O hole and extended memory within
the kernel's window, the kernel lies above `EXTPHYSMEM`, kernel stack and `envs` fit their regions).
`MemInv` follows `boot_alloc` (`Allotted`, `Heap`). `ListInv`: the list has every free page once –
those that `page_init` freed without those that have become page tables – however the self-tests
reorder it (`Once`, kept by `LowFirst`). `BeyondInv`: whenever the kernel has cleared what is not
memory, `nextfree` lies beyond it, so that the next call of `boot_alloc` panics, and `page_init` makes
one before there is a list. `PteInv`: a virtual page that the `boot_map_region` calls
have come by (`Covered`) has the entry that its region wants, and no other entry exists; that the
regions do not overlap, the last one reaching to the end of the address space, makes `Wanted` a
function. `FreeList` and `KernelMap` read off the invariant at the end.

**`BootLoader`** (`BootAssumption`: segments are not longer in the file than in memory, the headers'
scratch space lies in base memory and at a sector boundary). What bootmain reads first, the headers, is
treated as if it were a segment: `All` is the headers followed by the segments. `Progress` is about
`readseg` and the part it is at: `pa` is at a sector boundary, the sector that is read next is the one
whose distance in the file is that of `pa` in memory (`Position`), and every byte of the parts before
it, and of this one behind `pa`, is the file's (`Parts`). A sector that overlaps a part read before
writes the same bytes again because displacement in memory and file agree (`PartsFit`, from
`Loadable`). Since the headers are one of the parts they are still there when the next of them is
used, and it is the image's (`HeaderKept`). Nothing is assumed of the order in which disk and keyboard
controller answer: `Progress` holds as long as no sector was folded down, and `entry` goes on to the
kernel only then. The `memset` of `i386_init` spares the segments because their file bytes end at or
before `edata`.

**`Terminal`** (`CgaAssumption`, `KeyboardAssumption`, `TerminalAssumption`: a line fits on the
display without one of its rows). `KeysInv` is about bytes: when the controller is empty, every flag
belongs to a key that is down; in the middle of a key's two bytes the E0 flag tells which of the two
`kbd_proc_data` has had (`Coming`). For the display, everything is said of the roll: `RollAt` is
what has scrolled off followed by the screen. `Moves` and `Prints` say of each character what it
does to the roll, `memmove` included, which copies downwards byte by byte over a range that overlaps
itself. `LineShown` is that the roll has the line between where `readline` began and the cursor, and
that the line's first cell has not scrolled off. `DisplayIsPaper` says that the roll is `Paper`.

**`Monitor`** (`StabAssumption`, `MonitorAssumption`, `SessionAssumption`; `FindsTheEntry` and
`NamesTheLine` carry the conditions that tables are sorted). `StabInv` is the bracket of
`stab_binsearch`: entries of the type before `l` do not lie above the address, those after `r`,
where the search has come from above do, and after an exact match the address is one more than what
was sought (`Closing`). The regions of the three searches of a lookup are those that the stages
before found (`FileRight`, `FunRight`). `WordsOK`: what `next_arg` has cut and what `argv` has are
the blanks and the words up to the cursor (`Cut`, `Words`). `RangeInv`: a range command has one true row
for each address before `va`, or `va` has wrapped and the loop will not end (`Wrapped`). `Survives`
needs of a backtrace only that `base_pointer` is one of the stack's pointers. `PagesKept`
needs nothing but the types of `kern_pgdir`.

**`Format`** (`BufferAssumption`). `Arriving(S)` says that what was shown, followed by what is in
the buffer, is the text, for a set `S` of characters; `TextAlwaysArrives` is the invariant for some
such set, because the text of a conversion may have characters of its own.

`TextAlwaysExact` is for all calls whose pieces are `Sensible` (`PieceAssumption`: among others no `-`
with a number, no width or precision that begins with 0 and no negative number in a field wider than
its digits), for any even sizes of int and long (`WidthAssumption`) and any set of characters that has those of the code
(`CharacterAssumption`). The code never sees the pieces; it has a cursor, a list of arguments and the
locals of one conversion. `Outline` lays the pieces out beside them: where each ends in the format,
which arguments follow it, what has been put by then. `TextInv` says at which stage the call is
(`Stage`): between two pieces; inside a conversion that is being read, with what is left of its
spelling ahead, what is left of its arguments on top, and the locals as the part behind the cursor
has set them (`Reading`, one `At...` per part); or inside one that turned out to be none and is
printed as it stands (`Plainly`). Parts that are not there make two stages one (`Skips`). One lemma
per action takes a stage to the next (`FlagTaken`, `NumberTaken`, `StarTaken`, `DotTaken`,
`LongTaken`, and `...Ends` for each conversion); `PrintStep` and `PutchStep` put them together.

Three facts about numbers carry it. `NumberIs`: reading the digits of a spelled number gives the
number back, so the digits must end where the spelling does (`NoDigit`: what follows is no digit).
`PrintnumIs`: the recursion of `printnum`, width counted down through it, is the positional notation
behind its pads; by induction over the number, on `PositionalIs`, that a number's notation is that
of its quotient and one digit more. `StringTextIs`: padding before and after a string that is cut off by its
precision make up the field. The last `%` before the cursor, where an unknown conversion goes back
to, is the one that started it because the rest of its spelling is `Ordinary`.

## 6. Where code and documentation disagree

Shown by runs:

* `usermem_wrap`: `va + len` is computed modulo 2^32 (`kern/pmap.c:602`), so a range that wraps
  around passes `user_mem_check`, of which `kern/pmap.c:595` says "Returns 0 if the user program
  can access this range of addresses, and -E_FAULT otherwise."
* `load_short`: `region_alloc` rounds `len` up by itself instead of `va + len`
  (`kern/env.c:290`), although the comment asks to "round va down, and round (va + len) up"; a segment that starts
  late in a page can reach one page further than is mapped, and `load_icode` faults in the
  kernel.

Met while modelling; the models follow the code or name the case they leave out:

* `SYS_cputs` leaves its `switch` by `break` and returns `-E_NO_SYS` (`kern/syscall.c:93`),
  "Unimplemented system call" in `inc/error.h`, for a call that exists and has succeeded.
* `"%.*s"` reads the byte after the last one before it looks at the precision
  (`lib/printfmt.c:181`), one beyond what `user_mem_check` has passed: at the end of a mapped
  region printing faults in the kernel, which panics (`print_char`, `sys_cputs_fault`).
* For a range that ends above `ULIM`, `user_mem_check_addr` is `va` and not "the first
  erroneous virtual address" (`kern/pmap.c:592-593`) if `va` itself is accessible.
* `stab_binsearch` increments the address on an exact match (`kern/kdebug.c:89`): of two
  entries one byte apart it returns the second for the address of the first (`Spaced` excludes
  this). If all entries lie above the address, the bracket it returns need not be empty, and
  `debuginfo_eip` takes a file entry at index 0 for none.
* `mon_backtrace` follows saved frame pointers until one is 0 (`kern/monitor.c:111`, `135`). From a
  breakpoint it comes to the frames of the program, which may have left anything there: pointers in a
  circle keep the monitor in its loop for ever, and one that leads nowhere is a page fault in the
  kernel, a panic. The exceptions in `CommandEnds` and `MonitorSurvives`.
* `debuginfo_eip` reads a program's symbol tables without checking them: the two places marked
  "LAB 3" are empty. A backtrace can fault in the kernel (`mon_backtrace_fault`).
* The console ring is filled without looking at `rpos` (`kern/console.c:399`): with
  `CONSBUFSIZE` characters waiting it looks empty, and all of them are lost.
* `page_init` does not look at `npages_basemem` although its comment says "[PGSIZE,
  npages_basemem * PGSIZE) is free" (`kern/pmap.c:279`): it frees everything up to the I/O hole. On a
  machine with less than 640 KB of base memory the free list has pages that are not memory; the run
  `startup` has such machines, `FreeListExact` says nothing of these pages, and a kernel that takes
  one for a page table is counted as one that faults.
* `boot_alloc` compares the *start* of the chunk with the end of memory (`kern/pmap.c:108`); a
  chunk that begins below the end and ends above it is returned and `mem_init` clears it, although
  "If we're out of memory, boot_alloc should panic" (`kern/pmap.c:81`); only the next call panics
  (`beyond`).
* `(2^32) - KERNBASE` (`kern/pmap.c:232`) is an exclusive or, 34 − KERNBASE. Division by `PGSIZE`
  in `boot_map_region` makes the right number of pages of it.
* `readline` erases on `'\b'` and `'\x7f'` only when the line is not empty (`lib/readline.c:22`); otherwise `'\x7f'`
  falls through to the next test, which takes everything from `' '` on: a rubout on an empty line
  is inserted and echoed as a character.
* `pgmod` converts its arguments to `bool` before it compares them with 0 and 1, so it takes any
  number; it tests `PTE_P` with `|`, so it edits entries that are not present; and it does not
  invalidate the TLB (`kern/monitor.c:244-272`).
* The loops of `showmappings`, `memxv` and `memxp` do not end when the range reaches the top of
  memory (`kern/monitor.c:209`): the exception in `CommandEnds`.
* `memxv` looks the address up in `kern_pgdir` but reads through whatever directory is in force;
  it panics for mapped pages beyond the memory there is (`page_lookup` calls `pa2page`), and
  faults on a word that reaches into a page that is not mapped: the exceptions in `MonitorSurvives`.
* `strtol` takes `-`, `+` and `0x` alone for 0, so the monitor does too.
* The kernel's `putch` counts with `*cnt++` (`kern/printf.c`), which advances the pointer: the
  kernel's `cprintf` returns 0 whatever it prints.
* `-` pads numbers on the left with the character `-`; a width that begins with 0 is read as the flag
  `0`, and so is `.0`. A negative number gets its sign before the padding (`lib/printfmt.c:193-196`):
  `%3d` of −4 is `-  4`, one column too many. `Sensible` leaves these formats out.
* Strings are padded, although `lib/printfmt.c:12` says that padding is "supported for the numeric
  formats only"; `Meant` takes a string with a width for padded.
* `%e` of the smallest `int`: `err = -err` stays negative (`lib/printfmt.c:166-168`) and is used as an
  index. On a 32-bit machine the address wraps to the first entry, which has no text, and the number
  is printed; the model does that (`Negated`).
* Kernels need not come in increasing order for the rounding of `readseg` to be harmless, although
  the comment in `boot/main.c:86` gives that as the reason; what matters is that addresses and file offsets agree
  modulo `SECTSIZE` and that segments which share a sector are as far apart in memory as in the
  file (`Loadable`).
* `bootmain` reads each program header from memory when it comes to it (`boot/main.c:51-56`), after the
  segments before it were loaded. A kernel with a segment over `ELFHDR` may overwrite the headers that
  are still to come, or `e_entry`; `HeadersKept` is the condition under which it does not.
* `boot.S` does not wait until the controller has acted on its last byte. If the disk is faster, the
  kernel's first sectors go to 0 instead of 1 MB and the loader jumps to what is not there
  (`"astray"`, the exception in `BootsWhenAdequate`).
* `error_string` in `lib/printfmt.c` has no text for `E_NO_SYS`.

## 7. What is only model-checked, and what is not modelled

* Liveness (`FaultIsFatal`, `CallEnds`, `CommandEnds`, `FormatEnds`, `AllRead`, `BootsWhenAdequate`) is checked
  by TLC only: the provers at hand do not treat fairness.
* All safety properties of the passing runs are proved.

Abstractions worth knowing:

* The kernel half of a directory is not in `Pmap`; `kern_pgdir` is in `MemInit`, and its edits by
  `pgmod` are in `Monitor`. `page_remove` frees the page before it clears the entry and invalidates
  the TLB; nothing runs between.
* A 16-bit `pp_ref` would wrap at 65536 mappings of one page. No caller in JOS maps a page more than
  twice, which `Pmap` assumes (`MaxShare`); nothing in the code would refuse it.
* Global pages, the accessed and dirty bits and the caching of entries that are not present do not
  occur on the processors and in the tables of JOS.
* Permissions are uninterpreted in `Pmap`. Environments in `Env` have a directory but no
  memory; failures of `env_setup_vm` change nothing there.
* Of `%eflags` the kernel's own register is followed only for `FL_IF`; `cld` and the other flags are
  left out there. Trapframes carry all of the program's flags.
* The keyboard's bytes are taken before the next key moves, since `kbd_proc_data` depends on the
  order of bytes alone; the ring in between is `Console`. Key tables are given for the keys that
  matter, not for all 256.
* Display attributes, the parallel port and the cursor's registers are left out.

* `Monitor` has the names and numbers of symbol tables as indices; of a frame it has the saved pointer
  and the return address, not the five arguments that `backtrace` prints; `help`, `kerninfo` and `meminfo` print constants.
* A program's own symbol tables are not checked by `debuginfo_eip`; the fault that follows is a step
  of `Kernel` (`mon_backtrace_fault`) and not of `Monitor`.

Not modelled: the user library and the test programs, which are instances of the arbitrary program
in `Kernel`; reading the clock chip, port I/O and bit layouts, which have no state that the
properties tell apart; the string functions that the kernel does not use or that are one loop without
a decision (`strcpy`, `strncmp`, `memcmp`, …); build files and grading scripts.

## 8. Plan

1. *Done:* `Pmap` with `AddrSpace` and `Tlb`; `Env`; `Kernel` with `Process`; `UserMem`;
   `LoadIcode`; `MemInit` and `BootLoader`; `Console` with `Fifo`; `Terminal`; `Stab`, `Symbols` and
   `Monitor`; `Format`; `String`. Proofs of the safety of each (section 5).
2. *Models to add.* A composition of `Env`, `Pmap` and `Kernel` for a kernel with several
   environments, once there is one: this kernel creates a single environment and never schedules.
3. *Theorems to add.* None for the safety properties of these runs. The models of item 2 would need theirs.
