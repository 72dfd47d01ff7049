----------------------------- MODULE MCStartup -----------------------------
(* Page tables of 22 entries: entry_pgdir maps 22 pages, of which a big    *)
(* kernel leaves too few; memory ends before, in and after the heap and    *)
(* beyond those 22 pages.  A page has two sectors of two bytes; kernels    *)
(* have a text and a data segment that begin and end anywhere in a sector, *)
(* or a low segment, which may lie over the headers.                       *)
EXTENDS BootLoader, TLC

Segment(pa_, off, filesz, bss) ==
  [p_pa |-> pa_, p_offset |-> off, p_filesz |-> filesz, p_memsz |-> filesz + bss]

\* Data follows text in memory after a gap, and in the file after another one.
Kernel(text, gap, filegap, data, bss) ==
  <<Segment(MB, 16, text, 0), Segment(MB + text + gap, 16 + text + filegap, data, bss)>>

Image(magic, phoff, segments) == [magic |-> magic, e_phoff |-> phoff, segments |-> segments]

\* Low segments: between the headers and the kernel, where the headers are (the file's
\* own bytes, then others); the last two come when the program headers have been used.
Below == Segment(12, 14, 2, 0)
Same == Segment(ELFHDR + 4, 4, 3, 0)
Over == Segment(ELFHDR + 4, 16, 2, 0)
Plain == Segment(MB, 16, 10, 2)

MCImages ==
  {Image(TRUE, 2, Kernel(text, gap, filegap, data, bss)) :
     text \in {7, 8}, gap \in 0 .. 1, filegap \in 0 .. 2, data \in {5, 12}, bss \in {0, 3}}
  \cup {Image(TRUE, 3, Kernel(8, 0, 0, 4, bss)) : bss \in {16, 24, 40}}
  \cup {Image(TRUE, 2, Reverse(Kernel(9, gap, filegap, 8, 2))) : gap \in 0 .. 1, filegap \in {0, 1, 3}}
  \cup {Image(TRUE, 2, <<s, Plain>>) : s \in {Below, Same, Over}}
  \cup {Image(TRUE, 2, <<Plain, s>>) : s \in {Over, Segment(ELFHDR, 16, 2, 0)}}
  \cup {Image(FALSE, 2, Kernel(8, 0, 0, 8, 0))}

MCKernelEnds == {EndPage(i) : i \in MCImages}
MCGarbled == {Segment(0, 0, 0, 0), Segment(MB, 5, 3, 0)}
=============================================================================
