----------------------------- MODULE BootLoader -----------------------------
(***************************************************************************)
(* From power on to mem_init: boot/boot.S opens the memory above 1 MB,     *)
(* bootmain of boot/main.c copies the kernel from the disk by sectors,     *)
(* kern/entry.S installs entry_pgdir, and i386_init clears bss; the rest   *)
(* is module MemInit.  The disk and the keyboard controller answer when    *)
(* they like.  An address is a number of bytes, of which a page has PGSIZE.*)
(***************************************************************************)
EXTENDS MemInit, String

CONSTANTS SECTSIZE, PGSIZE,
          ELFHDR,       \* scratch space
          HeaderSectors,\* 8: what bootmain reads to ELFHDR
          EhSize,       \* bytes of a struct Elf
          PhSize,       \* bytes of a struct Proghdr
          Images,       \* kernels on the disk: [magic : BOOLEAN, e_phoff, segments],
                        \* segments are of [p_pa, p_offset, p_filesz, p_memsz]
          Garbled       \* what a program header that was overwritten may say

SegmentType == [p_pa : Nat, p_offset : Nat, p_filesz : Nat, p_memsz : Nat]
HeaderSize == SECTSIZE * HeaderSectors

ASSUME BootAssumption ==
  /\ {SECTSIZE, PGSIZE, HeaderSectors, EhSize, PhSize} \subseteq Nat \ {0}
  /\ ELFHDR \in Nat /\ ELFHDR % SECTSIZE = 0 /\ EhSize <= HeaderSize
  /\ \A i \in Images :
       /\ i.magic \in BOOLEAN /\ i.e_phoff \in Nat
       /\ i.segments \in Seq(SegmentType) \ {<<>>}
       /\ \A s \in ToSet(i.segments) : s.p_filesz <= s.p_memsz
  /\ Garbled \subseteq SegmentType /\ Garbled # {}
  /\ \A b \in Base : ELFHDR + HeaderSize <= b * PGSIZE

VARIABLES image,
          boot,               \* where the loader is
          kbc,                \* the keyboard controller: full, byte in its input
                              \* buffer, whether the next one is for its output port
          a20,
          disk,               \* "ready", "busy" or "data"
          ph,                 \* the program header that is next; eph is behind the last
          pa, end_pa, offset, \* the locals of readseg
          mem,                \* what memory has at an address: <<"file", offset>>, <<"zero">>
                              \* or <<"any">>
          wrapped             \* auxiliary: something was read to another address than its own,
                              \* because A20 was not open yet

loading == <<ph, pa, end_pa, offset, mem, wrapped>>
boot_vars == <<image, boot, kbc, a20, disk, loading>>

end_of(s) == s.p_pa + s.p_memsz
Highest(segments) == CHOOSE s \in ToSet(segments) : \A t \in ToSet(segments) : t.p_pa <= s.p_pa
\* edata and end: bss is what the highest segment has in memory but not in the file.
edata == Highest(image.segments).p_pa + Highest(image.segments).p_filesz
end == end_of(Highest(image.segments))
EndPage(i) == (end_of(Highest(i.segments)) + PGSIZE - 1) \div PGSIZE

PowerOn ==
  /\ Init
  /\ image \in Images /\ kernel_end = EndPage(image)
  /\ boot = "seta20.1"
  /\ kbc = [full |-> FALSE, byte |-> 0, port |-> FALSE] /\ a20 = FALSE
  /\ disk = "ready"
  /\ ph = 1 /\ pa = 0 /\ end_pa = 0 /\ offset = 0
  /\ mem = [a \in {b \in 0 .. npages * PGSIZE - 1 : IsMemory(b \div PGSIZE)} |-> <<"any">>]
  /\ wrapped = FALSE

MB == EXTPHYSMEM * PGSIZE
\* Address line 20 is low until it is enabled.
Phys(a) == IF ~ a20 /\ (a \div MB) % 2 = 1 THEN a - MB ELSE a

-----------------------------------------------------------------------------
\* The controller takes the byte from its buffer; 0xd1 makes the next one the
\* value of the output port, whose bit 1 is A20.
controller ==
  /\ kbc.full
  /\ kbc' = [full |-> FALSE, byte |-> 0, port |-> kbc.byte = 209]
  /\ a20' = (a20 \/ (kbc.port /\ kbc.byte = 223))
  /\ UNCHANGED <<image, boot, disk, loading>>

\* Also before the controller has taken its last byte: boot.S does not wait for A20.
disk_done ==
  /\ disk = "busy" /\ disk' = "data"
  /\ UNCHANGED <<image, boot, kbc, a20, loading>>

NotBusyNot == TRUE                      \* Mutant: the loop after the label is gone.
NotBusy == ~ kbc.full                   \* inb $0x64; testb $0x2; jnz

Send(byte, next) ==
  /\ NotBusy
  /\ kbc' = [kbc EXCEPT !.full = TRUE, !.byte = byte] /\ boot' = next
  /\ UNCHANGED <<image, a20, disk, loading>>
seta20_1 == boot = "seta20.1" /\ Send(209, "seta20.2")
seta20_2 == boot = "seta20.2" /\ Send(223, "bootmain")

-----------------------------------------------------------------------------
ROUNDDOWN(a, n) == a - (a % n)

\* Mutant: the end is counted from the start of the sector.
readsegShort(p, count, off) ==
  /\ pa' = ROUNDDOWN(p, SECTSIZE) /\ end_pa' = pa' + count
  /\ offset' = (off \div SECTSIZE) + 1
readseg(p, count, off) ==
  /\ end_pa' = p + count
  /\ pa' = ROUNDDOWN(p, SECTSIZE)
  /\ offset' = (off \div SECTSIZE) + 1

Reading == boot \in {"header", "segments"} /\ pa < end_pa

readsect_command ==
  /\ Reading /\ disk = "ready" /\ disk' = "busy"
  /\ UNCHANGED <<image, boot, kbc, a20, loading>>

\* The kernel's file starts at sector 1 of the disk.
Sector == {Phys(pa + i) : i \in 0 .. SECTSIZE - 1}
FileByte(a) == CHOOSE k \in (offset - 1) * SECTSIZE .. offset * SECTSIZE - 1 :
                 Phys(pa + k - (offset - 1) * SECTSIZE) = a

readsect_insl ==
  /\ Reading /\ disk = "data" /\ disk' = "ready"
  /\ mem' = [a \in DOMAIN mem |-> IF a \in Sector THEN <<"file", FileByte(a)>> ELSE mem[a]]
  /\ pa' = pa + SECTSIZE /\ offset' = offset + 1
  /\ wrapped' = (wrapped \/ \E i \in 0 .. SECTSIZE - 1 : Phys(pa + i) # pa + i)
  /\ UNCHANGED <<image, boot, kbc, a20, ph, end_pa>>

bootmain ==
  /\ boot = "bootmain" /\ boot' = "header"
  /\ readseg(ELFHDR, HeaderSize, 0)
  /\ UNCHANGED <<image, kbc, a20, disk, ph, mem, wrapped>>

\* The headers are read where they are used: n bytes at offset k of the file are there
\* if nothing that was loaded since has overwritten them.
AtHeader(k, n) ==
  \A j \in k .. k + n - 1 : ELFHDR + j \in DOMAIN mem /\ mem[ELFHDR + j] = <<"file", j>>
Elf == AtHeader(0, EhSize)
Proghdr(i) ==
  IF AtHeader(image.e_phoff + (i - 1) * PhSize, PhSize) THEN {image.segments[i]} ELSE Garbled
eph == Len(image.segments) + 1

valid_elf ==
  /\ boot = "header" /\ ~ Reading
  /\ boot' = IF Elf /\ image.magic THEN "segments" ELSE "bad"
  /\ UNCHANGED <<image, kbc, a20, disk, loading>>

next_segment ==
  /\ boot = "segments" /\ ~ Reading /\ ph < eph
  /\ \E s \in Proghdr(ph) : readseg(s.p_pa, s.p_memsz, s.p_offset)
  /\ ph' = ph + 1
  /\ UNCHANGED <<image, boot, kbc, a20, disk, mem, wrapped>>

\* bootmain calls e_entry; entry.S goes on above KERNBASE with entry_pgdir.  With e_entry
\* overwritten, or A20 not open for all of the kernel, other code runs there.
entry ==
  /\ boot = "segments" /\ ~ Reading /\ ph = eph
  /\ boot' = IF Elf /\ a20 /\ ~ wrapped THEN "i386_init" ELSE "astray"
  /\ UNCHANGED <<image, kbc, a20, disk, loading>>

Bss == edata .. end - 1

\* memset(edata, 0, end - edata)
i386_init ==
  /\ boot = "i386_init"
  /\ IF \A a \in Bss : Reachable(a \div PGSIZE)
     THEN /\ mem' = memset(mem, edata, <<"zero">>, end - edata)
          /\ boot' = "mem_init"
     ELSE boot' = "fault" /\ UNCHANGED mem
  /\ UNCHANGED <<image, kbc, a20, disk, ph, pa, end_pa, offset, wrapped>>

mem_init == boot = "mem_init" /\ Next /\ UNCHANGED boot_vars

Load ==
  \/ seta20_1 \/ seta20_2 \/ bootmain \/ valid_elf \/ next_segment
  \/ readsect_command \/ readsect_insl \/ entry \/ i386_init
Devices == controller \/ disk_done

StartupNext == ((Load \/ Devices) /\ UNCHANGED vars) \/ mem_init
all_vars == <<vars, boot_vars>>
Startup ==
  /\ PowerOn /\ [][StartupNext]_all_vars
  /\ WF_all_vars(Load /\ UNCHANGED vars) /\ WF_all_vars(mem_init)
  /\ WF_all_vars(controller /\ UNCHANGED vars) /\ WF_all_vars(disk_done /\ UNCHANGED vars)

-----------------------------------------------------------------------------
\* What is read first, as if it were a segment.
Header == [p_pa |-> ELFHDR, p_offset |-> 0, p_filesz |-> HeaderSize, p_memsz |-> HeaderSize]

\* Two parts share a sector, or overlap, only if they are as far apart in memory as in
\* the file.
Apart(s, t) == end_of(s) <= ROUNDDOWN(t.p_pa, SECTSIZE)
Compatible(s, t) ==
  Apart(s, t) \/ Apart(t, s) \/ t.p_pa - s.p_pa = t.p_offset - s.p_offset

\* The headers are in what is read first, and no segment overwrites them.
HeadersKept ==
  /\ image.e_phoff + Len(image.segments) * PhSize <= HeaderSize
  /\ \A s \in ToSet(image.segments) : Compatible(s, Header)

\* Kernels that may be loaded by whole sectors: their headers are kept, segments agree
\* with the file modulo SECTSIZE and with each other, there is memory for them, and bss
\* is above all that the file holds.
Loadable ==
  /\ HeadersKept
  /\ \A s \in ToSet(image.segments) :
       /\ s.p_pa % SECTSIZE = s.p_offset % SECTSIZE
       /\ s.p_pa .. end_of(s) - 1 \subseteq DOMAIN mem
       /\ s.p_pa + s.p_filesz <= edata
  /\ \A s, t \in ToSet(image.segments) : Compatible(s, t)

\* Whatever the rounding writes around a segment, in whatever order segments come, and
\* although every header is read after the segments before it were loaded, when mem_init
\* begins every byte of every segment is the one in the file, and bss is zero, although
\* the loader has filled it with what follows there.  A kernel of which some part went to
\* another address because A20 was late does not come that far.
\* (bootmain, readseg; boot.S's A20; i386_init's memset)
KernelLoaded ==
  boot = "mem_init" /\ Loadable =>
    /\ \A s \in ToSet(image.segments) :
         \A k \in 0 .. s.p_filesz - 1 : mem[s.p_pa + k] = <<"file", s.p_offset + k>>
    /\ \A a \in Bss : mem[a] = <<"zero">>

\* With adequate memory every kernel that leaves its headers alone comes up, unless the
\* disk was faster than the keyboard controller: no wait for a device lasts for ever, no
\* byte is written over one that the controller still has, no sanity check of mem_init
\* fails, and no page is used that the directory in force does not map.
\* (seta20, bootmain, i386_init, mem_init)
BootsWhenAdequate ==
  Adequate /\ image.magic /\ HeadersKept => <>(pc = "done" \/ (wrapped /\ kbc.full))
=============================================================================
