---------------------------- MODULE MCLoadIcode ----------------------------
(* Pages of three bytes, six of them; images of up to two segments that    *)
(* start and end anywhere in a page.                                       *)
EXTENDS LoadIcode, TLC

MCSegment(vas, sizes) ==
  {s \in [p_va : vas, p_memsz : sizes, p_filesz : {0, 1, 2, 4}, load : BOOLEAN] :
     s.p_filesz <= s.p_memsz}
MCImages ==
  {i \in {<<>>} \cup {<<s>> : s \in MCSegment(0 .. 2, 0 .. 6)}
         \cup {<<s, t>> : s \in MCSegment({0, 2}, {1, 2, 4}),
                          t \in MCSegment({4, 9, 10}, {2, 3, 4})} :
     WellFormed(i)}
============================================================================
