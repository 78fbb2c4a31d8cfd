----------------------------- MODULE MCRoutines -----------------------------
(***************************************************************************)
(* Small inputs for TLC around the boundaries of every routine; those of   *)
(* the symbol table are in MCKallsyms, single numbers in the cfg.          *)
(***************************************************************************)
EXTENDS Routines, MCKallsyms

(* Pages of 2 units and tables of 4 entries: ranges of one page, of one
   table and over several tables and directory entries; pages in the
   directory of the sections, and page 78 in the sections, which only the
   guest maps.  Two calls behind the sections of the kernel, three in the
   empty tables of the guest.                                              *)
Mapped(v, p, s, prot) == [virt |-> v, phys |-> p, size |-> s, prot |-> prot]
MCFreePages == [k \in 1 .. 10 |-> 37 + k]
MCMappings ==
  {Mapped(v, v, s, {"V", "R", "W", "A", "D", "G"}) : v \in {0, 6, 7, 22}, s \in {1, 4, 9, 17}}
  \cup {Mapped(vp[1], vp[2], 2, {"V", "R", "X", "A", "D", "G"}) :
          vp \in {<<6, 16>>, <<6, 70>>, <<70, 16>>, <<78, 70>>}}

(* Sizes around the powers of two below 2^6, register numbers past the end. *)
MCRequests == [reg : {0, 1, 7, 8, 9}, start : {0, 20, 32},
               size : {2, 3, 4, 5, 16, 31, 33, 63}, prot : {{"R"}, {"R", "W", "X"}}]

MCFills == [s : 14 .. 33, c : {0, 85, 341}, count : 0 .. 50]

(* Numbers around the widths of 4, 6 and 8 bits.                           *)
MCDirectives ==
  [conv : {"d", "u", "x", "o", "p", "s", "c"},
   flags : SUBSET {"ZEROPAD", "PLUS", "SPACE", "LEFT", "SPECIAL"},
   width : {-1, 5}, precision : {-1, 0, 4}, qualifier : {"", "h", "l"}]
MCStrings == {<<>>, <<"o", "k">>, <<"b", "e", "n", "o", "s">>}
=============================================================================
