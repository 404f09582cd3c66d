----------------------------- MODULE MCCollect -----------------------------
(***************************************************************************)
(* Inputs for CollectLoop: kernel-like images built from a choice of       *)
(* function symbols, of per-CPU objects (up to one more than the table    *)
(* holds, with or without a badly named one) and of the anchor layout.    *)
(*                                                                         *)
(* The mcount section 7 starts at 64 and holds the words 41, 10, 20, 30,  *)
(* 12 at 64, 72, 80, 88, 96; __start_mcount_loc = 72 and                  *)
(* __stop_mcount_loc = 96 select 10, 20 and 30, so the words before the   *)
(* start and at the stop are outside the table.  .init is [20, 32) and    *)
(* its bpf-preserved part [28, 32).                                        *)
(***************************************************************************)
EXTENDS CollectLoop, FiniteSets

Sym(n, ty, v, sz, sh) ==
  [name |-> n, type |-> ty, value |-> v, size |-> sz, shndx |-> sh]

(* fa traced, fb at the stop word, fc traced but plain .init, fd traced   *)
(* and bpf-preserved, fe at the word before the start; f0 has no address. *)
FuncSymsAll ==
  << Sym("f0", "FUNC", 0, 8, 1), Sym("fa", "FUNC", 10, 8, 1),
     Sym("fb", "FUNC", 12, 8, 1), Sym("fc", "FUNC", 20, 8, 1),
     Sym("fd", "FUNC", 30, 8, 1), Sym("fe", "FUNC", 41, 8, 1) >>

(* Per-CPU objects of section 3 in address order; pz has no address and   *)
(* ps no size, so neither is collected.                                    *)
PercpuSyms(n, bad) ==
  LET valid == << Sym("pa", "OBJECT", 8, 4, 3), Sym("pb", "OBJECT", 16, 4, 3),
                  Sym("pc", "OBJECT", 24, 4, 3) >>
  IN  << Sym("pz", "OBJECT", 0, 4, 3) >>
      \o SubSeq(valid, 1, n)
      \o (IF bad THEN << Sym("bad-sym", "OBJECT", 40, 4, 3) >> ELSE <<>>)
      \o << Sym("ps", "OBJECT", 48, 0, 3) >>

AnchorSyms ==
  << Sym("__start_mcount_loc", "NOTYPE", 72, 0, 7),
     Sym("__stop_mcount_loc", "NOTYPE", 96, 0, 7),
     Sym("__init_begin", "NOTYPE", 20, 0, 1),
     Sym("__init_end", "NOTYPE", 32, 0, 1),
     Sym("__init_bpf_preserve_type_begin", "NOTYPE", 28, 0, 1) >>
BpfEnd == Sym("__init_bpf_preserve_type_end", "NOTYPE", 32, 0, 1)

(* The anchors: all six; one missing (a module or an old kernel); all six *)
(* with no mcount section header; all six after a zero-valued             *)
(* __start_mcount_loc of another section.                                  *)
Layouts == {"full", "nobpf", "nosec", "zerostart"}
LayoutSyms(l) ==
  CASE l = "full"      -> Append(AnchorSyms, BpfEnd)
    [] l = "nobpf"     -> AnchorSyms
    [] l = "nosec"     -> Append(AnchorSyms, BpfEnd)
    [] l = "zerostart" -> << Sym("__start_mcount_loc", "NOTYPE", 0, 0, 9) >>
                          \o Append(AnchorSyms, BpfEnd)

McountSec == 7 :> [sh_addr |-> 64, data |-> << 41, 10, 20, 30, 12 >>]

Image(fs, n, bad, l) ==
  [syms |-> LayoutSyms(l) \o SelectSeq(FuncSymsAll, LAMBDA s : s.name \in fs)
            \o PercpuSyms(n, bad),
   percpu_shndx |-> 3, percpu_base_addr |-> 0, symtab |-> TRUE,
   sections |-> IF l = "nosec" THEN <<>> ELSE McountSec]

(* Every set of functions under the full layout; under the others, f0, fa *)
(* and fb, which the filter would split.  No per-CPU object, as many as   *)
(* the table holds, and one more.                                          *)
MCImages ==
  {Image(fs, n, bad, "full") : fs \in SUBSET {"f0", "fa", "fb", "fc", "fd", "fe"},
                               n \in {0, 2, 3}, bad \in BOOLEAN}
  \cup {Image({"f0", "fa", "fb"}, n, bad, l) : n \in {0, 2, 3}, bad \in BOOLEAN,
                                              l \in Layouts}

MCNameChars ==
  [n \in {"pa", "pb", "pc", "pz", "ps"} |-> << "alpha", "alpha" >>]
  @@ ("bad-sym" :> << "alpha", "alpha", "alpha", "other", "alpha" >>)
=============================================================================
