--------------------------- MODULE MCBtfEncoder ---------------------------
(***************************************************************************)
(* Inputs for BtfEncoder: a vmlinux image with ftrace anchors, two CUs of *)
(* it that share a function, one with an int and one without, and a      *)
(* module object without anchors (the DWARF fallback).                     *)
(***************************************************************************)
EXTENDS BtfEncoder, TLC

(* Constructors of the input records.                                      *)
Sym(n, ty, v, sz, sh) ==
  [name |-> n, type |-> ty, value |-> v, size |-> sz, shndx |-> sh]
Tag(tg, ty, n, d, ms) ==
  [tag |-> tg, type |-> ty, name |-> n, decl |-> d, members |-> ms]
Base(n)       == Tag("base_type", 0, n, FALSE, <<>>)
Ptr(t)        == Tag("pointer_type", t, "", FALSE, <<>>)
Typedef(n, t) == Tag("typedef", t, n, FALSE, <<>>)
Array(t, ds)  == Tag("array_type", t, "", FALSE, ds)
Struct(n, ms) == Tag("structure_type", 0, n, FALSE, ms)
Fwd(n)        == Tag("union_type", 0, n, TRUE, <<>>)
Proto(r, ps)  == Tag("subroutine_type", r, "", FALSE, ps)
Fn(n, decl, ext, args, r, ps) ==
  [name |-> n, declaration |-> decl, external |-> ext, arg_names |-> args,
   type |-> r, params |-> ps]
Var(decl, glob, addr, t, ext) ==
  [declaration |-> decl, global |-> glob, addr |-> addr, type |-> t,
   external |-> ext, spec |-> FALSE, spec_type |-> 0, spec_external |-> FALSE]
(* A definition whose DW_AT_specification points at its declaration.      *)
VarSpec(addr, t, ext) ==
  [Var(FALSE, FALSE, addr, 0, FALSE) EXCEPT !.spec = TRUE, !.spec_type = t,
                                            !.spec_external = ext]

MCFiles == {"vmlinux", "mod.o"}

(* vmlinux: mcount words at 1000..1023 list 100 (foo), 510 (initfn, in    *)
(* .init) and 555 (bpfinit, in the bpf-preserved part of .init).  The     *)
(* per-CPU section 3 starts at 4; pcpu_b lives at 6 and pcpu_a at 8, so   *)
(* the table of two is full; bad-sym has an invalid name.                 *)
VmlinuxSyms ==
  << Sym("__start_mcount_loc", "NOTYPE", 1000, 0, 7),
     Sym("__stop_mcount_loc", "NOTYPE", 1024, 0, 7),
     Sym("__init_begin", "NOTYPE", 500, 0, 1),
     Sym("__init_end", "NOTYPE", 600, 0, 1),
     Sym("__init_bpf_preserve_type_begin", "NOTYPE", 550, 0, 1),
     Sym("__init_bpf_preserve_type_end", "NOTYPE", 560, 0, 1),
     Sym("foo", "FUNC", 100, 16, 1),
     Sym("initfn", "FUNC", 510, 16, 1),
     Sym("bpfinit", "FUNC", 555, 16, 1),
     Sym("pcpu_b", "OBJECT", 6, 2, 3),
     Sym("pcpu_a", "OBJECT", 8, 4, 3) >>

BadSym == Sym("bad-sym", "OBJECT", 16, 4, 3)

VmlinuxWith(syms, mcount) ==
  [syms |-> syms, percpu_shndx |-> 3, percpu_base_addr |-> 4,
   symtab |-> TRUE,
   sections |-> (7 :> [sh_addr |-> 1000, data |-> mcount])]

Vmlinux      == VmlinuxWith(VmlinuxSyms \o <<BadSym>>, <<555, 510, 100>>)
VmlinuxClean == VmlinuxWith(VmlinuxSyms, <<555, 510, 100>>)
(* An image whose mcount table lists none of its functions.                *)
VmlinuxNoTrace == VmlinuxWith(VmlinuxSyms, <<999, 998, 997>>)

ModObj ==
  [syms |-> << Sym("wk", "FUNC", 40, 8, 1) >>, percpu_shndx |-> 0,
   percpu_base_addr |-> 0, symtab |-> TRUE, sections |-> <<>>]

(* A module object with a per-CPU section holding a badly named symbol.    *)
ModObjBadPercpu ==
  [ModObj EXCEPT !.percpu_shndx = 2,
                 !.syms = Append(@, Sym("bad-sym", "OBJECT", 16, 4, 2))]

MCElf        == [f \in MCFiles |-> IF f = "vmlinux" THEN Vmlinux ELSE ModObj]
MCElfFail    == [f \in MCFiles |-> IF f = "vmlinux" THEN VmlinuxClean
                                  ELSE ModObjBadPercpu]
MCElfNoTrace == [f \in MCFiles |-> IF f = "vmlinux" THEN VmlinuxNoTrace
                                  ELSE ModObj]

MCNameChars ==
  ("pcpu_a" :> <<"alpha", "alpha", "alpha", "alpha", "us", "alpha">>)
  @@ ("pcpu_b" :> <<"alpha", "alpha", "alpha", "alpha", "us", "alpha">>)
  @@ ("bad-sym" :> <<"alpha", "alpha", "alpha", "other", "alpha">>)

(* cu1 has an int; cu2 has none, a void pointer and an array, so the      *)
(* synthetic index type is needed when it is the first CU of vmlinux.     *)
(* cu2 defines pcpu_b, below cu1's pcpu_a in the per-CPU section.         *)
Cu1 ==
  [name |-> "cu1", file |-> "vmlinux",
   types |-> << Base("int"), Ptr(1), Array(2, <<3>>) >>,
   funcs |-> << Fn("foo", FALSE, TRUE, TRUE, 1, <<2>>),
                Fn("initfn", FALSE, TRUE, TRUE, 0, <<>>) >>,
   vars  |-> << VarSpec(8, 1, TRUE) >>]
Cu2 ==
  [name |-> "cu2", file |-> "vmlinux",
   types |-> << Base("long"), Ptr(0), Array(1, <<2, 3, 2>>), Struct("s", <<1, 2>>) >>,
   funcs |-> << Fn("foo", FALSE, TRUE, TRUE, 0, <<1>>),
                Fn("bpfinit", FALSE, FALSE, TRUE, 2, <<>>) >>,
   vars  |-> << Var(FALSE, TRUE, 16, 1, TRUE), Var(FALSE, TRUE, 6, 1, TRUE) >>]
Cu3 ==
  [name |-> "cu3", file |-> "mod.o",
   types |-> << Base("char"), Typedef("c_t", 1), Proto(0, <<2>>), Fwd("u") >>,
   funcs |-> << Fn("wk", FALSE, TRUE, FALSE, 2, <<0>>),
                Fn("ext_decl", TRUE, TRUE, TRUE, 0, <<>>),
                Fn("local", FALSE, FALSE, TRUE, 0, <<>>) >>,
   vars  |-> << >>]

(* A second definition of the external (weak) function wk in mod.o.      *)
Cu4 ==
  [name |-> "cu4", file |-> "mod.o",
   types |-> << Base("int") >>,
   funcs |-> << Fn("wk", FALSE, TRUE, TRUE, 1, <<>>) >>,
   vars  |-> << >>]

(* A second CU of mod.o with an enum, a pointer to it and a function.     *)
Cu5 ==
  [name |-> "cu5", file |-> "mod.o",
   types |-> << Base("int"), Tag("enumeration_type", 0, "e", FALSE, <<>>), Ptr(2) >>,
   funcs |-> << Fn("m5", FALSE, TRUE, TRUE, 1, <<3>>) >>,
   vars  |-> << >>]

MCCUs     == {Cu1, Cu2, Cu3, Cu5}
MCCUsWeak == {Cu1, Cu3, Cu4}
MCCUsAll  == {Cu1, Cu2, Cu3, Cu4}
=============================================================================
