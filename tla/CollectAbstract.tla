-------------------------- MODULE CollectAbstract --------------------------
(***************************************************************************)
(* What the symbol collector promises (spec.md 4.A and 4.B), stated from   *)
(* the ELF image alone, in one step: the per-CPU table holds the per-CPU  *)
(* objects whose names are identifiers; the function table holds, for a   *)
(* kernel image, the function symbols that are ftrace locations and not   *)
(* plain .init code, and is empty otherwise; the collection fails when a   *)
(* per-CPU name is bad without force, when the per-CPU table would exceed *)
(* its capacity, or when the mcount section of a kernel image is missing. *)
(* Tables keep the order of the symbol table.                              *)
(***************************************************************************)
EXTENDS Naturals, Sequences, SequencesExt, NameValidator

CONSTANTS
    Images,              \* the ELF images, records as in SymbolCollector
    MAX_PERCPU_VAR_CNT,
    NameChars            \* [symbol name -> Seq(Chars)]

VARIABLES
    elf,
    flags,    \* [percpu: !skip_encoding_vars, force: btf_elf__force]
    result

avars == <<elf, flags, result>>

Flags == [percpu : BOOLEAN, force : BOOLEAN]

Pending == [state |-> "pending", functions |-> <<>>, percpu_vars |-> <<>>]
Failed  == [state |-> "failed", functions |-> <<>>, percpu_vars |-> <<>>]

LayoutNames == {"__start_mcount_loc", "__stop_mcount_loc", "__init_begin",
                "__init_end", "__init_bpf_preserve_type_begin",
                "__init_bpf_preserve_type_end"}

(* The symbol a layout name refers to: the first of that name with a       *)
(* non-zero value, 0 when there is none.                                   *)
AnchorIdx(e, a) == SelectInSeq(e.syms, LAMBDA s : s.name = a /\ s.value # 0)
AnchorVal(e, a) == IF AnchorIdx(e, a) = 0 THEN 0 ELSE e.syms[AnchorIdx(e, a)].value

(* Objects of the per-CPU section with an address and a size, and those of *)
(* them whose name is in the identifier language.                          *)
PercpuObjects(e) ==
    SelectSeq(e.syms, LAMBDA s : /\ s.shndx = e.percpu_shndx
                                 /\ s.type = "OBJECT"
                                 /\ s.value # 0 /\ s.size # 0)
Identifier(s) == WindowNameValid(NameChars[s.name])
PercpuTable(e) ==
    LET ok == SelectSeq(PercpuObjects(e), Identifier)
    IN  [j \in DOMAIN ok |-> [addr |-> ok[j].value, sz |-> ok[j].size,
                              name |-> ok[j].name]]

PercpuFails(e) ==
    /\ flags.percpu
    /\ \/ ~flags.force /\ \E j \in DOMAIN PercpuObjects(e) :
                      ~Identifier(PercpuObjects(e)[j])
       \/ Len(PercpuTable(e)) > MAX_PERCPU_VAR_CNT

FuncSyms(e) == SelectSeq(e.syms, LAMBDA s : s.type = "FUNC" /\ s.value # 0)

(* Function filtering is on for an image with functions and all anchors.  *)
KernelImage(e) ==
    FuncSyms(e) # <<>> /\ \A a \in LayoutNames : AnchorVal(e, a) # 0

McountSection(e) == e.syms[AnchorIdx(e, "__start_mcount_loc")].shndx

FilterFails(e) == KernelImage(e) /\ McountSection(e) \notin DOMAIN e.sections

(* An ftrace location: a word of the mcount section lying at an address in *)
(* [__start_mcount_loc, __stop_mcount_loc).                                *)
Traced(e, a) ==
    LET sec == e.sections[McountSection(e)]
    IN  \E j \in DOMAIN sec.data :
          /\ sec.data[j] = a
          /\ AnchorVal(e, "__start_mcount_loc") <= sec.sh_addr + 8 * (j - 1)
          /\ sec.sh_addr + 8 * (j - 1) < AnchorVal(e, "__stop_mcount_loc")

InRange(a, lo, hi) == lo <= a /\ a < hi
PlainInit(e, a) ==
    /\ InRange(a, AnchorVal(e, "__init_begin"), AnchorVal(e, "__init_end"))
    /\ ~InRange(a, AnchorVal(e, "__init_bpf_preserve_type_begin"),
                AnchorVal(e, "__init_bpf_preserve_type_end"))

FunctionTable(e) ==
    IF ~KernelImage(e) THEN <<>>
    ELSE LET ok == SelectSeq(FuncSyms(e), LAMBDA s : Traced(e, s.value)
                                                    /\ ~PlainInit(e, s.value))
         IN  [j \in DOMAIN ok |-> [name |-> ok[j].name, addr |-> ok[j].value,
                                   generated |-> FALSE]]

Promised(e) ==
    IF PercpuFails(e) \/ FilterFails(e) THEN Failed
    ELSE [state |-> "done", functions |-> FunctionTable(e),
          percpu_vars |-> IF flags.percpu THEN PercpuTable(e) ELSE <<>>]

Init == elf \in Images /\ flags \in Flags /\ result = Pending

Collect == result = Pending /\ result' = Promised(elf) /\ UNCHANGED <<elf, flags>>

Spec == Init /\ [][Collect]_avars

(* The collection is a call that returns.                                  *)
FairSpec == Spec /\ WF_avars(Collect)
=============================================================================
