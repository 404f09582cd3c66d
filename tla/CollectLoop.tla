---------------------------- MODULE CollectLoop ----------------------------
(***************************************************************************)
(* collect_symbols of btf_encoder.c step by step: one step per symbol of   *)
(* the symbol-table loop (collect_percpu_var, collect_function,            *)
(* collect_symbol), the end of the loop with the prologue of               *)
(* filter_functions (the mcount table read with unsigned long arithmetic), *)
(* then one step per entry of the in-place compaction loop.  The per-     *)
(* symbol helpers are the operators of SymbolCollector.                    *)
(*                                                                         *)
(* The images list their function symbols in name order and their per-   *)
(* CPU symbols in address order, so the two qsorts leave the tables as    *)
(* they are; the mcount words are only searched (bsearch after qsort),    *)
(* which the model does as set membership.                                 *)
(***************************************************************************)
EXTENDS Naturals, Sequences, SequencesExt, SymbolCollector

CONSTANTS
    Images,              \* the ELF images btf_elf__new may open
    ULONG_BITS           \* width of unsigned long, scaled down

VARIABLES
    elf,              \* the image of btfe
    flags,            \* [percpu: collect_percpu_vars, force: btf_elf__force]
    lpc,              \* "syms", "filter", "done"
    k,                \* the symbol loop index (core_id + 1)
    functions,        \* functions[0..functions_cnt-1]
    percpu_vars,      \* percpu_vars[0..percpu_var_cnt-1]
    fl,               \* struct funcs_layout
    addrs,            \* the mcount table filter_functions copied
    i,                \* the filter loop index
    functions_valid,
    err               \* collect_symbols returned -1

vars == <<elf, flags, lpc, k, functions, percpu_vars, fl, addrs, i, functions_valid,
          err>>

ULong(x) == x % (2 ^ ULONG_BITS)

Init ==
    /\ elf \in Images
    /\ flags \in [percpu : BOOLEAN, force : BOOLEAN]
    /\ lpc = "syms" /\ k = 1
    /\ functions = <<>> /\ percpu_vars = <<>> /\ fl = EmptyLayout
    /\ addrs = {} /\ i = 0 /\ functions_valid = 0 /\ err = FALSE

(* The per-CPU check of symbol k, when per-CPU variables are collected.    *)
PercpuStep == IF flags.percpu
                THEN collect_percpu_var(elf, elf.syms[k], percpu_vars, flags.force)
                ELSE [err |-> FALSE, vars |-> percpu_vars]

(* One iteration of elf_symtab__for_each_symbol.                           *)
CollectSym ==
    /\ lpc = "syms" /\ k <= Len(elf.syms)
    /\ ~PercpuStep.err
    /\ percpu_vars' = PercpuStep.vars
    /\ functions' = collect_function(elf.syms[k], functions)
    /\ fl' = collect_symbol(elf.syms[k], fl)
    /\ k' = k + 1
    /\ UNCHANGED <<elf, flags, lpc, addrs, i, functions_valid, err>>

(* collect_percpu_var returns -1: a bad name without force or a full       *)
(* table; collect_symbols returns -1 at once.                              *)
CollectSymFails ==
    /\ lpc = "syms" /\ k <= Len(elf.syms)
    /\ PercpuStep.err
    /\ err' = TRUE /\ lpc' = "done"
    /\ UNCHANGED <<elf, flags, k, functions, percpu_vars, fl, addrs, i,
                   functions_valid>>

(* No function or a missing anchor: delete_functions, the DWARF fallback.  *)
NoFilter ==
    /\ lpc = "syms" /\ k > Len(elf.syms)
    /\ ~(functions # <<>> /\ has_all_symbols(fl))
    /\ functions' = <<>> /\ lpc' = "done"
    /\ UNCHANGED <<elf, flags, k, percpu_vars, fl, addrs, i, functions_valid, err>>

(* filter_functions finds no header for mcount_sec_idx: it returns -1.     *)
NoMcountSection ==
    /\ lpc = "syms" /\ k > Len(elf.syms)
    /\ functions # <<>> /\ has_all_symbols(fl)
    /\ fl.mcount_sec_idx \notin DOMAIN elf.sections
    /\ err' = TRUE /\ lpc' = "done"
    /\ UNCHANGED <<elf, flags, k, functions, percpu_vars, fl, addrs, i,
                   functions_valid>>

(* A mutant: the start anchor taken as the section offset itself.          *)
McountOffsetAbsolute(start, sh_addr) == ULong(start)

(* offset = fl->mcount_start - shdr.sh_addr, an unsigned long.             *)
McountOffset(start, sh_addr) == ULong(start - sh_addr)

(* Word j of the section data.  memcpy past d_size reads memory the       *)
(* section does not own, which is undefined; the model reads 0 there, an   *)
(* address no collected function has.                                      *)
SectionWord(sec, j) == IF j \in DOMAIN sec.data THEN sec.data[j] ELSE 0

(* count = (mcount_stop - mcount_start) / 8, and the memcpy of count words *)
(* from d_buf + offset; the copy is then only searched.                    *)
McountTable(sec) ==
    LET offset == McountOffset(fl.anchor["__start_mcount_loc"], sec.sh_addr)
        count  == ULong(fl.anchor["__stop_mcount_loc"]
                        - fl.anchor["__start_mcount_loc"]) \div 8
    IN  {SectionWord(sec, offset \div 8 + j) : j \in 1..count}

(* qsort by name, then filter_functions up to its loop.                    *)
StartFilter ==
    /\ lpc = "syms" /\ k > Len(elf.syms)
    /\ functions # <<>> /\ has_all_symbols(fl)
    /\ fl.mcount_sec_idx \in DOMAIN elf.sections
    /\ addrs' = McountTable(elf.sections[fl.mcount_sec_idx])
    /\ lpc' = "filter" /\ i' = 0 /\ functions_valid' = 0
    /\ UNCHANGED <<elf, flags, k, functions, percpu_vars, fl, err>>

(* Entry i is plain .init code: continue.                                  *)
FilterSkipInit ==
    /\ lpc = "filter" /\ i < Len(functions)
    /\ is_init(fl, functions[i + 1].addr)
    /\ ~is_bpf_init(fl, functions[i + 1].addr)
    /\ i' = i + 1
    /\ UNCHANGED <<elf, flags, lpc, k, functions, percpu_vars, fl, addrs,
                   functions_valid, err>>

(* Entry i is found in the mcount table: moved down to functions_valid.   *)
FilterKeep ==
    /\ lpc = "filter" /\ i < Len(functions)
    /\ ~(is_init(fl, functions[i + 1].addr)
         /\ ~is_bpf_init(fl, functions[i + 1].addr))
    /\ functions[i + 1].addr \in addrs
    /\ functions' = IF i # functions_valid
                      THEN [functions EXCEPT ![functions_valid + 1] =
                              functions[i + 1]]
                      ELSE functions
    /\ functions_valid' = functions_valid + 1
    /\ i' = i + 1
    /\ UNCHANGED <<elf, flags, lpc, k, percpu_vars, fl, addrs, err>>

(* Entry i is not an ftrace location: left behind.                         *)
FilterDrop ==
    /\ lpc = "filter" /\ i < Len(functions)
    /\ ~(is_init(fl, functions[i + 1].addr)
         /\ ~is_bpf_init(fl, functions[i + 1].addr))
    /\ functions[i + 1].addr \notin addrs
    /\ i' = i + 1
    /\ UNCHANGED <<elf, flags, lpc, k, functions, percpu_vars, fl, addrs,
                   functions_valid, err>>

(* A mutant: functions_cnt = functions_valid forgotten.                    *)
FilteredTableUntrimmed(fs, n) == fs

(* functions_cnt = functions_valid.                                        *)
FilteredTable(fs, n) == SubSeq(fs, 1, n)

(* The loop is over; free(addrs) and return 0.                             *)
FilterDone ==
    /\ lpc = "filter" /\ i = Len(functions)
    /\ functions' = FilteredTable(functions, functions_valid)
    /\ lpc' = "done"
    /\ UNCHANGED <<elf, flags, k, percpu_vars, fl, addrs, i, functions_valid, err>>

(* collect_symbols has returned.                                           *)
Returned == lpc = "done" /\ UNCHANGED vars

Next ==
    \/ CollectSym \/ CollectSymFails
    \/ NoFilter \/ NoMcountSection \/ StartFilter
    \/ FilterSkipInit \/ FilterKeep \/ FilterDrop \/ FilterDone
    \/ Returned

Spec == Init /\ [][Next]_vars

(* collect_symbols is straight-line code run by the one encoder thread.   *)
FairSpec == Spec /\ WF_vars(Next)

-----------------------------------------------------------------------------
TypeOK ==
    /\ elf \in Images
    /\ flags \in [percpu : BOOLEAN, force : BOOLEAN]
    /\ lpc \in {"syms", "filter", "done"}
    /\ k \in Nat /\ i \in Nat /\ functions_valid \in Nat
    /\ functions \in Seq([name : STRING, addr : Nat, generated : BOOLEAN])
    /\ percpu_vars \in Seq([addr : Nat, sz : Nat, name : STRING])
    /\ addrs \subseteq Nat /\ err \in BOOLEAN

(* What collect_symbols has returned, in the terms of CollectAbstract.     *)
Result ==
    IF lpc # "done"
      THEN [state |-> "pending", functions |-> <<>>, percpu_vars |-> <<>>]
    ELSE IF err
      THEN [state |-> "failed", functions |-> <<>>, percpu_vars |-> <<>>]
    ELSE [state |-> "done", functions |-> functions, percpu_vars |-> percpu_vars]

Promise == INSTANCE CollectAbstract WITH result <- Result

(* collect_symbols implements the collector of spec.md 4.A and 4.B: it    *)
(* returns, and what it returns for every image is what the spec          *)
(* promises: the per-CPU table with the capacity check, the DWARF fallback *)
(* for images without all anchors, and, for kernel images, exactly the    *)
(* traced functions outside plain .init, after the unsigned offset and    *)
(* count arithmetic of the mcount read and the in-place compaction.        *)
CollectImplementsPromise == Promise!FairSpec
=============================================================================
