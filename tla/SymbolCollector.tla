-------------------------- MODULE SymbolCollector --------------------------
(***************************************************************************)
(* collect_symbols of btf_encoder.c and the helpers it calls: one pass     *)
(* over the ELF symbol table filling the function table, the per-CPU      *)
(* variable table and the six funcs_layout anchors, then the ftrace        *)
(* filter (filter_functions) or the fallback that empties the function    *)
(* table.  The pass is a pure function of the ELF image and the flags, so  *)
(* it is modelled as operators; BtfEncoder applies them when it opens a    *)
(* writer.                                                                 *)
(*                                                                         *)
(* An ELF image is a record                                                *)
(*   syms          the symbol table, a sequence of                         *)
(*                 [name, type, value, size, shndx]                        *)
(*   percpu_shndx  index of .data..percpu, 0 when there is none            *)
(*   percpu_base_addr  its address                                         *)
(*   symtab        whether btf_elf__new found a symbol table               *)
(*   sections      [index -> [sh_addr, data]] for the sections filter_     *)
(*                 functions may read, data a sequence of 8-byte words     *)
(* Symbol names are strings; NameChars gives the character classes of the  *)
(* names the per-CPU check validates.                                      *)
(***************************************************************************)
EXTENDS Naturals, Sequences, SequencesExt, NameValidator

CONSTANTS
    MAX_PERCPU_VAR_CNT,  \* capacity of percpu_vars, 4096 in the code
    NameChars            \* [symbol name -> Seq(Chars)]

ASSUME MAX_PERCPU_VAR_CNT \in Nat \ {0}

(* The names collect_symbol compares with strcmp.                          *)
Anchors == {"__start_mcount_loc", "__stop_mcount_loc", "__init_begin",
            "__init_end", "__init_bpf_preserve_type_begin",
            "__init_bpf_preserve_type_end"}

(* struct funcs_layout: one value per anchor (0 = not seen yet) and the    *)
(* section index recorded with __start_mcount_loc.                         *)
EmptyLayout == [anchor |-> [a \in Anchors |-> 0], mcount_sec_idx |-> 0]

(* collect_function: a FUNC symbol with a non-zero value is appended,      *)
(* not yet generated.  The realloc growth of the table is not modelled;    *)
(* its failure is an allocation failure (README, not modelled).           *)
collect_function(sym, functions) ==
    IF sym.type = "FUNC" /\ sym.value # 0
      THEN Append(functions, [name |-> sym.name, addr |-> sym.value,
                              generated |-> FALSE])
      ELSE functions

(* collect_percpu_var: an OBJECT of the per-CPU section with a non-zero    *)
(* address and size is appended after its name passes btf_name_valid;    *)
(* an invalid name is skipped under force and an error otherwise, and a   *)
(* full table is an error.                                                 *)
collect_percpu_var(elf, sym, vars, force) ==
    LET ok(v) == [err |-> FALSE, vars |-> v]
        fail  == [err |-> TRUE, vars |-> vars]
    IN  IF \/ sym.shndx # elf.percpu_shndx
           \/ sym.type # "OBJECT"
           \/ sym.value = 0
           \/ sym.size = 0
          THEN ok(vars)
        ELSE IF ~btf_name_valid(NameChars[sym.name])
          THEN IF force THEN ok(vars) ELSE fail
        ELSE IF Len(vars) = MAX_PERCPU_VAR_CNT
          THEN fail
        ELSE ok(Append(vars, [addr |-> sym.value, sz |-> sym.size,
                              name |-> sym.name]))

(* collect_symbol: the first symbol of each anchor name with a non-zero    *)
(* value sets it; __start_mcount_loc also records its section index.       *)
collect_symbol(sym, fl) ==
    LET sets(a) == fl.anchor[a] = 0 /\ sym.name = a
    IN  [anchor |-> [a \in Anchors |-> IF sets(a) THEN sym.value
                                                  ELSE fl.anchor[a]],
         mcount_sec_idx |-> IF sets("__start_mcount_loc") THEN sym.shndx
                            ELSE fl.mcount_sec_idx]

(* has_all_symbols                                                         *)
has_all_symbols(fl) == \A a \in Anchors : fl.anchor[a] # 0

(* is_init and is_bpf_init: half-open address ranges.                      *)
is_init(fl, addr) ==
    addr >= fl.anchor["__init_begin"] /\ addr < fl.anchor["__init_end"]
is_bpf_init(fl, addr) ==
    addr >= fl.anchor["__init_bpf_preserve_type_begin"]
    /\ addr < fl.anchor["__init_bpf_preserve_type_end"]

(* The mcount table filter_functions copies: count = (stop - start) / 8    *)
(* words from offset start - sh_addr of the section's data.                *)
McountAddrs(elf, fl) ==
    LET sec    == elf.sections[fl.mcount_sec_idx]
        offset == fl.anchor["__start_mcount_loc"] - sec.sh_addr
        count  == (fl.anchor["__stop_mcount_loc"]
                   - fl.anchor["__start_mcount_loc"]) \div 8
    IN  {sec.data[offset \div 8 + k] : k \in 1..count}

(* A mutant: the .init test dropped, only the mcount lookup kept.          *)
KeepFunctionNoInit(fl, addrs, f) == f.addr \in addrs

(* A function the filter keeps: not in .init unless in the bpf-preserved   *)
(* part of it, and its address found (bsearch) in the mcount table.        *)
KeepFunction(fl, addrs, f) ==
    /\ ~(is_init(fl, f.addr) /\ ~is_bpf_init(fl, f.addr))
    /\ f.addr \in addrs

(* filter_functions: fails when the mcount section is missing; otherwise   *)
(* compacts the table in place, keeping the order of the kept entries.    *)
filter_functions(elf, fl, functions) ==
    IF fl.mcount_sec_idx \notin DOMAIN elf.sections
      THEN [err |-> TRUE, functions |-> functions]
      ELSE LET addrs == McountAddrs(elf, fl)
           IN  [err |-> FALSE,
                functions |-> SelectSeq(functions,
                                LAMBDA f : KeepFunction(fl, addrs, f))]

(* The symbol-table pass of collect_symbols, symbol i onward; stops at the *)
(* first error of collect_percpu_var.                                      *)
RECURSIVE CollectFrom(_, _, _, _, _)
CollectFrom(elf, collect_percpu_vars, force, i, acc) ==
    IF i > Len(elf.syms) THEN acc
    ELSE
      LET sym == elf.syms[i]
          pv  == IF collect_percpu_vars
                   THEN collect_percpu_var(elf, sym, acc.percpu_vars, force)
                   ELSE [err |-> FALSE, vars |-> acc.percpu_vars]
      IN  IF pv.err
            THEN [acc EXCEPT !.err = TRUE, !.percpu_vars = pv.vars]
            ELSE CollectFrom(elf, collect_percpu_vars, force, i + 1,
                   [acc EXCEPT !.percpu_vars = pv.vars,
                        !.functions = collect_function(sym, @),
                        !.fl = collect_symbol(sym, @)])

(* collect_symbols: percpu_var_cnt = 0, the pass, then the ftrace filter   *)
(* when functions were found and all anchors are present, else an empty   *)
(* function table (the fallback to DWARF declarations).  The qsorts by     *)
(* address and by name are not modelled: both tables are only searched    *)
(* by key (percpu_var_exists, should_generate_function), which the model   *)
(* does directly.  Result: [err, functions, percpu_vars].                  *)
collect_symbols(elf, collect_percpu_vars, force) ==
    LET pass == CollectFrom(elf, collect_percpu_vars, force, 1,
                  [err |-> FALSE, functions |-> <<>>, percpu_vars |-> <<>>,
                   fl |-> EmptyLayout])
        filt == filter_functions(elf, pass.fl, pass.functions)
    IN  IF pass.err
          THEN [err |-> TRUE, functions |-> pass.functions,
                percpu_vars |-> pass.percpu_vars]
        ELSE IF pass.functions # <<>> /\ has_all_symbols(pass.fl)
          THEN [err |-> filt.err, functions |-> filt.functions,
                percpu_vars |-> pass.percpu_vars]
        ELSE [err |-> FALSE, functions |-> <<>>,
              percpu_vars |-> pass.percpu_vars]

=============================================================================
