---------------------------- MODULE BtfEncoder ----------------------------
(***************************************************************************)
(* The CU driver of btf_encoder.c (cu__encode_btf, btf_encoder__encode)    *)
(* with the type encoder (tag__encode_btf) and the function and variable   *)
(* passes, over the process-wide state the file keeps: the active writer   *)
(* btfe, the function table, percpu_vars and the index-type flags.         *)
(*                                                                         *)
(* The loader calls cu__encode_btf once per CU and btf_encoder__encode at  *)
(* the end.  The prologue of cu__encode_btf (finalising the writer of the  *)
(* previous file, opening a writer and collecting symbols, snapshotting    *)
(* type_id_off and preparing the array index type) is one step; each      *)
(* iteration of its three loops is one step, taken in the code's order    *)
(* with pc naming the loop.                                                *)
(*                                                                         *)
(* The BTF writer (libbtf.c, not in this repository) is modelled from      *)
(* spec.md 6: every btf_elf__add_* appends one type record and returns its *)
(* id, the new type count, or fails when WriterMayFail.  A record is       *)
(*   [kind, name, refs, want, src]                                         *)
(* refs are the type ids it references; src = <<cu, core id>> names the    *)
(* tag a record was encoded from and want[k] the tag refs[k] is meant to   *)
(* reach (<<cu, 0>> is void), both kept only to state the properties.      *)
(***************************************************************************)
EXTENDS Naturals, Sequences, SequencesExt, FiniteSets, SymbolCollector

CONSTANTS
    Files,               \* object files the loader reads
    CUs,                 \* the compilation units, records (see TypeOK)
    Elf,                 \* [Files -> ELF image], see SymbolCollector
    Force,               \* --btf_encode_force
    SkipVars,            \* skip_encoding_vars
    WriterMayFail,       \* may btf_elf__new / btf_elf__add_* / encode fail
    LoaderStopsOnError,  \* the loader makes no call after an error
    NoWriter,            \* model value: btfe == NULL
    NoCU,                \* model value: no CU being encoded
    UINT32_BITS          \* width of uint32_t, scaled down

VARIABLES
    btfe,             \* NoWriter or [file, types, secinfo]
    functions,        \* the function table: Seq([name, addr, generated])
    percpu_vars,      \* Seq([addr, sz, name])
    array_index_id,
    has_index_type,
    need_index_type,
    pc,               \* "idle", "types", "funcs", "vars" or a final state
    cu,               \* the CU being encoded
    pos,              \* the loop index (core id for the type loop)
    type_id_off,
    loaded,           \* CUs the loader has passed in
    blobs,            \* BTF written by btf_elf__encode: Seq([file, types, secinfo])
    btf_elf__force    \* libbtf's global force flag, read by collect_percpu_var

vars == <<btfe, functions, percpu_vars, array_index_id, has_index_type,
          need_index_type, pc, cu, pos, type_id_off, loaded, blobs,
          btf_elf__force>>

Outcomes == IF WriterMayFail THEN BOOLEAN ELSE {TRUE}

Untracked == <<"*", 0>>

Rec(kind, name, refs, want, src) ==
    [kind |-> kind, name |-> name, refs |-> refs, want |-> want, src |-> src,
     nelems |-> 0]

RefKind == [const_type |-> "CONST", pointer_type |-> "PTR",
            restrict_type |-> "RESTRICT", volatile_type |-> "VOLATILE",
            typedef |-> "TYPEDEF"]

StructTags == {"structure_type", "union_type", "class_type"}

(* The ids of the other kinds record no reference.                         *)
(* btf_elf__add_func_proto (libbtf.c, spec_modelled): a FUNC_PROTO whose   *)
(* return and parameter types map void to 0 and add type_id_off to others. *)
FuncProtoRec(c, ret, params, off) ==
    LET ts == <<ret>> \o params
    IN  Rec("FUNC_PROTO", "",
            [k \in 1..Len(ts) |-> IF ts[k] = 0 THEN 0 ELSE off + ts[k]],
            [k \in 1..Len(ts) |-> <<c.name, ts[k]>>], Untracked)

(* A mutant: void is not singled out, type 0 maps to type_id_off.          *)
RefIdNoVoid(t, off) == off + t

(* "single out type 0 as it represents special type void"                  *)
RefId(t, off) == IF t = 0 THEN 0 ELSE off + t

(* array_type__nelems: the dimensions (nr_entries, kept in members for an  *)
(* array tag) multiplied from the last to the first in a uint32_t.         *)
array_type__nelems(t) ==
    FoldRight(LAMBDA d, n : (n * d) % (2 ^ UINT32_BITS), t.members, 1)

(* tag__encode_btf with structure_type__encode and enumeration_type__      *)
(* encode: the record a supported tag adds.  Members and enumerators are   *)
(* part of their STRUCT/UNION/ENUM record; members map their types with    *)
(* type_id_off and no void case.                                           *)
TagRecord(c, core_id, off, aid) ==
    LET t    == c.types[core_id]
        src  == <<c.name, core_id>>
        ref  == RefId(t.type, off)
        want == <<c.name, t.type>>
    IN  CASE t.tag = "base_type" ->
               Rec("INT", t.name, <<>>, <<>>, src)
          [] t.tag \in DOMAIN RefKind ->
               Rec(RefKind[t.tag], IF t.tag = "typedef" THEN t.name ELSE "",
                   <<ref>>, <<want>>, src)
          [] t.tag \in StructTags /\ t.decl ->
               Rec(IF t.tag = "union_type" THEN "FWD_UNION" ELSE "FWD",
                   t.name, <<>>, <<>>, src)
          [] t.tag \in StructTags ->
               Rec(IF t.tag = "union_type" THEN "UNION" ELSE "STRUCT", t.name,
                   [k \in DOMAIN t.members |-> off + t.members[k]],
                   [k \in DOMAIN t.members |-> <<c.name, t.members[k]>>], src)
          [] t.tag = "array_type" ->
               [Rec("ARRAY", "", <<ref, aid>>, <<want, Untracked>>, src)
                  EXCEPT !.nelems = array_type__nelems(t)]
          [] t.tag = "enumeration_type" ->
               Rec("ENUM", t.name, <<>>, <<>>, src)
          [] t.tag = "subroutine_type" ->
               [FuncProtoRec(c, t.type, t.members, off) EXCEPT !.src = src]

Supported(t) ==
    t.tag \in {"base_type", "array_type", "enumeration_type",
               "subroutine_type"} \cup DOMAIN RefKind \cup StructTags

(* cu__find_base_type_by_name(cu, "int"): the core id of the first base    *)
(* type named int, 0 when there is none.                                   *)
IntId(c) ==
    SelectInSeq(c.types, LAMBDA t : t.tag = "base_type" /\ t.name = "int")

(* A mutant: nr_entries read as the number of types, without slot 0.       *)
NrEntriesNoVoidSlot(c) == Len(c.types)

(* cu->types_table.nr_entries: slot 0 of the table is void, so a CU of n   *)
(* types has n + 1 entries (dwarves.h, spec_modelled).                     *)
NrEntries(c) == Len(c.types) + 1

(* btf_encoder__encode's writes: a DATASEC over the per-CPU section info,  *)
(* when there is any, appended last.  btf_elf__add_datasec_type (libbtf.c, *)
(* spec_modelled) sorts the entries by offset before adding them.          *)
WithDatasec(w) ==
    LET es == SortSeq(w.secinfo, LAMBDA x, y : x.offset < y.offset)
    IN  IF w.secinfo = <<>> THEN w.types
        ELSE Append(w.types, Rec("DATASEC", ".data..percpu",
                                 [k \in DOMAIN es |-> es[k].id],
                                 [k \in DOMAIN es |-> Untracked],
                                 Untracked))

(* The blob btf_elf__encode writes; the result of btf_elf__add_datasec_    *)
(* type is not checked, so a failed add leaves the DATASEC out.            *)
Blob(w, datasec_ok) ==
    [file |-> w.file,
     types |-> IF datasec_ok THEN WithDatasec(w) ELSE w.types,
     secinfo |-> w.secinfo]

(* The state after a failed call: the error path at out: deletes the       *)
(* function table and the writer; the loader either stops or goes on.     *)
Fail ==
    /\ functions' = <<>>
    /\ btfe' = NoWriter
    /\ pc' = IF LoaderStopsOnError THEN "stopped" ELSE "idle"

(* A mutant: the entry found is not marked generated.                     *)
GenerateUnmarked(funcs, name) ==
    LET p == SelectInSeq(funcs, LAMBDA f : f.name = name)
    IN  [ok |-> p # 0 /\ ~funcs[p].generated, functions |-> funcs]

(* should_generate_function: bsearch the table by name (the entry found is *)
(* the first of its name); no entry, or one already generated, says no;   *)
(* otherwise the entry is marked generated.                                *)
should_generate_function(funcs, name) ==
    LET p == SelectInSeq(funcs, LAMBDA f : f.name = name)
    IN  IF p = 0 \/ funcs[p].generated
          THEN [ok |-> FALSE, functions |-> funcs]
          ELSE [ok |-> TRUE,
                functions |-> [funcs EXCEPT ![p].generated = TRUE]]

(* A mutant: the section offset forgets the per-CPU base address.          *)
SecinfoOffsetAbsolute(addr, elf) == addr

(* offset = addr - btfe->percpu_base_addr, stored in a uint32_t.          *)
SecinfoOffset(addr, elf) == (addr - elf.percpu_base_addr) % (2 ^ UINT32_BITS)

(* The order the loader passes CUs in: each CU once, and all CUs of a file *)
(* before any CU of another file.                                          *)
LoaderMayPass(c) ==
    /\ c \notin ToSet(loaded)
    /\ loaded # <<>> =>
         LET last == Last(loaded).file
         IN  c.file = last
             \/ /\ \A d \in CUs : d.file = last => d \in ToSet(loaded)
                /\ \A d \in ToSet(loaded) : d.file # c.file

(* The array index type preparation of cu__encode_btf, after type_id_off   *)
(* is taken from the writer w: a real int of the CU when there is one,    *)
(* else the slot just past the CU's types, kept for a synthetic type.      *)
PrepareIndexType(c, w, has, aid) ==
    LET off == Len(w.types)
    IN  /\ type_id_off' = off
        /\ IF has
             THEN /\ has_index_type' = has
                  /\ array_index_id' = aid
           ELSE IF IntId(c) # 0
             THEN /\ has_index_type' = TRUE
                  /\ array_index_id' = off + IntId(c)
           ELSE /\ has_index_type' = FALSE
                  /\ array_index_id' = off + NrEntries(c)

(* A mutant: the filename comparison dropped, one writer for all files.   *)
FileNeverChanged(w, c) == FALSE

(* strcmp(btfe->filename, cu->filename) != 0                              *)
FileChanged(w, c) == w.file # c.file

(* A fresh writer for file f (btf_elf__new with no base BTF).              *)
NewWriter(f) == [file |-> f, types |-> <<>>, secinfo |-> <<>>]

(* cu__encode_btf up to the type loop.  A writer of another file is first  *)
(* finalised (btf_encoder__encode); when no writer is left a new one is    *)
(* opened, symbols are collected and the index-type flags are reset.       *)
(* collect_percpu_var reads the global btf_elf__force, which is assigned  *)
(* only after collect_symbols (line 680): the first file is collected     *)
(* with the flag's initial value, a later one with the last call's force.  *)
EncodeCU(c) ==
  /\ pc = "idle"
  /\ LoaderMayPass(c)
  /\ loaded' = Append(loaded, c)
  /\ cu' = c
  /\ pos' = 1
  /\ LET switch == btfe # NoWriter /\ FileChanged(btfe, c)
         fresh  == switch \/ btfe = NoWriter
         syms   == collect_symbols(Elf[c.file], ~SkipVars, btf_elf__force)
     IN
     \/ \* btf_elf__encode of the previous file fails
        /\ switch /\ FALSE \in Outcomes
        /\ Fail
        /\ UNCHANGED <<percpu_vars, array_index_id, has_index_type,
                       need_index_type, type_id_off, blobs, btf_elf__force>>
     \/ /\ \E datasec_ok \in Outcomes :
             blobs' = IF switch THEN Append(blobs, Blob(btfe, datasec_ok))
                      ELSE blobs
        /\ \/ \* btf_elf__new fails
              /\ fresh /\ FALSE \in Outcomes
              /\ Fail
              /\ UNCHANGED <<percpu_vars, array_index_id, has_index_type,
                             need_index_type, type_id_off, btf_elf__force>>
           \/ /\ fresh
              /\ percpu_vars' = syms.percpu_vars
              /\ IF syms.err
                   THEN /\ Fail
                        /\ UNCHANGED <<array_index_id, has_index_type,
                                       need_index_type, type_id_off,
                                       btf_elf__force>>
                   ELSE /\ functions' = syms.functions
                        /\ btfe' = NewWriter(c.file)
                        /\ need_index_type' = FALSE
                        /\ PrepareIndexType(c, NewWriter(c.file), FALSE, 0)
                        /\ pc' = "types"
                        /\ btf_elf__force' = Force
           \/ /\ ~fresh
              /\ PrepareIndexType(c, btfe, has_index_type, array_index_id)
              /\ pc' = "types"
              /\ btf_elf__force' = Force
              /\ UNCHANGED <<btfe, functions, percpu_vars, need_index_type>>

(* One iteration of the type loop: tag__encode_btf of core id pos, then    *)
(* tag__check_id_drift.  An unsupported tag, a writer error or a drift     *)
(* ends the call on the error path.                                        *)
EncodeType ==
  /\ pc = "types"
  /\ pos <= Len(cu.types)
  /\ LET t  == cu.types[pos]
         r  == TagRecord(cu, pos, type_id_off, array_index_id)
         id == Len(btfe.types) + 1
     IN  /\ need_index_type' = (need_index_type \/ t.tag = "array_type")
         /\ \/ /\ Supported(t)
               /\ id = pos + type_id_off
               /\ btfe' = [btfe EXCEPT !.types = Append(@, r)]
               /\ pos' = pos + 1
               /\ UNCHANGED <<functions, pc>>
            \/ /\ \/ ~Supported(t)
                  \/ FALSE \in Outcomes
                  \/ id # pos + type_id_off
               /\ Fail
               /\ UNCHANGED pos
  /\ UNCHANGED <<percpu_vars, array_index_id, has_index_type, cu,
                 type_id_off, loaded, blobs, btf_elf__force>>

(* After the type loop: the synthetic __ARRAY_SIZE_TYPE__ when an array    *)
(* was encoded and no int was found.  Its btf_elf__add_base_type result is *)
(* not checked: has_index_type is set whether the add succeeded or not.    *)
TypesDone ==
  /\ pc = "types"
  /\ pos > Len(cu.types)
  /\ IF need_index_type /\ ~has_index_type
       THEN /\ \E ok \in Outcomes :
                 btfe' = IF ok
                           THEN [btfe EXCEPT !.types = Append(@,
                                   Rec("INT", "__ARRAY_SIZE_TYPE__", <<>>,
                                       <<>>, Untracked))]
                           ELSE btfe
            /\ has_index_type' = TRUE
       ELSE UNCHANGED <<btfe, has_index_type>>
  /\ pc' = "funcs"
  /\ pos' = 1
  /\ UNCHANGED <<functions, percpu_vars, array_index_id, need_index_type, cu,
                 type_id_off, loaded, blobs, btf_elf__force>>

(* One iteration of the function loop.  With a function table (vmlinux     *)
(* with ftrace) a function needs named arguments and an unused table      *)
(* entry; without one it must be an external definition.  A FUNC_PROTO   *)
(* and a FUNC referring to it are added.                                   *)
EncodeFunc ==
  /\ pc = "funcs"
  /\ pos <= Len(cu.funcs)
  /\ LET fn     == cu.funcs[pos]
         kernel == functions # <<>>
         gen    == should_generate_function(functions, fn.name)
         emit   == IF kernel THEN fn.arg_names /\ gen.ok
                   ELSE ~fn.declaration /\ fn.external
         proto  == FuncProtoRec(cu, fn.type, fn.params, type_id_off)
         fid    == Len(btfe.types) + 1
     IN  \/ /\ ~emit
            /\ pos' = pos + 1
            /\ UNCHANGED <<btfe, functions, pc>>
         \/ /\ emit
            /\ functions' = IF kernel THEN gen.functions ELSE functions
            /\ btfe' = [btfe EXCEPT !.types = @ \o
                          <<proto, Rec("FUNC", fn.name, <<fid>>,
                                       <<Untracked>>, Untracked)>>]
            /\ pos' = pos + 1
            /\ UNCHANGED pc
         \/ /\ emit /\ FALSE \in Outcomes
            /\ Fail
            /\ UNCHANGED pos
  /\ UNCHANGED <<percpu_vars, array_index_id, has_index_type, need_index_type,
                 cu, type_id_off, loaded, blobs, btf_elf__force>>

(* After the function loop: the variable pass is skipped when variables    *)
(* are not encoded or the writer has no per-CPU section or no symtab.      *)
FuncsDone ==
  /\ pc = "funcs"
  /\ pos > Len(cu.funcs)
  /\ LET elf == Elf[btfe.file]
     IN  IF SkipVars \/ elf.percpu_shndx = 0 \/ ~elf.symtab
           THEN pc' = "idle" /\ UNCHANGED pos
           ELSE pc' = "vars" /\ pos' = 1
  /\ UNCHANGED <<btfe, functions, percpu_vars, array_index_id, has_index_type,
                 need_index_type, cu, type_id_off, loaded, blobs, btf_elf__force>>

(* One iteration of the variable loop.  Declarations without a            *)
(* specification and non-global variables without one are skipped; the   *)
(* address is the variable's own, the type and linkage those of its       *)
(* specification; a variable whose address is not in percpu_vars is      *)
(* skipped; a void one is skipped under force and an error otherwise.     *)
(* A VAR named after the ELF symbol and its section info are added.       *)
EncodeVar ==
  /\ pc = "vars"
  /\ pos <= Len(cu.vars)
  /\ LET v    == cu.vars[pos]
         type == IF v.spec THEN v.spec_type ELSE v.type
         p    == SelectInSeq(percpu_vars, LAMBDA x : x.addr = v.addr)
         skip == \/ v.declaration /\ ~v.spec
                 \/ ~v.global /\ ~v.spec
                 \/ p = 0
                 \/ type = 0 /\ Force
         id   == Len(btfe.types) + 1
     IN  \/ /\ skip
            /\ pos' = pos + 1
            /\ UNCHANGED <<btfe, functions, pc>>
         \/ /\ ~skip /\ type # 0
            /\ btfe' = [btfe EXCEPT
                   !.types = Append(@, Rec("VAR", percpu_vars[p].name,
                                           <<type_id_off + type>>,
                                           <<<<cu.name, type>>>>, Untracked)),
                   !.secinfo = Append(@, [id |-> id,
                                  offset |-> SecinfoOffset(v.addr, Elf[btfe.file]),
                                  size |-> percpu_vars[p].sz])]
            /\ pos' = pos + 1
            /\ UNCHANGED <<functions, pc>>
         \/ /\ ~skip
            /\ type = 0 \/ FALSE \in Outcomes
            /\ Fail
            /\ UNCHANGED pos
  /\ UNCHANGED <<percpu_vars, array_index_id, has_index_type, need_index_type,
                 cu, type_id_off, loaded, blobs, btf_elf__force>>

(* The end of the variable loop: the call returns 0.                       *)
VarsDone ==
  /\ pc = "vars"
  /\ pos > Len(cu.vars)
  /\ pc' = "idle"
  /\ UNCHANGED <<btfe, functions, percpu_vars, array_index_id, has_index_type,
                 need_index_type, cu, pos, type_id_off, loaded, blobs, btf_elf__force>>

(* btf_encoder__encode called by the loader after the last CU: it reads    *)
(* btfe->percpu_secinfo without checking btfe, so with no active writer    *)
(* the call faults; otherwise the blob is written, the function table and *)
(* the writer deleted.                                                     *)
Finalize ==
  /\ pc = "idle"
  /\ ToSet(loaded) = CUs
  /\ IF btfe = NoWriter
       THEN /\ pc' = "crashed"
            /\ UNCHANGED <<btfe, functions, blobs>>
       ELSE /\ \E encode_ok, datasec_ok \in Outcomes :
                 blobs' = IF encode_ok THEN Append(blobs, Blob(btfe, datasec_ok))
                          ELSE blobs
            /\ functions' = <<>>
            /\ btfe' = NoWriter
            /\ pc' = "finalized"
  /\ UNCHANGED <<percpu_vars, array_index_id, has_index_type, need_index_type,
                 cu, pos, type_id_off, loaded, btf_elf__force>>

(* The run is over: finalised, stopped by the loader after an error, or   *)
(* faulted.                                                                *)
Terminated ==
  /\ pc \in {"finalized", "stopped", "crashed"}
  /\ UNCHANGED vars

Init ==
  /\ btfe = NoWriter
  /\ functions = <<>>
  /\ percpu_vars = <<>>
  /\ array_index_id = 0
  /\ has_index_type = FALSE
  /\ need_index_type = FALSE
  /\ pc = "idle"
  /\ cu = NoCU
  /\ pos = 0
  /\ type_id_off = 0
  /\ loaded = <<>>
  /\ blobs = <<>>
  /\ btf_elf__force = FALSE

Next ==
  \/ \E c \in CUs : EncodeCU(c)
  \/ EncodeType
  \/ TypesDone
  \/ EncodeFunc
  \/ FuncsDone
  \/ EncodeVar
  \/ VarsDone
  \/ Finalize
  \/ Terminated

Spec == Init /\ [][Next]_vars

(* pahole's loader passes every CU of the input and then calls            *)
(* btf_encoder__encode, unless a call failed; each call runs to its end    *)
(* on the one thread.                                                      *)
FairSpec == Spec /\ WF_vars(Next)

-----------------------------------------------------------------------------
(***************************************************************************)
(* Properties, over the BTF the encoder has written.                       *)
(***************************************************************************)
Records == [kind : STRING, name : STRING, refs : Seq(Nat),
            want : Seq(STRING \X Nat), src : STRING \X Nat, nelems : Nat]

TypeOK ==
  /\ btfe \in {NoWriter} \cup [file : Files, types : Seq(Records),
                                secinfo : Seq([id : Nat, offset : Nat,
                                               size : Nat])]
  /\ functions \in Seq([name : STRING, addr : Nat, generated : BOOLEAN])
  /\ percpu_vars \in Seq([addr : Nat, sz : Nat, name : STRING])
  /\ array_index_id \in Nat
  /\ has_index_type \in BOOLEAN /\ need_index_type \in BOOLEAN
  /\ pc \in {"idle", "types", "funcs", "vars", "finalized", "stopped",
             "crashed"}
  /\ cu \in CUs \cup {NoCU}
  /\ pos \in Nat /\ type_id_off \in Nat
  /\ loaded \in Seq(CUs)
  /\ blobs \in Seq([file : Files, types : Seq(Records),
                    secinfo : Seq([id : Nat, offset : Nat, size : Nat])])
  /\ btf_elf__force \in BOOLEAN

Written == ToSet(blobs)

(* The ID-drift invariant seen from the output: in every blob written,     *)
(* each reference the encoder derives from a DWARF type id (pointer,       *)
(* typedef and array element targets, struct members, prototype return and *)
(* parameter types, variable types) is 0 exactly for void and otherwise    *)
(* the id of the record encoded from that very tag of the same CU.  It    *)
(* rests on type_id_off being taken per CU, on tag 0 being singled out and *)
(* on the synthetic index type and the FUNC/VAR records coming after the   *)
(* CU's types.                                                             *)
RefsReachIntendedTags ==
  \A b \in Written : \A i \in DOMAIN b.types :
    LET r == b.types[i]
    IN  \A k \in DOMAIN r.want :
          r.want[k] # Untracked =>
            IF r.want[k][2] = 0
              THEN r.refs[k] = 0
              ELSE /\ r.refs[k] \in DOMAIN b.types
                   /\ b.types[r.refs[k]].src = r.want[k]

(* spec.md 8.6: every ARRAY's index type is an integer the blob contains,  *)
(* a real "int" or the synthetic __ARRAY_SIZE_TYPE__, whichever CU of the *)
(* file and whichever order of CUs produced it.                            *)
ArrayIndexIsInt ==
  \A b \in Written : \A i \in DOMAIN b.types :
    b.types[i].kind = "ARRAY" =>
      LET x == b.types[i].refs[2]
      IN  /\ x \in DOMAIN b.types
          /\ b.types[x].kind = "INT"
          /\ b.types[x].name \in {"int", "__ARRAY_SIZE_TYPE__"}

(* spec.md 8.3 and scenario S6: a function name has at most one FUNC in a  *)
(* blob, however many CUs define or declare it.                            *)
FuncEmittedOnce ==
  \A b \in Written : \A i, j \in DOMAIN b.types :
    /\ b.types[i].kind = "FUNC" /\ b.types[j].kind = "FUNC"
    /\ b.types[i].name = b.types[j].name
    => i = j

(* The ftrace filter, stated from the image: the words of the mcount       *)
(* section between __start_mcount_loc and __stop_mcount_loc, and the      *)
(* .init range outside its bpf-preserved part.                             *)
Anchor(elf, a) ==
  LET s == SelectInSeq(elf.syms, LAMBDA x : x.name = a /\ x.value # 0)
  IN  IF s = 0 THEN 0 ELSE elf.syms[s].value
TracedAddr(elf, a) ==
  \E x \in DOMAIN elf.sections :
    LET sec == elf.sections[x]
    IN  \E k \in DOMAIN sec.data :
          /\ sec.data[k] = a
          /\ Anchor(elf, "__start_mcount_loc") <= sec.sh_addr + 8 * (k - 1)
          /\ sec.sh_addr + 8 * (k - 1) < Anchor(elf, "__stop_mcount_loc")
InitOnly(elf, a) ==
  /\ Anchor(elf, "__init_begin") <= a /\ a < Anchor(elf, "__init_end")
  /\ ~(Anchor(elf, "__init_bpf_preserve_type_begin") <= a
       /\ a < Anchor(elf, "__init_bpf_preserve_type_end"))
KernelImage(elf) ==
  /\ \A a \in Anchors : Anchor(elf, a) # 0
  /\ \E k \in DOMAIN elf.syms : elf.syms[k].type = "FUNC"
                               /\ elf.syms[k].value # 0

(* spec.md 4.B and scenario S4: in the BTF of a kernel image (all six     *)
(* anchors and function symbols present) every FUNC names a function     *)
(* symbol whose address is an ftrace location outside the plain .init     *)
(* range.                                                                  *)
KernelFuncsTraced ==
  \A b \in Written : KernelImage(Elf[b.file]) =>
    \A i \in DOMAIN b.types : b.types[i].kind = "FUNC" =>
      \E k \in DOMAIN Elf[b.file].syms :
        LET s == Elf[b.file].syms[k]
        IN  /\ s.name = b.types[i].name /\ s.type = "FUNC"
            /\ TracedAddr(Elf[b.file], s.value)
            /\ ~InitOnly(Elf[b.file], s.value)

(* spec.md 8.4 and scenario S5: every per-CPU section entry of a blob      *)
(* describes a VAR of that blob named after a per-CPU symbol whose        *)
(* address is the section base plus the entry's offset and whose size is  *)
(* the entry's size, and every VAR has exactly one entry.                  *)
SecinfoMatchesSymbols ==
  \A b \in Written :
    LET elf == Elf[b.file]
    IN  /\ \A e \in ToSet(b.secinfo) :
             /\ e.id \in DOMAIN b.types
             /\ b.types[e.id].kind = "VAR"
             /\ \E k \in DOMAIN elf.syms :
                  /\ elf.syms[k].name = b.types[e.id].name
                  /\ elf.syms[k].shndx = elf.percpu_shndx
                  /\ elf.syms[k].value = elf.percpu_base_addr + e.offset
                  /\ elf.syms[k].size = e.size
        /\ \A i \in DOMAIN b.types : b.types[i].kind = "VAR" =>
             Cardinality({k \in DOMAIN b.secinfo : b.secinfo[k].id = i}) = 1

(* spec.md 8.4: every VAR of a blob is described by exactly one DATASEC   *)
(* entry, and a DATASEC describes only VARs of its blob; a blob has at    *)
(* most one DATASEC.  It rests on the variable pass, the secinfo buffer   *)
(* and btf_encoder__encode adding the DATASEC after all CUs of the file.  *)
VarsCoveredByDatasec ==
  \A b \in Written :
    LET ds == {i \in DOMAIN b.types : b.types[i].kind = "DATASEC"}
    IN  /\ Cardinality(ds) <= 1
        /\ \A i \in DOMAIN b.types : b.types[i].kind = "VAR" =>
             \E d \in ds : Cardinality({k \in DOMAIN b.types[d].refs :
                                         b.types[d].refs[k] = i}) = 1
        /\ \A d \in ds : \A k \in DOMAIN b.types[d].refs :
             b.types[d].refs[k] \in DOMAIN b.types
             /\ b.types[b.types[d].refs[k]].kind = "VAR"

(* spec.md 4.F and 7: an invalid per-CPU symbol name is fatal only        *)
(* without force; with --btf_encode_force it is skipped with a warning.  *)
(* So, with a writer that never fails, a forced run never stops on a file *)
(* whose symbols collect without error under force but not without it.   *)
(* collect_percpu_var reads the global btf_elf__force, and cu__encode_btf *)
(* assigns it only after collect_symbols.                                  *)
ForceSkipsBadNames ==
  Force /\ ~WriterMayFail /\ pc = "stopped" =>
    LET f == Last(loaded).file
    IN  ~/\ collect_symbols(Elf[f], ~SkipVars, FALSE).err
         /\ ~collect_symbols(Elf[f], ~SkipVars, TRUE).err

(* The refinement mapping: the session is the file of the active writer, *)
(* a blob is the set of DWARF tags its records were encoded from, and the *)
(* run has failed once the loader stopped.                                 *)
SessionOf == IF btfe = NoWriter THEN NoWriter ELSE btfe.file
TagsOf(b) ==
  {b.types[i].src : i \in {j \in DOMAIN b.types : b.types[j].src # Untracked}}
WrittenTags == [j \in DOMAIN blobs |-> [file |-> blobs[j].file,
                                        tags |-> TagsOf(blobs[j])]]
RunStatus ==
  CASE pc = "stopped"   -> "failed"
    [] pc = "finalized" -> "finished"
    [] pc = "crashed"   -> "crashed"
    [] OTHER            -> "running"

Session == INSTANCE EncoderSession
             WITH NoSession <- NoWriter, session <- SessionOf,
                  written <- WrittenTags, status <- RunStatus

(* spec.md 5, 6 and 7: cu__encode_btf and btf_encoder__encode implement   *)
(* the session contract.  A blob is written per file, in the loader's     *)
(* file order, only at a file switch or by the final call, and it holds   *)
(* every tag of every CU of its file and no other; after a fatal error no *)
(* blob is written; and every run ends, finished or stopped, never in the *)
(* NULL dereference of btf_encoder__encode.  It rests on the filename     *)
(* switch, on the error path deleting the writer, and on the loader       *)
(* stopping at the first error.                                            *)
EncoderImplementsSession == Session!FairSpec
=============================================================================
