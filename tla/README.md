# TLA+ models of the BTF encoder

This directory holds TLA+ models of the BTF encoder of dwarves. The encoder is
`btf_encoder.c`, which `src/unnamed/part_000` holds after the `classes.h`
header at its lines 1-65. The directory also has the TLC configurations that
check the models. Line numbers below refer to `src/unnamed/part_000`.

## The system

pahole's DWARF loader reads object files one compilation unit (CU) at a time.
It calls `cu__encode_btf` for each CU and `btf_encoder__encode` once at the
end. The encoder keeps all its state in file-scope globals:

- the active writer `btfe` (436);
- the ELF function table `functions` (110-112);
- the per-CPU variable table `percpu_vars` (463-464);
- the array index type state: `need_index_type` (389), `has_index_type` and
  `array_index_id` (437-438).

It works on these parts:

| Part | Code | What it does |
|---|---|---|
| Name validator | `btf_name_char_ok`, `btf_name_valid` (267-293) | Accepts the per-CPU symbol names that are valid BTF identifiers. |
| Symbol collector | `collect_symbols` and its helpers (133-160, 492-627) | One pass over the ELF symbol table. It fills the function table, the per-CPU table and the six ftrace/.init anchors of `funcs_layout`. |
| Ftrace filter | `filter_functions` (182-251) | Keeps the functions whose address is in the mcount table and that are not in `.init`, except the bpf-preserved part of `.init`. If there is no kernel layout, the table is emptied and the DWARF rule is used instead (612-624). |
| Type encoder | `tag__encode_btf`, `structure_type__encode`, `enumeration_type__encode` (326-434) | Adds one BTF record per DWARF tag. Ids are shifted by `type_id_off`, and type 0 (void) stays 0. |
| CU driver | `cu__encode_btf` (642-828) | Finalises the previous file's writer at a file switch. Opens a writer and collects symbols for a new file. Then runs the type loop, adds the synthetic `__ARRAY_SIZE_TYPE__`, and runs the function loop and the per-CPU variable loop. On any error it deletes the writer and the function table. |
| Finaliser | `btf_encoder__encode` (440-453) | Adds the per-CPU DATASEC, writes the blob and deletes the writer. |
| BTF writer | libbtf (not in this repository) | `btf_elf__new`, `btf_elf__add_*` and `btf_elf__encode`, modelled from spec.md 6. |
| pfunct | `src/pfunct.c` | A command-line tool over the classes library (declared in `classes.h`, lines 1-65 of part_000; its code is not in this repository). It parses options and operands, loads the DWARF, and prints function sizes (`-s`), the functions with a pointer parameter to a class (`-c`), all functions, or one function. It does not interact with the encoder. |

The parts interact only through the globals. Three things are carried between
calls:

- the writer and the function table, across all the CUs of a file;
- the index-type flags, also across the CUs of a file;
- whatever the error path leaves for the loader's next call.

Nothing runs concurrently. The hard behaviours are therefore sequences of
calls:

- the order in which the loader passes CUs;
- failures of any writer call at any point;
- a loader that keeps calling after an error;
- the two function modes (ftrace filter or DWARF fallback);
- the index type carried from CU to CU.

## Modules

- **`NameValidator`** covers `btf_name_char_ok` and `btf_name_valid`. They are
  operators over character classes. A character is modelled by its class
  (letter, digit, `_`, `.`, other, NUL), because only its class matters.
  `ScanTail` is the `while` loop, written RECURSIVE, with the limit pointer as
  an offset.
- **`MCNameValidator`** enumerates every name, one character per step. It
  compares `btf_name_valid` with two reference languages:
  - `WindowNameValid`, the language the code admits;
  - `SpecNameValid`, the language spec.md 8.5 states.
- **`SymbolCollector`** has the symbol pass and the filter, as pure operators.
  `collect_symbols` returns `[err, functions, percpu_vars]`:
  - `CollectFrom` is the loop of 596-602. It stops at the first per-CPU error.
  - `filter_functions` is the whole filter step. The mcount words are read
    from the section as `McountAddrs`, and the compaction loop is a `SelectSeq`
    with `KeepFunction`.
  - The qsorts are not modelled, because every later lookup is by key:
    `should_generate_function` looks up by name and `percpu_var_exists` by
    address.
- **`BtfEncoder`** is the CU driver as a state machine:
  - Its variables are the globals above, plus a few things the model adds:
    - `pc`, `cu` and `pos`: the current loop and its index;
    - `type_id_off`;
    - `loaded`: the CUs passed so far;
    - `blobs`: the BTF written so far;
    - `btf_elf__force`: libbtf's global force flag. It starts FALSE.
      `cu__encode_btf` assigns it only at line 680, after `collect_symbols`
      has run, and `collect_percpu_var` reads it. So the first file is
      collected without force, whatever the caller asked.
  - `EncodeCU` is lines 652-693, from the file switch to the index type
    preparation.
  - `EncodeType` is one iteration of the type loop, including the drift check.
  - `TypesDone` is lines 705-712.
  - `EncodeFunc` is one iteration of the function loop. Its two modes are the
    ftrace mode and the DWARF fallback.
  - `FuncsDone` is the skip checks of 751-755.
  - `EncodeVar` is one iteration of the variable loop. `VarsDone` is its end.
  - `Finalize` is `btf_encoder__encode`.
  - `Fail` is the `out:` error path. Every failing branch uses it.
  - The writer is an append-only sequence of records `[kind, name, refs, want,
    src]`. `refs` are the ids a record references. `src` and `want` name the
    DWARF tag a record came from and the tag each reference should reach. They
    are kept only to state the properties.
  - The DATASEC lists the section-info entries sorted by offset. The sort
    is done by libbtf's `btf_elf__add_datasec_type`, which is outside this
    repository.
  - Struct members and enumerators are part of their record. This is why the
    model can state the drift check without the writer's byte layout.
  - An ARRAY record carries `nelems`, which `array_type__nelems` computes
    as the product of the tag's dimensions in a `uint32_t`. The width is the
    constant `UINT32_BITS`, and the cfgs scale it down to 8 bits.
- **`CollectLoop`** is `collect_symbols` (586-627) and `filter_functions`
  (182-251) step by step. Its phases are `lpc`: `"syms"`, `"filter"` and
  `"done"`.
  - `CollectSym` is one turn of the symbol loop. It uses the per-symbol
    operators of `SymbolCollector`. `CollectSymFails` is the `return -1` of a
    per-CPU error.
  - At the end of the loop there are three cases:
    - `NoFilter` is the DWARF fallback (`delete_functions`).
    - `NoMcountSection` is filter_functions failing to find the section
      header.
    - `StartFilter` reads the mcount table. `offset` and `count` are
      `unsigned long` values, modulo `2^ULONG_BITS`, and a word read past the
      section data is undefined behaviour, modelled as 0 (`SectionWord`).
  - The compaction loop has three steps: `FilterSkipInit`, `FilterKeep` and
    `FilterDrop`. `FilterKeep` copies entry `i` down to `functions_valid`.
  - `FilterDone` trims the table to `functions_valid`.
- **`EncoderSession`** is what the CU driver promises its loader (spec.md
  5, 6 and 7). A session belongs to one file, and type encoding is reduced
  to the set of tags each blob holds. Its actions are:
  - `Pass(c)`: a CU is passed. The open session of another file is
    committed as one blob, or the commit fails. Then `c`'s session is opened
    or kept, or `c` fails at once.
  - `Abort`: a later fatal error tears the session down.
  - `Finish`: the final call commits the last session. Its write may fail.
- **`CollectAbstract`** is what spec.md 4.A and 4.B promise of the collector,
  in one step computed from the image alone:
  - the per-CPU objects whose names are identifiers;
  - failure for a bad name without force, or for more objects than the table
    holds;
  - for a kernel image, the function symbols that are ftrace locations and
    not plain `.init`;
  - otherwise an empty function table.
- **`MCCollect`** gives `CollectLoop` its images (see Bounds).
- **`MCBtfEncoder`** gives the inputs:
  - a vmlinux image with the ftrace anchors, an mcount table, a `.init` range
    with a bpf-preserved part, and a per-CPU section;
  - variants of that image: without traced functions, or without the bad
    per-CPU symbol;
  - a module object with no anchors (the DWARF fallback) and a variant of it
    with a badly named per-CPU symbol;
  - five CUs:
    - `cu1` has an `int`, a pointer and an array.
    - `cu2` has no `int`, has a void pointer, an array and a struct, and
      shares function `foo` with `cu1`.
    - `cu3` has a typedef, a prototype and a forward union.
    - `cu4` defines the same external function `wk` as `cu3`.
    - `cu5`, also in mod.o, has an `int`, an enum, a pointer to the enum and
      a function.

- **`Pfunct`** is `main` of `pfunct.c` as a state machine:
  - `GetOpt` is one turn of the `getopt_long` loop (86-93). `Operands` is
    the operand switch (95-102). `Load` is `classes__load` (104-108).
    `Dispatch` chooses the listing (110-137). `IterStep` is one call of an
    iterator by `classes__for_each`, and `IterDone` its return.
  - `sizes_iterator`, `class_iterator` and `class__has_parameter_of_type`
    are operators translated from the code.
  - The command line is an input chosen in `Init`: the sequence of
    `getopt_long` results (GNU getopt has already moved the operands to
    the end) and the operands.
  - The classes library is modelled from its declarations. The lookups find
    the first class of a CU with an id or a name. `classes__for_each` walks
    every class of every CU in order. `classes__load` may succeed or fail
    with any of a set of databases.
  - The output is a sequence of events `[fd, kind, arg]`.
  - `%u` given a `uintmax_t` is undefined behaviour. The model takes what the
    LP64 and little-endian 32-bit builds print: the low `unsigned int` of the
    value. The widths are scaled down to 6 and 4 bits.
- **`MCPfunct`** gives the databases:
  - one CU 0 with `struct foo`, `foo *`, and functions taking `foo *`,
    `foo`, `foo *` (inlined) and `int`;
  - the same CU under id 1, with and without an empty CU 0 after it;
  - for the violation runs: a second CU with an unrelated struct at foo's
    id, a function taking `const foo *`, and a function too large for
    `unsigned int`.

The loader is outside this repository. It is modelled by two things:

- `LoaderMayPass`: each CU is passed once, and all CUs of a file are passed
  before any CU of another file. Within those rules the order is free.
- The constant `LoaderStopsOnError`.

The writer is also outside this repository. Its calls fail or succeed
nondeterministically when `WriterMayFail` is TRUE.

## Properties and runs

| Run | cfg | Expect | What it shows |
|---|---|---|---|
| name_window | MCNameValidator.cfg | pass | `ValidMatchesWindow`: the code accepts exactly `[A-Za-z_.][A-Za-z0-9_.]{0,K-1}` for every name, including names longer than the window. |
| name_spec | MCNameValidator_spec.cfg | violation | `ValidMatchesSpec`: a name of exactly K characters is accepted, where spec.md 8.5 allows K-1. |
| encoder | MCBtfEncoder.cfg | pass | Every loader order of cu1, cu2, cu3 and cu5, with a writer that never fails. vmlinux-first orders stop at collection (force is not yet set). The blob invariants hold, and the driver refines `EncoderSession`. |
| encoder_fail | MCBtfEncoder_fail.cfg | pass | All four CUs. Every writer call may fail, symbol collection fails for `mod.o`, and the loader stops on the first error. The driver still refines `EncoderSession`. |
| synth_index_fail | MCBtfEncoder_synthfail.cfg | violation | `ArrayIndexIsInt`: a failed synthetic-type add goes unnoticed (line 710). The trace passes mod.o first, so force is set when vmlinux is collected. |
| untraced_fallback | MCBtfEncoder_notrace.cfg | violation | `KernelFuncsTraced`: an empty filtered table switches vmlinux to the DWARF rule (line 724). |
| weak_duplicate | MCBtfEncoder_weak.cfg | violation | `FuncEmittedOnce`: the DWARF rule emits `wk` twice (lines 736-738). |
| datasec_unchecked | MCBtfEncoder_datasec.cfg | violation | `VarsCoveredByDatasec`: the result of `btf_elf__add_datasec_type` is ignored (line 445). A rejected DATASEC leaves a written blob whose VARs have no DATASEC. spec.md 7 says every add failure is fatal. |
| force_first_file | MCBtfEncoder_force.cfg | violation | `ForceSkipsBadNames`: with force on, vmlinux as the first file still fails on `bad-sym`. `collect_percpu_var` reads `btf_elf__force` (529) before line 680 assigns it. spec.md 4.F says force turns the error into a warning. |
| collect | MCCollect.cfg | pass | `CollectImplementsPromise`: the step-wise `collect_symbols` refines `CollectAbstract`, liveness included. |
| pfunct | MCPfunct.cfg | pass | `ClassParamsListed` and `ExitStatusReportsErrors`, for every command line of up to 2 options and 3 operands. |
| pfunct_cross_cu | MCPfunct_cross.cfg | violation | `ClassParamsListed`: `-c` lists a function of CU 1 whose parameter points to an unrelated struct with the id the class has in CU 0 (pfunct.c:49). |

The encoder's properties are stated over the blobs written:

- **`RefsReachIntendedTags`** is the ID-drift invariant. Every reference
  derived from a DWARF id is 0 exactly for void. Otherwise it is the id of the
  record encoded from that very tag.
- **`ArrayIndexIsInt`**: every ARRAY's index type is an `int` or
  `__ARRAY_SIZE_TYPE__` record of the same blob.
- **`FuncEmittedOnce`**: each function name has at most one FUNC per blob.
- **`KernelFuncsTraced`**: in a kernel image, every FUNC is an ftrace location
  outside the plain `.init` range. It is stated from the image itself, not
  from the filter.
- **`SecinfoMatchesSymbols`**: every per-CPU section entry describes a VAR
  named after a per-CPU symbol, with that symbol's address and size. Every VAR
  has exactly one entry.
- **`EncoderImplementsSession`** is `Session!FairSpec`, where `Session` is
  `EncoderSession` instantiated with this refinement mapping:
  - `session` is the file of the active writer, or `NoWriter`;
  - `written` is the blobs, each reduced to its file and the set of DWARF
    tags its records were encoded from (`TagsOf`);
  - `status` is `"failed"` when the loader stopped, `"finished"` after the
    final call, `"crashed"` after the NULL dereference, and `"running"`
    otherwise. The abstract spec has no crashed state.
  The property says four things:
  - a blob is written per file, in the loader's file order;
  - each blob holds every tag of every CU of its file, and no other tag;
  - no blob is written after a fatal error;
  - every run ends, finished or stopped.
  It replaces the earlier invariant `BlobsHoldTheirFileCUs`, which said only
  the second of these.
- **`VarsCoveredByDatasec`** (violation run only): every VAR of a blob is
  described by exactly one entry of the blob's single DATASEC, and a DATASEC
  describes only VARs. It is checked with a writer that may fail, the only
  case in which the code can break it.
- **`ForceSkipsBadNames`** (violation run only): with force on and a writer
  that never fails, the run never stops on a file whose symbols collect
  cleanly with force but fail without it.

The collector's property:

- **`CollectImplementsPromise`** is `Promise!FairSpec`, where
  `Promise == INSTANCE CollectAbstract WITH result <- Result`. The refinement
  mapping `Result` is `pending` until `lpc = "done"`. After that it is
  `failed` if `err` is set, and otherwise the two tables. `elf` and `flags`
  map to themselves; both are variables chosen in `Init`, so the same image
  and flags are used on both sides.
  - Every step of `CollectLoop` before the end is a stutter of the abstract
    spec, and the step to `"done"` is its `Collect`.
  - The property checks the unsigned offset and count of the mcount read,
    the in-place compaction and its final trim, and the per-CPU capacity
    test.
  - It also checks liveness: `collect_symbols` returns.

pfunct's properties:

- **`ClassParamsListed`**: `-c <class>` lists exactly the functions, of every
  CU, with a parameter that points to `<class>`. This is what the usage text
  promises.
- **`ExitStatusReportsErrors`**: the status is `EXIT_FAILURE` exactly when an
  option is unknown or lacks its argument, there are more than two operands,
  or the load fails. A name that is not found still exits with success.

Each property of a passing run has a mutant of the code that TLC must catch.
The mutants are listed in PROJECT.json. For the encoder they are:
- a dropped void case;
- a dropped `.init` test;
- a dropped `generated` mark;
- nr_entries without its void slot;
- a section offset that forgets the per-CPU base;
- a dropped filename comparison.

For the collector it is a filter that forgets
`functions_cnt = functions_valid`. For pfunct they are a pointer compared
without looking up its target, and a dropped operand limit.

Earlier versions also checked these properties, which are now dropped:
- a type invariant;
- `ArrayNelemsIsProduct`, which restated `array_type__nelems` below the wrap;
- `SizesShown`, which reused the iterator's own guard;
- `Termination`, which holds by construction.

No realistic mutant of the code breaks them.

### Bounds

- **Name validator:** K = 3 and names up to 5 characters. This covers names
  shorter than the window, names that end exactly at the limit, and names
  longer than the window. The loop treats every length alike except at the
  limit, so the result does not depend on K.
- **Encoder:**
  - KSYM_NAME_LEN = 8, enough for the MC symbol names.
  - MAX_PERCPU_VAR_CNT = 2. vmlinux has exactly two valid per-CPU
    variables, so the table is filled to its limit.
  - UINT32_BITS = 8.
  - mod.o has two CUs. This gives mod.o-first orders, in which force is
    already set when vmlinux and its `bad-sym` are collected.
  - Three or four CUs over two files. This gives:
    - both file orders;
    - a file switch with a written blob;
    - both CU orders within vmlinux. In one order the `int` comes first; in the
      other the synthetic index type is needed first and is then carried to
      the next CU.
    - a function shared by two CUs;
    - an `.init` function, a bpf-preserved `.init` function and a static
      function;
    - a per-CPU variable reached through DW_AT_specification and a global
      one.

- **Collector (`MCCollect`):**
  - every subset of six function symbols: one without an address, one
    traced, one at the stop word, one traced but plain `.init`, one traced
    and bpf-preserved, and one at the word before the start;
  - 0, 2 or 3 valid per-CPU objects (empty, exactly full, one over
    MAX_PERCPU_VAR_CNT = 2), with and without a badly named one, plus objects
    without an address or a size;
  - four anchor layouts: all anchors, one missing, no mcount section, and a
    zero-valued `__start_mcount_loc` of another section before the real one;
  - both values of each flag;
  - ULONG_BITS = 7, which holds every address of the images (up to 96).
    The offset and count are reduced modulo 2^7 as the code reduces them
    modulo 2^64.

- **pfunct:**
  - every sequence of up to 2 `getopt_long` results over `-c foo`, `-c f1`,
    `-c vmlinux`, `-s`, `-V` and `?`;
  - up to 3 operands, which reaches the usage error;
  - a load that succeeds or fails;
  - three databases, which reach every branch of `main`'s dispatch.

### Fairness and liveness

`collect_symbols` is straight-line code with bounded loops, run by the one
encoder thread. `CollectLoop!FairSpec` therefore assumes `WF_vars(Next)`,
and the abstract spec promises only `WF` of its single `Collect`.

The encoder runs with `BtfEncoder!FairSpec`, which is `Spec /\
WF_vars(Next)`. The assumption is pahole's loader: it passes every CU of
its input and then calls `btf_encoder__encode`, unless a call returned an
error. Each call runs to its end on the one thread. `EncoderSession`
promises `WF` of its own `Next`. The refinement therefore also checks that
every run ends.

pfunct is a single-threaded process, and its run uses `FairSpec`
(`WF_vars(Next)`). It has no liveness property: every loop of `main` runs
over a finite sequence, so termination would hold by construction.
`Terminated` is the stutter after the run ends. With it, deadlock checking
finds a stuck step, because every other state has an enabled action.

## What is not modelled

- Allocation failures: the realloc in `collect_function`, the malloc in
  `filter_functions`, and the writer's own memory.
- Verbose output, string tables, and the writer's byte layout (sizes, bit
  offsets, enum values).
- The wrap of `array_type__nelems` (363). The model keeps the modular
  product, but no input has an array of 2^32 elements. So no property
  reaches the wrap.
- The truncated `%u` of pfunct's `-s` (pfunct.c:74). `PrintfU` keeps the
  low bits, but no run checks it.
- Mcount anchors that are out of order. A linked kernel always places
  `__start_mcount_loc` first.
- A loader that continues after an error. `LoaderStopsOnError` is TRUE in
  every run, because pahole exits on the first error. Without that, two
  defects are reachable:
  - `btf_encoder__encode` dereferences a NULL `btfe` (444);
  - the next CU of the same file starts a new blob, which misses the earlier
    CUs (662).
  Both were found with earlier runs. With `LoaderStopsOnError = FALSE`,
  TLC finds `EncoderImplementsSession` violated by the first of them. No run
  has that setting, because only one run per question fits.
- The classes library behind `classes.h` is not in this repository. Its
  lookups and its walk are modelled from the declarations, and what
  `classes__load` builds is an input. So are `classes__print` and
  `class__print`, which are kept as events.
- Two pfunct defects are known but not among the runs, to keep the number of
  runs small:
  - `usage()` (pfunct.c:30) has a comma after `" where: \n"`. The option
    descriptions become an unused argument of `fprintf`, so they are never
    printed. The model leaves the usage wording out.
  - A parameter of type `const <class> *` is not matched by `-c`
    (pfunct.c:46). `MCPfunct` keeps the database `DbConst`, with which
    `ClassParamsListed` is violated.

## Plan for later work

1. **Inputs:**
   - a void-typed per-CPU variable, both with and without force;
   - two CUs defining the same per-CPU address.
