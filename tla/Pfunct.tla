------------------------------- MODULE Pfunct -------------------------------
(***************************************************************************)
(* pfunct.c: the command line is parsed (getopt_long, then the operands),  *)
(* the DWARF of the file is loaded with classes__load, and one of four     *)
(* listings is printed: function sizes (-s), functions with a pointer      *)
(* parameter to a class (-c), every function, or one function.             *)
(*                                                                         *)
(* The classes library is not in this repository; only its interface,     *)
(* classes.h, is.  It is modelled from that interface: a database is a     *)
(* sequence of CUs [id, classes], a class a record                         *)
(*   [id, name, tag, type, inlined, low_pc, high_pc, members]              *)
(* with members the type ids of its members (parameters of a function).   *)
(* What the program prints is kept as a sequence of events                 *)
(* [fd, kind, arg]; the text of each line is left out.                     *)
(***************************************************************************)
EXTENDS Naturals, Sequences, SequencesExt, FiniteSets

CONSTANTS
    Databases,      \* what classes__load may build
    Words,          \* the words argv may hold
    MaxOpts,        \* bound on the options of argv
    MaxArgs,        \* bound on the operands of argv
    UINTMAX_BITS,   \* width of uintmax_t, scaled down
    UINT_BITS,      \* width of unsigned int, scaled down
    Null            \* model value: a NULL pointer

ASSUME UINT_BITS < UINTMAX_BITS

VARIABLES
    argv_opts,      \* what getopt_long returns, in order
    argv_args,      \* the operands, argv[optind..argc-1]
    db,             \* the database classes__load builds
    load_ok,        \* whether classes__load returns 0
    verbose, show_sizes, class_name, function_name, file_name,
    opt,            \* the next getopt_long result
    pc,             \* "getopt", "load", "dispatch", "iterate", "exit"
    iter,           \* the classes__for_each iterator running, or Null
    target,         \* its cookie: the class of -c
    pos,            \* <<cu index, class index>> of classes__for_each
    out,            \* the events printed, stdout and stderr
    status          \* the value main returns, Null before

vars == <<argv_opts, argv_args, db, load_ok, verbose, show_sizes, class_name,
          function_name, file_name, opt, pc, iter, target, pos, out, status>>

(* The results of getopt_long(argc, argv, "c:sV", ...): -c with its       *)
(* argument, -s, -V, or '?' for an unknown option or a missing argument.  *)
OptTokens == {[o |-> "c", arg |-> w] : w \in Words}
             \cup {[o |-> x, arg |-> Null] : x \in {"s", "V", "?"}}

Ev(fd, kind, arg) == [fd |-> fd, kind |-> kind, arg |-> arg]

(* usage(): the synopsis on stderr; the wording is left out.             *)
usage == Ev("stderr", "usage", <<>>)

(* classes.h interface, spec_modelled: cus__find_by_id gives the index of  *)
(* the CU with that id (0 for Null); cu__find_by_id and cu__find_by_name   *)
(* give the first class of the CU with that id or name, or Null.           *)
cus__find_by_id(d, id) == SelectInSeq(d, LAMBDA c : c.id = id)
ClassAt(cu, k) == IF k = 0 THEN Null ELSE cu.classes[k]
cu__find_by_id(cu, type) ==
    ClassAt(cu, SelectInSeq(cu.classes, LAMBDA c : c.id = type))
cu__find_by_name(cu, name) ==
    ClassAt(cu, SelectInSeq(cu.classes, LAMBDA c : c.name = name))

(* classes__for_each, spec_modelled: every class of every CU in order.     *)
(* Seek gives the first position at or after <<ci, ki>> holding a class,   *)
(* past the last CU when there is none.                                    *)
RECURSIVE Seek(_, _, _)
Seek(d, ci, ki) ==
    IF ci > Len(d) \/ ki <= Len(d[ci].classes) THEN <<ci, ki>>
    ELSE Seek(d, ci + 1, 1)

(* A mutant: the pointer's own id is compared, its target never looked up. *)
HasParamNoDeref(cu, self, target_) ==
    \E k \in DOMAIN self.members :
      LET cls == cu__find_by_id(cu, self.members[k])
      IN  cls # Null /\ cls.tag = "pointer_type" /\ cls.id = target_.id

(* class__has_parameter_of_type: some member whose type, looked up in the  *)
(* CU, is a pointer whose target, looked up in the same CU, has the id of  *)
(* the target class.                                                        *)
class__has_parameter_of_type(cu, self, target_) ==
    \E k \in DOMAIN self.members :
      LET cls == cu__find_by_id(cu, self.members[k])
      IN  /\ cls # Null /\ cls.tag = "pointer_type"
          /\ LET pointee == cu__find_by_id(cu, cls.type)
             IN  pointee # Null /\ pointee.id = target_.id

(* A function as both iterators select it: a subprogram not inlined.       *)
IsListedFunction(c) == c.tag = "subprogram" /\ ~c.inlined

(* class_iterator: a selected function with a pointer parameter to the     *)
(* target is printed, in full under -V, by name otherwise.                 *)
class_iterator(cu, c, tgt) ==
    IF IsListedFunction(c) /\ class__has_parameter_of_type(cu, c, tgt)
      THEN <<Ev("stdout", IF verbose = 1 THEN "print" ELSE "name", c.name)>>
      ELSE <<>>

(* high_pc - low_pc in uintmax_t.                                          *)
uintmax_sub(h, l) == (h - l) % (2 ^ UINTMAX_BITS)

(* printf "%u" given a uintmax_t: the behaviour is undefined; the builds   *)
(* this code targets (LP64 and little-endian ILP32) read the low unsigned *)
(* int of the argument.                                                    *)
PrintfU(v) == v % (2 ^ UINT_BITS)

(* sizes_iterator: a selected function is printed with its size.           *)
sizes_iterator(cu, c) ==
    IF IsListedFunction(c)
      THEN <<Ev("stdout", "size",
                <<c.name, PrintfU(uintmax_sub(c.high_pc, c.low_pc))>>)>>
      ELSE <<>>

(* A mutant: the default case dropped, a third operand is ignored.         *)
OperandsNoLimit(args) ==
    CASE Len(args) = 0 -> [ok |-> TRUE, file |-> Null, fn |-> Null]
      [] Len(args) = 1 -> [ok |-> TRUE, file |-> args[1], fn |-> Null]
      [] OTHER         -> [ok |-> TRUE, file |-> args[1], fn |-> args[2]]

(* The operands: none, a file, or a file and a function; more is a usage   *)
(* error.                                                                  *)
operands(args) ==
    CASE Len(args) = 0 -> [ok |-> TRUE, file |-> Null, fn |-> Null]
      [] Len(args) = 1 -> [ok |-> TRUE, file |-> args[1], fn |-> Null]
      [] Len(args) = 2 -> [ok |-> TRUE, file |-> args[1], fn |-> args[2]]
      [] OTHER         -> [ok |-> FALSE, file |-> Null, fn |-> Null]

(* getopt_long moves on to the next option.                                *)
NextOptind(i) == i + 1

Exit(code) == pc' = "exit" /\ status' = code

(* The start of main: locals and the static verbose zeroed, any command    *)
(* line, any database classes__load may build from the file.               *)
Init ==
    /\ argv_opts \in BoundedSeq(OptTokens, MaxOpts)
    /\ argv_args \in BoundedSeq(Words, MaxArgs)
    /\ db \in Databases
    /\ load_ok \in BOOLEAN
    /\ verbose = 0 /\ show_sizes = 0
    /\ class_name = Null /\ function_name = Null /\ file_name = Null
    /\ opt = 1
    /\ pc = "getopt"
    /\ iter = Null /\ target = Null /\ pos = <<1, 1>>
    /\ out = <<>>
    /\ status = Null

Input == <<argv_opts, argv_args, db, load_ok>>

(* One turn of the getopt_long loop.                                       *)
GetOpt ==
    /\ pc = "getopt"
    /\ opt <= Len(argv_opts)
    /\ LET tok == argv_opts[opt]
       IN  IF tok.o = "?"
             THEN /\ out' = Append(out, usage)
                  /\ Exit("EXIT_FAILURE")
                  /\ UNCHANGED <<verbose, show_sizes, class_name, opt>>
             ELSE /\ class_name' = IF tok.o = "c" THEN tok.arg ELSE class_name
                  /\ show_sizes' = IF tok.o = "s" THEN 1 ELSE show_sizes
                  /\ verbose' = IF tok.o = "V" THEN 1 ELSE verbose
                  /\ opt' = NextOptind(opt)
                  /\ UNCHANGED <<pc, out, status>>
    /\ UNCHANGED <<Input, function_name, file_name, iter, target, pos>>

(* getopt_long returned -1: the operands are taken.                        *)
Operands ==
    /\ pc = "getopt"
    /\ opt > Len(argv_opts)
    /\ LET r == operands(argv_args)
       IN  IF r.ok
             THEN /\ file_name' = r.file /\ function_name' = r.fn
                  /\ pc' = "load"
                  /\ UNCHANGED <<out, status>>
             ELSE /\ out' = Append(out, usage)
                  /\ Exit("EXIT_FAILURE")
                  /\ UNCHANGED <<file_name, function_name>>
    /\ UNCHANGED <<Input, verbose, show_sizes, class_name, opt, iter, target,
                   pos>>

(* classes__load(file_name); a failure is reported and ends the run.       *)
Load ==
    /\ pc = "load"
    /\ IF load_ok
         THEN pc' = "dispatch" /\ UNCHANGED <<out, status>>
         ELSE /\ out' = Append(out, Ev("stderr", "msg", "load_failed"))
              /\ Exit("EXIT_FAILURE")
    /\ UNCHANGED <<Input, verbose, show_sizes, class_name, function_name,
                   file_name, opt, iter, target, pos>>

(* A message on stdout, then return EXIT_SUCCESS.                          *)
Say(ev) ==
    /\ out' = Append(out, ev)
    /\ Exit("EXIT_SUCCESS")
    /\ UNCHANGED <<iter, target, pos>>
NotFound(what) == Say(Ev("stdout", "msg", what))

(* classes__for_each(it, cookie) starts at the first class.                *)
StartIter(it, cookie) ==
    /\ iter' = it /\ target' = cookie
    /\ pos' = Seek(db, 1, 1)
    /\ pc' = "iterate"
    /\ UNCHANGED <<out, status>>

(* The choice of listing: -s, then -c, then all functions, then the       *)
(* function named by the second operand.  -c and a function name are      *)
(* looked up in CU 0 only.                                                 *)
Dispatch ==
    /\ pc = "dispatch"
    /\ LET cu0 == cus__find_by_id(db, 0)
           cls == IF cu0 = 0 THEN Null ELSE cu__find_by_name(db[cu0], class_name)
           fn  == IF cu0 = 0 THEN Null ELSE cu__find_by_name(db[cu0], function_name)
       IN  CASE show_sizes = 1 -> StartIter("sizes", Null)
             [] class_name # Null /\ cu0 = 0 -> NotFound("cu0_not_found")
             [] class_name # Null /\ cls = Null -> NotFound("class_not_found")
             [] class_name # Null -> StartIter("class", cls)
             [] function_name = Null ->
                  Say(Ev("stdout", "print_all", "subprogram"))
             [] cu0 = 0 -> NotFound("cu0_not_found")
             [] fn = Null -> NotFound("function_not_found")
             [] OTHER -> Say(Ev("stdout", "print", fn.name))
    /\ UNCHANGED <<Input, verbose, show_sizes, class_name, function_name,
                   file_name, opt>>

(* classes__for_each calls the iterator on one class.                     *)
IterStep ==
    /\ pc = "iterate"
    /\ pos[1] <= Len(db)
    /\ LET cu == db[pos[1]]
           c  == cu.classes[pos[2]]
       IN  out' = out \o (IF iter = "sizes" THEN sizes_iterator(cu, c)
                          ELSE class_iterator(cu, c, target))
    /\ pos' = Seek(db, pos[1], pos[2] + 1)
    /\ UNCHANGED <<Input, verbose, show_sizes, class_name, function_name,
                   file_name, opt, pc, iter, target, status>>

(* classes__for_each returns; main returns EXIT_SUCCESS.                   *)
IterDone ==
    /\ pc = "iterate"
    /\ pos[1] > Len(db)
    /\ Exit("EXIT_SUCCESS")
    /\ UNCHANGED <<Input, verbose, show_sizes, class_name, function_name,
                   file_name, opt, iter, target, pos, out>>

(* The process has exited.                                                 *)
Exited == pc = "exit" /\ UNCHANGED vars

Next == GetOpt \/ Operands \/ Load \/ Dispatch \/ IterStep \/ IterDone \/ Exited

Spec == Init /\ [][Next]_vars

(* main runs on one thread that is never starved: weak fairness of its    *)
(* steps.                                                                  *)
FairSpec == Spec /\ WF_vars(Next)
-----------------------------------------------------------------------------
(***************************************************************************)
(* Properties.                                                             *)
(***************************************************************************)
Events == [fd : {"stdout", "stderr"}, kind : STRING, arg : STRING]
          \cup [fd : {"stdout"}, kind : {"size"}, arg : STRING \X Nat]
          \cup [fd : {"stderr"}, kind : {"usage"}, arg : Seq(STRING)]

TypeOK ==
    /\ pc \in {"getopt", "load", "dispatch", "iterate", "exit"}
    /\ out \in Seq(Events)
    /\ status \in {Null, "EXIT_SUCCESS", "EXIT_FAILURE"}
    /\ opt \in 1..(MaxOpts + 1)

Printed(kinds) == {out[i].arg : i \in {j \in DOMAIN out : out[j].kind \in kinds}}

AllClasses(d) == UNION {ToSet(d[i].classes) : i \in DOMAIN d}

(* The -s listing, once classes__for_each has returned, shows every        *)
(* function that is not inlined, in any CU, with its size high_pc -        *)
(* low_pc, and nothing else (sizes_iterator and its printf).               *)
SizesShown ==
    (pc = "exit" /\ iter = "sizes") =>
      Printed({"size"}) = {<<c.name, c.high_pc - c.low_pc>> :
                             c \in {x \in AllClasses(db) : IsListedFunction(x)}}

(* A cv-qualified type stands for the type it qualifies.                   *)
RECURSIVE Unqualified(_, _)
Unqualified(cu, c) ==
    IF c # Null /\ c.tag \in {"const_type", "volatile_type"}
      THEN Unqualified(cu, cu__find_by_id(cu, c.type))
      ELSE c

(* A function of cu with a parameter that points to a class named name.    *)
TakesPointerTo(cu, f, name) ==
    \E k \in DOMAIN f.members :
      LET p == cu__find_by_id(cu, f.members[k])
      IN  /\ p # Null /\ p.tag = "pointer_type"
          /\ LET q == Unqualified(cu, cu__find_by_id(cu, p.type))
             IN  q # Null /\ q.name = name

(* Every <<CU, function>> pair of a database.                             *)
CuFunctions(d) ==
    {x \in UNION {{<<cu, c>> : c \in ToSet(cu.classes)} : cu \in ToSet(d)} :
       IsListedFunction(x[2])}

(* What the usage text promises for -c <class>: once the listing is done,  *)
(* it names exactly the functions, of every CU, that have a pointer        *)
(* parameter to <class> (class_iterator, class__has_parameter_of_type,    *)
(* main's lookup of the class).                                            *)
ClassParamsListed ==
    (pc = "exit" /\ iter = "class") =>
      Printed({"name", "print"}) =
        {x[2].name : x \in {y \in CuFunctions(db) :
                              TakesPointerTo(y[1], y[2], class_name)}}

(* The exit status: EXIT_FAILURE exactly when an option is unknown or      *)
(* lacks its argument, there are more than two operands, or the DWARF      *)
(* cannot be loaded; a name that is not found is not a failure.            *)
ExitStatusReportsErrors ==
    pc = "exit" =>
      (status = "EXIT_FAILURE" <=>
         \/ \E i \in DOMAIN argv_opts : argv_opts[i].o = "?"
         \/ Len(argv_args) > 2
         \/ ~load_ok)
====
