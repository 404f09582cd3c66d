------------------------------ MODULE MCPfunct ------------------------------
(***************************************************************************)
(* Databases for Pfunct.  Ids are per CU, as cu__find_by_id looks them up *)
(* in one CU.                                                              *)
(***************************************************************************)
EXTENDS Pfunct

Cls(id, name, tag, type, inl, lo, hi, ms) ==
  [id |-> id, name |-> name, tag |-> tag, type |-> type, inlined |-> inl,
   low_pc |-> lo, high_pc |-> hi, members |-> ms]
Struct(id, name)     == Cls(id, name, "structure_type", 0, FALSE, 0, 0, <<>>)
Ptr(id, t)           == Cls(id, "", "pointer_type", t, FALSE, 0, 0, <<>>)
Const(id, t)         == Cls(id, "", "const_type", t, FALSE, 0, 0, <<>>)
Base(id, name)       == Cls(id, name, "base_type", 0, FALSE, 0, 0, <<>>)
Fn(id, name, inl, lo, hi, ms) ==
  Cls(id, name, "subprogram", 0, inl, lo, hi, ms)

(* struct foo, foo *, and functions taking foo *, foo, foo * (inlined)    *)
(* and int.                                                                *)
Cu0Classes ==
  << Struct(1, "foo"), Ptr(2, 1), Fn(3, "f1", FALSE, 16, 26, <<2>>),
     Fn(4, "f2", FALSE, 26, 28, <<1>>), Fn(5, "f3", TRUE, 28, 31, <<2>>),
     Base(6, "int"), Fn(7, "f4", FALSE, 32, 32, <<6>>) >>

DbOne   == << [id |-> 0, classes |-> Cu0Classes] >>
(* The same CU under id 1, and an empty CU 0 after it.                     *)
DbNoCu0 == << [id |-> 1, classes |-> Cu0Classes] >>
DbEmpty == << [id |-> 1, classes |-> Cu0Classes], [id |-> 0, classes |-> <<>>] >>

(* A second CU whose struct bar has the id foo has in CU 0.                *)
DbCross == << [id |-> 0, classes |-> Cu0Classes],
              [id |-> 1, classes |-> << Struct(1, "bar"), Ptr(2, 1),
                                       Fn(3, "g", FALSE, 40, 44, <<2>>) >>] >>

(* A function taking const foo *.                                          *)
DbConst == << [id |-> 0, classes |-> << Struct(1, "foo"), Const(2, 1), Ptr(3, 2),
                                       Fn(4, "h", FALSE, 0, 8, <<3>>) >>] >>

(* A function larger than the unsigned int printf reads.                   *)
DbBig == << [id |-> 0, classes |-> << Fn(1, "big", FALSE, 0, 20, <<>>) >>] >>

MCWords == {"vmlinux", "foo", "f1"}

MCDatabases == {DbOne, DbNoCu0, DbEmpty}
CrossDatabases == {DbCross}
BigDatabases   == {DbBig}
=============================================================================
