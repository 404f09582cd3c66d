-------------------------- MODULE MCNameValidator --------------------------
(***************************************************************************)
(* Enumerates every name up to MaxNameLen characters, one character per    *)
(* step, and compares btf_name_valid with the language of spec.md 8.5.    *)
(***************************************************************************)
EXTENDS NameValidator

CONSTANT MaxNameLen   \* longer than the window, so the limit is reached

ASSUME MaxNameLen > KSYM_NAME_LEN

VARIABLE name

Init == name = <<>>

(* Extend the name under test by one character.                           *)
Extend == /\ Len(name) < MaxNameLen
          /\ \E c \in Chars : name' = Append(name, c)

(* Every name is reached; the longest ones stay as they are.             *)
Done == Len(name) = MaxNameLen /\ UNCHANGED name

Next == Extend \/ Done

Spec == Init /\ [][Next]_name

TypeOK == name \in Seq(Chars) /\ Len(name) <= MaxNameLen

(* btf_name_valid, with its first-character test, its limit pointer and   *)
(* its final NUL test, accepts exactly the names whose characters are of  *)
(* the identifier class and whose NUL is reached within the window, on    *)
(* every name, those longer than the window included.                     *)
ValidMatchesWindow == btf_name_valid(name) = WindowNameValid(name)

(* spec.md 8.5: the per-CPU symbol check accepts exactly                  *)
(* [A-Za-z_.][A-Za-z0-9_.]{0,KSYM_NAME_LEN-2}, at most KSYM_NAME_LEN - 1  *)
(* characters, "since a 128-byte window must end in null".                *)
ValidMatchesSpec == btf_name_valid(name) = SpecNameValid(name)
=============================================================================
