--------------------------- MODULE NameValidator ---------------------------
(***************************************************************************)
(* The BTF identifier check of btf_encoder.c: btf_name_char_ok and         *)
(* btf_name_valid.  A symbol name is the NUL-terminated C string the ELF   *)
(* string table holds.  Only the character class of a byte matters to the  *)
(* check (isalpha/isalnum, '_' and '.'), so a character is modelled by its *)
(* class, and a name by the sequence of its classes without the NUL.       *)
(***************************************************************************)
EXTENDS Naturals, Sequences

CONSTANT KSYM_NAME_LEN   \* the identifier window, 128 in the code

ASSUME KSYM_NAME_LEN \in Nat \ {0}

Chars == {"alpha", "digit", "us", "dot", "other"}
NUL   == "nul"

(* The bytes the loop reads: the characters of the name, then its NUL.     *)
Buffer(name) == name \o <<NUL>>

(* btf_name_char_ok: '_' and '.' always, a letter first, letters and      *)
(* digits after.  isalpha/isalnum of the NUL byte are false.              *)
btf_name_char_ok(c, first) ==
    \/ c \in {"us", "dot"}
    \/ first /\ c = "alpha"
    \/ ~first /\ c \in {"alpha", "digit"}

(* A mutant of the loop bound: the loop also reads at p = limit.          *)
ScanPastLimit(buf, p) ==
    LET RECURSIVE Scan(_)
        Scan(q) == IF buf[q + 1] = NUL \/ q > KSYM_NAME_LEN
                     THEN buf[q + 1] = NUL
                   ELSE btf_name_char_ok(buf[q + 1], FALSE) /\ Scan(q + 1)
    IN Scan(p)

(* The while loop of btf_name_valid from offset p (0-based, as in C):     *)
(* it stops at the NUL or at limit = name + KSYM_NAME_LEN, rejects a bad  *)
(* character on the way, and the name is valid iff it stopped on the NUL. *)
ScanTail(buf, p) ==
    LET RECURSIVE Scan(_)
        Scan(q) == IF buf[q + 1] = NUL \/ q >= KSYM_NAME_LEN
                     THEN buf[q + 1] = NUL
                   ELSE btf_name_char_ok(buf[q + 1], FALSE) /\ Scan(q + 1)
    IN Scan(p)

(* btf_name_valid: check the first byte, then scan from offset 1.          *)
btf_name_valid(name) ==
    LET buf == Buffer(name)
    IN  btf_name_char_ok(buf[1], TRUE) /\ ScanTail(buf, 1)

(* The language the window admits: a name whose NUL lies within the      *)
(* KSYM_NAME_LEN bytes after its first character, [A-Za-z_.][A-Za-z0-9_.] *)
(* {0,KSYM_NAME_LEN-1}.                                                   *)
WindowNameValid(name) ==
    /\ 1 <= Len(name) /\ Len(name) <= KSYM_NAME_LEN
    /\ name[1] \in {"alpha", "us", "dot"}
    /\ \A i \in 2..Len(name) : name[i] \in {"alpha", "digit", "us", "dot"}

(* The language spec.md section 8 states: [A-Za-z_.][A-Za-z0-9_.]{0,126}, *)
(* with 126 = KSYM_NAME_LEN - 2.                                           *)
SpecNameValid(name) ==
    /\ 1 <= Len(name) /\ Len(name) <= KSYM_NAME_LEN - 1
    /\ name[1] \in {"alpha", "us", "dot"}
    /\ \A i \in 2..Len(name) : name[i] \in {"alpha", "digit", "us", "dot"}
=============================================================================
