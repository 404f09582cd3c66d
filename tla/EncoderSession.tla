--------------------------- MODULE EncoderSession ---------------------------
(***************************************************************************)
(* What the CU driver promises its loader (spec.md 5, 6 and 7), with the   *)
(* type encoding abstracted to the set of DWARF tags a blob holds.        *)
(*                                                                         *)
(* The loader passes each CU once, all CUs of a file together.  An        *)
(* encoding session belongs to one file.  Passing a CU of another file    *)
(* first commits the open session as one blob, holding every tag of every *)
(* CU of its file.  A fatal error tears the session down and the loader   *)
(* stops; no partial blob is ever committed.  After the last CU the       *)
(* session is committed by the final call, whose write may fail.          *)
(***************************************************************************)
EXTENDS Naturals, Sequences, SequencesExt, FiniteSets

CONSTANTS
    CUs,          \* records with a name, a file and types
    NoSession     \* no session is open (btfe == NULL)

VARIABLES
    loaded,       \* the CUs passed so far, in order
    session,      \* the file of the open session, or NoSession
    written,      \* the blobs committed: Seq([file, tags])
    status        \* "running", "failed" (the loader stopped) or "finished"

svars == <<loaded, session, written, status>>

(* The tags of a file: <<cu name, core id>> of every type of its CUs.     *)
FileTags(f) ==
    UNION {{<<c.name, k>> : k \in DOMAIN c.types} : c \in {d \in CUs : d.file = f}}

Commit(f) == [file |-> f, tags |-> FileTags(f)]

(* The loader's order: a CU not passed before, and a new file only when   *)
(* every CU of the last one was passed and the new one was never opened.  *)
MayPass(c) ==
    /\ c \notin ToSet(loaded)
    /\ loaded # <<>> =>
         LET last == Last(loaded).file
         IN  c.file = last
             \/ /\ \A d \in CUs : d.file = last => d \in ToSet(loaded)
                /\ \A d \in ToSet(loaded) : d.file # c.file

Init ==
    /\ loaded = <<>>
    /\ session = NoSession
    /\ written = <<>>
    /\ status = "running"

(* encode_cu(c): a session of another file is committed, or its commit    *)
(* fails; then c's session is opened or kept, or c fails at once.          *)
Pass(c) ==
    /\ status = "running"
    /\ MayPass(c)
    /\ loaded' = Append(loaded, c)
    /\ LET switch == session # NoSession /\ session # c.file
       IN  \/ /\ switch
              /\ session' = NoSession /\ status' = "failed"
              /\ UNCHANGED written
           \/ /\ written' = IF switch THEN Append(written, Commit(session))
                            ELSE written
              /\ \/ session' = c.file /\ UNCHANGED status
                 \/ session' = NoSession /\ status' = "failed"

(* A fatal error later in encode_cu tears the open session down.          *)
Abort ==
    /\ status = "running" /\ session # NoSession
    /\ session' = NoSession /\ status' = "failed"
    /\ UNCHANGED <<loaded, written>>

(* finalize() after the last CU commits the session; the write may fail, *)
(* and then nothing is committed and the call returns the error.          *)
Finish ==
    /\ status = "running" /\ session # NoSession
    /\ ToSet(loaded) = CUs
    /\ written' \in {Append(written, Commit(session)), written}
    /\ session' = NoSession /\ status' = "finished"
    /\ UNCHANGED loaded

Next == (\E c \in CUs : Pass(c)) \/ Abort \/ Finish

Spec == Init /\ [][Next]_svars

(* The loader drives the session to its end: it passes every CU and then  *)
(* calls finalize, unless it stopped on an error.                         *)
FairSpec == Spec /\ WF_svars(Next)
=============================================================================
