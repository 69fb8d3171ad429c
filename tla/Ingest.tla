------------------------------- MODULE Ingest -------------------------------
(***************************************************************************)
(* What the ingest promises, whatever the storage: a document is filed     *)
(* under its hash once, and once more at most for each lookup that passed  *)
(* over its entries (step 2 of ProcessOne, internal/document/pipeline.go); *)
(* an entry never disappears or changes its hash; an original is archived  *)
(* only once it has been filed (steps 6 and 7), and stays archived unless  *)
(* its document was passed over.                                           *)
(***************************************************************************)
EXTENDS Naturals

CONSTANT Contents   \* documents, identified by their SHA-256

VARIABLES
    given,      \* documents put in the inbox so far
    entries,    \* number of complete library entries of each document
    missed,     \* number of lookups that passed over a filed document
    archived    \* documents with a copy in the processed directory

vars == <<given, entries, missed, archived>>

Init ==
    /\ given = {} /\ archived = {}
    /\ entries = [c \in Contents |-> 0] /\ missed = [c \in Contents |-> 0]

Give(c) == given' = given \cup {c} /\ UNCHANGED <<entries, missed, archived>>

\* A lookup does not see a document that has been filed.
Miss(c) ==
    /\ entries[c] > 0
    /\ missed' = [missed EXCEPT ![c] = @ + 1]
    /\ UNCHANGED <<given, entries, archived>>

File(c) ==
    /\ c \in given /\ entries[c] <= missed[c]
    /\ entries' = [entries EXCEPT ![c] = @ + 1]
    /\ UNCHANGED <<given, missed, archived>>

Archive(c) ==
    /\ entries[c] > 0
    /\ archived' = archived \cup {c}
    /\ UNCHANGED <<given, entries, missed>>

\* A document that was passed over is archived under its old name: a copy that
\* breaks off there has overwritten the first one.
Overwrite(c) ==
    /\ missed[c] > 0
    /\ archived' = archived \ {c}
    /\ UNCHANGED <<given, entries, missed>>

Next ==
    \E c \in Contents : Give(c) \/ Miss(c) \/ File(c) \/ Archive(c) \/ Overwrite(c)

Spec == Init /\ [][Next]_vars
=============================================================================
