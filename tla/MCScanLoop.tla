----------------------------- MODULE MCScanLoop -----------------------------
(* Small instances of ScanLoop for TLC.                                    *)
EXTENDS ScanLoop

CONSTANTS f1, f2, f3

OwnNames == [f \in Files |-> f]

\* Two files of one name.
SharedName == [f \in Files |-> IF f = f3 THEN "other.pdf" ELSE "scan.pdf"]

\* The order may change from one listing to the next.
AnyOrder == [f \in Files |-> 0]
=============================================================================
