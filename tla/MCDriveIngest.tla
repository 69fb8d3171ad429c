---------------------------- MODULE MCDriveIngest ----------------------------
(* Small instances of DriveIngest for TLC.                                 *)
EXTENDS DriveIngest, TLC

\* Two inbox files with names of their own.
OwnNames == [f \in Files |-> f]

SharedName == [f \in Files |-> "scan.pdf"]

Symmetry == Permutations(Files) \cup Permutations(Contents)
=============================================================================
