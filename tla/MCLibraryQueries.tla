--------------------------- MODULE MCLibraryQueries --------------------------
(* Model values for LibraryQueries: those of MCLocalIngest.                  *)
EXTENDS LibraryQueries, MCLocalIngest
=============================================================================
