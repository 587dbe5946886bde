----------------------------- MODULE MCScanner -----------------------------
(***************************************************************************)
(* A solution of a few translation units, parsed by two threads.           *)
(***************************************************************************)
EXTENDS Scanner
=============================================================================
