---------------------------- MODULE MCThreadPool ----------------------------
(***************************************************************************)
(* A small ThreadPool for TLC: it starts with one thread, as Parser and    *)
(* Indexer do, and is resized to every count up to MaxThreads, including   *)
(* none.                                                                   *)
(***************************************************************************)
EXTENDS ThreadPool

MCThreadCounts == 0..2
=============================================================================
