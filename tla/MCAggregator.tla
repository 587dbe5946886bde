---------------------------- MODULE MCAggregator ----------------------------
(***************************************************************************)
(* Two files, one with two references at one position and one at another,  *)
(* and every result of up to MaxLength references.                         *)
(***************************************************************************)
EXTENDS Aggregator

CONSTANT MaxLength  \* bound: how many references a result holds

MCFile == 1..2
MCRef == {[file |-> 1, pos |-> 1, symbol |-> "a"], [file |-> 1, pos |-> 1, symbol |-> "b"],
          [file |-> 1, pos |-> 2, symbol |-> "a"], [file |-> 2, pos |-> 1, symbol |-> "a"]}
MCResult == SeqOf(MCRef, MaxLength)
=============================================================================
