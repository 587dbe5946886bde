-------------------------- MODULE MCSymbolIndexing --------------------------
(***************************************************************************)
(* A namespace with two classes in it, one the base of the other, and      *)
(* translation units that declare, define and use them in any order; or    *)
(* units without symbols that include a header of the solution, which      *)
(* includes one of two others, and one that is no part of it but includes  *)
(* one that is.  The header and one of the sources are in two projects.    *)
(***************************************************************************)
EXTENDS IncludeIndexing

MCUsr == {"ns", "base", "class"}
MCParent == [x \in MCUsr |-> IF x = "ns" THEN None ELSE "ns"]
MCBasesOf == [x \in MCUsr |-> IF x = "class" THEN {"base"} ELSE {}]

MCPath == {"plain", "first", "second", "header", "one", "other", "system"}
MCListed == <<"plain", "first", "header", "second", "one", "header", "first", "other">>
MCText == [p \in MCPath |->
    CASE p = "first"  -> << {"header"}, {"system"} >>
      [] p = "second" -> << {"system"}, {"header"}, {"one"} >>
      [] p = "header" -> << {"one", "other"} >>
      [] p = "system" -> << {"one"} >>
      [] OTHER -> <<>>]
MCMains ==
    {[u \in 1..NbUnits |-> "plain"]} \cup [1..NbUnits -> {"first", "second"}]
=============================================================================
