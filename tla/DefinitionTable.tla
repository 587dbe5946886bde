-------------------------- MODULE DefinitionTable --------------------------
(***************************************************************************)
(* class DefinitionTable (exporter/src/definitiontable.cpp): the exporter  *)
(* builds it once from the rows of the view symboldefinition and asks it,  *)
(* for every reference it writes, whether the symbol has a single          *)
(* definition to link to.                                                  *)
(*                                                                         *)
(* One step is one iteration of the loop of build().  Offsets start at 1   *)
(* here, and 0 stands for the largest size_t, which marks a symbol without *)
(* an entry.                                                               *)
(***************************************************************************)
EXTENDS Naturals, Sequences

CONSTANTS SymbolId,  \* the ids of symbols
          Place,     \* where a definition is: file, line and column
          Input      \* the lists of definitions build() is called with

Definition == [symbol : SymbolId, place : Place]

ASSUME TableAssumption ==
    /\ SymbolId \subseteq Nat
    /\ Input \subseteq Seq(Definition)

VARIABLES
    pc,           \* "empty", "loop" or "built"
    definitions,  \* m_definitions
    table,        \* m_table, a function on 0..max_symbol_id
    i,            \* the next definition of the loop
    current,      \* current_symbol_id
    start         \* current_start_offset

vars == <<pc, definitions, table, i, current, start>>

NoEntry == 0

Init ==
    /\ pc = "empty"
    /\ definitions = <<>> /\ table = <<>>
    /\ i = 1 /\ current = 0 /\ start = 1
-----------------------------------------------------------------------------
(* std::sort by symbol *)
Sorted(defs) ==
    {[k \in DOMAIN defs |-> defs[p[k]]] :
        p \in {f \in [DOMAIN defs -> DOMAIN defs] :
                  /\ \A j, k \in DOMAIN defs : j # k => f[j] # f[k]
                  /\ \A j, k \in DOMAIN defs :
                        j < k => defs[f[j]].symbol <= defs[f[k]].symbol}}

(* build(defs), up to the loop *)
BuildFrom(defs) ==
    /\ pc = "empty"
    /\ definitions' \in Sorted(defs)
    /\ IF definitions' = <<>>
       THEN /\ pc' = "built"
            /\ UNCHANGED <<table, current>>
       ELSE /\ pc' = "loop"
            /\ table' = [id \in 0..definitions'[Len(definitions')].symbol |-> NoEntry]
            /\ current' = definitions'[1].symbol
    /\ i' = 1 /\ start' = 1

Build == \E defs \in Input : BuildFrom(defs)

SameSymbol ==
    /\ pc = "loop" /\ i <= Len(definitions) /\ definitions[i].symbol = current
    /\ i' = i + 1
    /\ UNCHANGED <<pc, definitions, table, current, start>>

(* mutant of NewSymbol: the entry of the symbol that ends is set too far *)
NewSymbolLast ==
    /\ pc = "loop" /\ i <= Len(definitions) /\ definitions[i].symbol # current
    /\ table' = [table EXCEPT ![current] = i - 1]
    /\ current' = definitions[i].symbol
    /\ start' = i
    /\ i' = i + 1
    /\ UNCHANGED <<pc, definitions>>

(* another symbol begins, and the entry of the one before it is set *)
NewSymbol ==
    /\ pc = "loop" /\ i <= Len(definitions) /\ definitions[i].symbol # current
    /\ table' = [table EXCEPT ![current] = start]
    /\ current' = definitions[i].symbol
    /\ start' = i
    /\ i' = i + 1
    /\ UNCHANGED <<pc, definitions>>

EndLoop ==
    /\ pc = "loop" /\ i = Len(definitions) + 1
    /\ pc' = "built"
    /\ UNCHANGED <<definitions, table, i, current, start>>

Next == Build \/ SameSymbol \/ NewSymbol \/ EndLoop

Spec == Init /\ [][Next]_vars
-----------------------------------------------------------------------------
(* mutant of NextIsOther: off by one *)
FirstIsOther(first, id) == definitions[first].symbol # id

NextIsOther(first, id) ==
    first = Len(definitions) \/ definitions[first + 1].symbol # id

(* hasUniqueDefinition(); the definition it writes is definitions[table[id]] *)
HasUniqueDefinition(id) ==
    /\ id \in DOMAIN table
    /\ table[id] # NoEntry
    /\ NextIsOther(table[id], id)
-----------------------------------------------------------------------------
TypeOK ==
    /\ pc \in {"empty", "loop", "built"}
    /\ definitions \in Seq(Definition)
    /\ pc # "empty" => \A k \in DOMAIN definitions : definitions[k].symbol \in DOMAIN table
    /\ \A id \in DOMAIN table : table[id] = NoEntry \/ table[id] \in DOMAIN definitions
    /\ i \in 1..Len(definitions) + 1 /\ start \in Nat /\ current \in Nat

DefinitionsOf(id) == {k \in DOMAIN definitions : definitions[k].symbol = id}

(* A link goes to the definition of the symbol it is on, and only when there is no
   other definition of it. *)
LinksAreRight ==
    pc = "built" =>
        \A id \in SymbolId : HasUniqueDefinition(id) => DefinitionsOf(id) = {table[id]}

(* "returns whether a symbol is defined only once" (definitiontable.cpp:54): so it does,
   except that the one with the highest id of all symbols defined is never found. *)
LinksAreThere ==
    pc = "built" =>
        \A id \in SymbolId :
            /\ \E k \in DOMAIN definitions : DefinitionsOf(id) = {k}
            /\ \E k \in DOMAIN definitions : definitions[k].symbol > id
            => HasUniqueDefinition(id)

=============================================================================
